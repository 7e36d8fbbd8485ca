--------------------------- MODULE RawFeedProofs ---------------------------
(***************************************************************************)
(* Proofs about RawFeed, for any capacity, pages, cache of the Agent and    *)
(* numbers of records, restarts and failures.                               *)
(***************************************************************************)
EXTENDS RawFeed, Integers, TLAPS

USE CapacityAssumption, PagesAssumption, CacheAssumption, BoundsAssumption

-----------------------------------------------------------------------------
(* The order of records, and the inductive invariant. *)

\* What InOrderOnce asks of two chunks one after the other.
Less(c, d) ==
  (c.kind = "record" /\ d.kind = "record") =>
    \/ c.session < d.session
    \/ c.session = d.session /\ c.sequence < d.sequence

Ascending(s) == \A i, j \in DOMAIN s : i < j => Less(s[i], s[j])

Precedes(s, u) == \A i \in DOMAIN s, j \in DOMAIN u : Less(s[i], u[j])

\* A record the poll is done with, of a known channel.
Asked(c) ==
  c.kind = "record" =>
    /\ c.channel \in Topics
    /\ c.session < session \/ (c.session = session /\ c.sequence <= cursor)

AllAsked(s) == \A i \in DOMAIN s : Asked(s[i])

\* What the worker and the sensor thread hold is in order and was asked for.
Flight ==
  /\ Ascending(buf) /\ Ascending(pending)
  /\ Precedes(taken, buf) /\ Precedes(taken, pending) /\ Precedes(buf, pending)
  /\ AllAsked(taken) /\ AllAsked(buf) /\ AllAsked(pending)

\* What a topic has carried is its own, in order, and older than what is held.
Delivered(t) ==
  /\ \A i, j \in DOMAIN received[t] : i < j => Less(received[t][i].chunk, received[t][j].chunk)
  /\ \A i \in DOMAIN received[t] :
       /\ Asked(received[t][i].chunk)
       /\ IsRecord(received[t][i]) => received[t][i].chunk.channel = t
       /\ \A j \in DOMAIN taken : Less(received[t][i].chunk, taken[j])
       /\ \A j \in DOMAIN buf : Less(received[t][i].chunk, buf[j])
       /\ \A j \in DOMAIN pending : Less(received[t][i].chunk, pending[j])

\* The cursor is not ahead of the session it belongs to.
CursorReal == session > 0 => cursor <= Len(log[session])

IInv == TypeOK /\ CursorReal /\ Flight /\ \A t \in Topics : Delivered(t)

LEMMA InitIInv == Init => IInv
<1> SUFFICES ASSUME Init PROVE IInv
  OBVIOUS
<1>1. << <<>> >> \in Seq(Seq(Topics)) /\ Len(<< <<>> >>) = 1
  OBVIOUS
<1>2. log \in Seq(Seq(Topics)) /\ log # <<>> /\ session \in 0..Len(log) /\ told \in 0..Len(log)
  BY <1>1 DEF Init
<1>3. received \in [Topics -> Seq(Message)]
  BY DEF Init
<1>4. TypeOK
  BY <1>2, <1>3 DEF Init, TypeOK
<1>5. Flight /\ CursorReal
  BY DEF Init, Flight, CursorReal, Ascending, Precedes, AllAsked
<1>6. ASSUME NEW t \in Topics PROVE Delivered(t)
  BY DEF Init, Delivered
<1> QED
  BY <1>4, <1>5, <1>6 DEF IInv

-----------------------------------------------------------------------------
(* Sequences of chunks. *)

LEMMA TailOf ==
  ASSUME NEW s \in Seq(Chunk), s # <<>>
  PROVE  /\ Head(s) = s[1] /\ 1 \in DOMAIN s /\ Head(s) \in Chunk
         /\ Tail(s) \in Seq(Chunk) /\ Len(Tail(s)) = Len(s) - 1
         /\ \A i \in DOMAIN Tail(s) : i + 1 \in DOMAIN s /\ Tail(s)[i] = s[i + 1] /\ i \in Nat
OBVIOUS

LEMMA AppendTo ==
  ASSUME NEW S, NEW s \in Seq(S), NEW e \in S
  PROVE  /\ Append(s, e) \in Seq(S) /\ Len(Append(s, e)) = Len(s) + 1
         /\ \A i \in DOMAIN Append(s, e) :
              \/ i \in DOMAIN s /\ Append(s, e)[i] = s[i]
              \/ i = Len(s) + 1 /\ Append(s, e)[i] = e
         /\ \A i \in DOMAIN s : i \in Nat /\ i < Len(s) + 1
OBVIOUS

\* Without its head a sequence is what it was.
LEMMA TailKeeps ==
  ASSUME NEW s \in Seq(Chunk), s # <<>>
  PROVE  /\ Ascending(s) => Ascending(Tail(s)) /\ \A j \in DOMAIN Tail(s) : Less(Head(s), Tail(s)[j])
         /\ AllAsked(s) => AllAsked(Tail(s)) /\ Asked(Head(s))
         /\ \A u : Precedes(s, u) =>
              Precedes(Tail(s), u) /\ \A j \in DOMAIN u : Less(Head(s), u[j])
         /\ \A u : Precedes(u, s) =>
              Precedes(u, Tail(s)) /\ \A i \in DOMAIN u : Less(u[i], Head(s))
<1>1. /\ Head(s) = s[1] /\ 1 \in DOMAIN s
      /\ \A i \in DOMAIN Tail(s) :
           i + 1 \in DOMAIN s /\ Tail(s)[i] = s[i + 1] /\ i \in Nat /\ 1 < i + 1
  BY TailOf
<1>2. ASSUME Ascending(s) PROVE Ascending(Tail(s))
  <2> SUFFICES ASSUME NEW i \in DOMAIN Tail(s), NEW j \in DOMAIN Tail(s), i < j
               PROVE  Less(Tail(s)[i], Tail(s)[j])
    BY DEF Ascending
  <2>1. i + 1 < j + 1 /\ i + 1 \in DOMAIN s /\ j + 1 \in DOMAIN s
    BY <1>1
  <2> QED
    BY <1>1, <1>2, <2>1 DEF Ascending
<1>3. ASSUME Ascending(s) PROVE \A j \in DOMAIN Tail(s) : Less(Head(s), Tail(s)[j])
  BY <1>1, <1>3 DEF Ascending
<1>4. AllAsked(s) => AllAsked(Tail(s)) /\ Asked(Head(s))
  BY <1>1 DEF AllAsked
<1>5. ASSUME NEW u, Precedes(s, u)
      PROVE  Precedes(Tail(s), u) /\ \A j \in DOMAIN u : Less(Head(s), u[j])
  BY <1>1, <1>5 DEF Precedes
<1>6. ASSUME NEW u, Precedes(u, s)
      PROVE  Precedes(u, Tail(s)) /\ \A i \in DOMAIN u : Less(u[i], Head(s))
  BY <1>1, <1>6 DEF Precedes
<1> QED
  BY <1>2, <1>3, <1>4, <1>5, <1>6

-----------------------------------------------------------------------------
(* The Agent. *)

\* Records are added, sessions too; nothing that was asked for changes.
LEMMA AgentStep == IInv /\ (AgentRecords \/ AgentRestarts) => IInv'
<1> SUFFICES ASSUME IInv, AgentRecords \/ AgentRestarts PROVE IInv'
  OBVIOUS
<1>1. TypeOK /\ UNCHANGED <<poll, queue, worker>>
  BY DEF IInv, AgentRecords, AgentRestarts
<1>2. Len(log) \in Nat /\ Len(log) > 0
  BY <1>1 DEF TypeOK
<1> DEFINE Grown == /\ log' \in Seq(Seq(Topics)) /\ Len(log') >= Len(log)
                    /\ \A s \in 1..Len(log) : Len(log'[s]) >= Len(log[s])
<1>3. Grown
  <2>1. ASSUME NEW channel \in Topics, log' = [log EXCEPT ![Now] = Append(@, channel)]
        PROVE  Grown
    <3>1. Now \in 1..Len(log) /\ log[Now] \in Seq(Topics)
      BY <1>1, <1>2 DEF Now, TypeOK
    <3>2. Append(log[Now], channel) \in Seq(Topics)
          /\ Len(Append(log[Now], channel)) = Len(log[Now]) + 1
      BY <3>1
    <3>3. log' \in Seq(Seq(Topics)) /\ Len(log') = Len(log)
      BY <1>1, <2>1, <3>1, <3>2 DEF TypeOK
    <3>4. \A s \in 1..Len(log) : Len(log'[s]) >= Len(log[s])
      <4> SUFFICES ASSUME NEW s \in 1..Len(log) PROVE Len(log'[s]) >= Len(log[s])
        OBVIOUS
      <4>1. log[s] \in Seq(Topics) /\ Len(log[s]) \in Nat
        BY <1>1 DEF TypeOK
      <4> QED
        BY <1>1, <2>1, <3>1, <3>2, <4>1 DEF TypeOK
    <3> QED
      BY <1>2, <3>3, <3>4
  <2>2. ASSUME log' = Append(log, <<>>) PROVE Grown
    <3>1. <<>> \in Seq(Topics)
      OBVIOUS
    <3>2. log' \in Seq(Seq(Topics)) /\ Len(log') = Len(log) + 1
      BY <1>1, <2>2, <3>1 DEF TypeOK
    <3>3. \A s \in 1..Len(log) : log'[s] = log[s] /\ Len(log[s]) \in Nat
      BY <1>1, <2>2, <3>1 DEF TypeOK
    <3> QED
      BY <1>2, <3>2, <3>3
  <2> QED
    BY <2>1, <2>2 DEF AgentRecords, AgentRestarts
<1>4. TypeOK'
  <2>1. log' # <<>>
    BY <1>2, <1>3
  <2>2. 0..Len(log) \subseteq 0..Len(log')
    BY <1>2, <1>3
  <2> QED
    BY <1>1, <1>3, <2>1, <2>2 DEF TypeOK, poll, queue, worker
<1>5. CursorReal'
  <2> SUFFICES ASSUME session > 0 PROVE cursor <= Len(log'[session])
    BY <1>1 DEF CursorReal, poll
  <2>1. session \in 1..Len(log) /\ cursor \in Nat /\ cursor <= Len(log[session])
    BY <1>1 DEF IInv, TypeOK, CursorReal
  <2>2. Len(log[session]) \in Nat /\ Len(log'[session]) \in Nat
    <3>1. session \in 1..Len(log')
      BY <1>2, <1>3, <2>1
    <3>2. log[session] \in Seq(Topics) /\ log'[session] \in Seq(Topics)
      BY <1>1, <1>3, <2>1, <3>1 DEF TypeOK
    <3> QED
      BY <3>2
  <2> QED
    BY <1>3, <2>1, <2>2
<1>6. Flight' /\ \A t \in Topics : Delivered(t)'
  BY <1>1 DEF IInv, Flight, Delivered, Ascending, Precedes, AllAsked, Asked, IsRecord, poll,
              queue, worker
<1> QED
  BY <1>4, <1>5, <1>6 DEF IInv

-----------------------------------------------------------------------------
(* An answer. *)

\* The numbers of an answer follow the cursor of a known session, and exist.
LEMMA AnswerNumbers ==
  ASSUME TypeOK, CursorReal
  PROVE  /\ Now \in Nat /\ Now > 0 /\ Newest \in Nat
         /\ FirstAfter \in Nat /\ FirstAfter > 0
         /\ LastAfter \in Nat /\ LastAfter <= Newest
         /\ session <= Now
         /\ Known => FirstAfter > cursor /\ LastAfter >= cursor
<1>1. Now \in Nat /\ Now > 0 /\ log[Now] \in Seq(Topics)
  BY DEF TypeOK, Now
<1>2. Newest \in Nat /\ cursor \in Nat /\ session \in Nat /\ session <= Now
  BY <1>1 DEF TypeOK, Newest, Now
<1>3. Known => cursor <= Newest
  BY <1>1 DEF CursorReal, Known, Newest
<1>4. Oldest \in Nat /\ Oldest > 0 /\ Oldest <= Newest + 1
  BY <1>2 DEF Oldest
<1>5. FirstAfter \in Nat /\ FirstAfter > 0 /\ (Known => FirstAfter > cursor)
  BY <1>2, <1>4 DEF FirstAfter
<1>6. FirstAfter <= Newest + 1
  BY <1>2, <1>3, <1>4 DEF FirstAfter
<1> HIDE DEF Now, Newest, FirstAfter, Known
<1>7. LastAfter \in Nat /\ LastAfter <= Newest /\ (Known => LastAfter >= cursor)
  BY <1>2, <1>3, <1>5, <1>6 DEF LastAfter
<1> QED
  BY <1>1, <1>2, <1>5, <1>7

LEMMA PageRight ==
  ASSUME TypeOK, CursorReal
  PROVE  /\ Page \in Seq(Chunk)
         /\ \A i \in DOMAIN Page :
              /\ i \in Nat
              /\ Page[i].kind = "record" /\ Page[i].channel \in Topics
              /\ Page[i].session = Now /\ Page[i].sequence = FirstAfter + i - 1
              /\ Page[i].sequence >= FirstAfter /\ Page[i].sequence <= LastAfter
<1> DEFINE n == (LastAfter + 1) - FirstAfter
<1>1. /\ Now \in Nat /\ Now > 0 /\ Newest \in Nat /\ FirstAfter \in Nat /\ FirstAfter > 0
      /\ LastAfter \in Nat /\ LastAfter <= Newest
  BY AnswerNumbers
<1>2. ASSUME NEW i \in 1..n
      PROVE  /\ i \in Nat /\ FirstAfter + i - 1 \in 1..Newest
             /\ FirstAfter + i - 1 >= FirstAfter /\ FirstAfter + i - 1 <= LastAfter
  BY <1>1, <1>2
<1>3. log[Now] \in Seq(Topics)
  BY <1>1 DEF TypeOK, Now
<1>4. \A k \in 1..Newest : log[Now][k] \in Topics
  BY <1>3 DEF Newest
<1>5. ASSUME NEW i \in 1..n PROVE Record(Now, FirstAfter + i - 1) \in Chunk
  BY <1>1, <1>2, <1>4, <1>5 DEF Record, Chunk
<1>6. Page = [i \in 1..n |-> Record(Now, FirstAfter + i - 1)]
  BY DEF Page
<1> HIDE DEF n
<1>7. n \in Int
  BY <1>1 DEF n
<1>8. Page \in Seq(Chunk)
  <2>1. CASE n >= 0
    BY <1>5, <1>6, <1>7, <2>1
  <2>2. CASE n < 0
    <3>1. 1..n = 1..0
      BY <1>7, <2>2
    <3>2. Page = [i \in 1..0 |-> Record(Now, FirstAfter + i - 1)]
      BY <1>6, <3>1
    <3>3. \A i \in 1..0 : Record(Now, FirstAfter + i - 1) \in Chunk
      OBVIOUS
    <3> QED
      BY <3>2, <3>3
  <2> QED
    BY <1>7, <2>1, <2>2
<1>9. ASSUME NEW i \in DOMAIN Page
      PROVE  /\ i \in Nat
             /\ Page[i].kind = "record" /\ Page[i].channel \in Topics
             /\ Page[i].session = Now /\ Page[i].sequence = FirstAfter + i - 1
             /\ Page[i].sequence >= FirstAfter /\ Page[i].sequence <= LastAfter
  BY <1>2, <1>4, <1>6, <1>9 DEF Record
<1> QED
  BY <1>8, <1>9

\* The chunks of an answer: records of the Agent's session after the cursor.
LEMMA MarkedRight ==
  ASSUME TypeOK, CursorReal, NEW gap
  PROVE  /\ Marked(gap, Page) \in Seq(Chunk)
         /\ Ascending(Marked(gap, Page))
         /\ \A i \in DOMAIN Marked(gap, Page) :
              Marked(gap, Page)[i].kind = "record" =>
                /\ Marked(gap, Page)[i].channel \in Topics
                /\ Marked(gap, Page)[i].session = Now
                /\ Marked(gap, Page)[i].sequence \in Nat
                /\ Marked(gap, Page)[i].sequence >= FirstAfter
                /\ Marked(gap, Page)[i].sequence <= LastAfter
<1>1. /\ Page \in Seq(Chunk)
      /\ \A i \in DOMAIN Page :
           /\ i \in Nat
           /\ Page[i].kind = "record" /\ Page[i].channel \in Topics
           /\ Page[i].session = Now /\ Page[i].sequence = FirstAfter + i - 1
           /\ Page[i].sequence >= FirstAfter /\ Page[i].sequence <= LastAfter
  BY PageRight
<1>2. Now \in Nat /\ FirstAfter \in Nat /\ LastAfter \in Nat
  BY AnswerNumbers
<1> HIDE DEF Page
<1>3. ASSUME NEW i \in DOMAIN Page, NEW j \in DOMAIN Page, i < j PROVE Less(Page[i], Page[j])
  BY <1>1, <1>2, <1>3 DEF Less
<1>4. CASE ~gap
  <2>1. Marked(gap, Page) = Page
    BY <1>4 DEF Marked
  <2> QED
    BY <1>1, <1>2, <1>3, <2>1 DEF Ascending
<1>5. CASE gap
  <2> DEFINE m == Marker("gap", Now)
  <2>1. m \in Chunk /\ m.kind = "gap"
    BY <1>2 DEF Marker, Chunk
  <2>2. Marked(gap, Page) = <<m>> \o Page
    BY <1>5 DEF Marked
  <2> HIDE DEF m
  <2>3. /\ <<m>> \o Page \in Seq(Chunk)
        /\ \A i \in DOMAIN (<<m>> \o Page) :
             \/ i = 1 /\ (<<m>> \o Page)[i] = m
             \/ i \in Nat /\ i - 1 \in DOMAIN Page /\ (<<m>> \o Page)[i] = Page[i - 1]
    BY <1>1, <2>1
  <2>4. Ascending(<<m>> \o Page)
    <3> SUFFICES ASSUME NEW i \in DOMAIN (<<m>> \o Page), NEW j \in DOMAIN (<<m>> \o Page), i < j
                 PROVE  Less((<<m>> \o Page)[i], (<<m>> \o Page)[j])
      BY DEF Ascending
    <3>1. CASE (<<m>> \o Page)[i] = m \/ (<<m>> \o Page)[j] = m
      BY <2>1, <3>1 DEF Less
    <3>2. CASE (<<m>> \o Page)[i] # m /\ (<<m>> \o Page)[j] # m
      <4>1. /\ i \in Nat /\ i - 1 \in DOMAIN Page /\ (<<m>> \o Page)[i] = Page[i - 1]
            /\ j \in Nat /\ j - 1 \in DOMAIN Page /\ (<<m>> \o Page)[j] = Page[j - 1]
        BY <2>3, <3>2
      <4>2. i - 1 < j - 1
        BY <4>1
      <4> QED
        BY <1>3, <4>1, <4>2
    <3> QED
      BY <3>1, <3>2
  <2>5. ASSUME NEW i \in DOMAIN (<<m>> \o Page), (<<m>> \o Page)[i].kind = "record"
        PROVE  \E k \in DOMAIN Page : (<<m>> \o Page)[i] = Page[k]
    BY <2>1, <2>3, <2>5
  <2>6. ASSUME NEW i \in DOMAIN (<<m>> \o Page), (<<m>> \o Page)[i].kind = "record"
        PROVE  /\ (<<m>> \o Page)[i].channel \in Topics
               /\ (<<m>> \o Page)[i].session = Now
               /\ (<<m>> \o Page)[i].sequence \in Nat
               /\ (<<m>> \o Page)[i].sequence >= FirstAfter
               /\ (<<m>> \o Page)[i].sequence <= LastAfter
    <3>1. PICK k \in DOMAIN Page : (<<m>> \o Page)[i] = Page[k]
      BY <2>5, <2>6
    <3>2. Page[k] \in Chunk
      BY <1>1
    <3> QED
      BY <1>1, <3>1, <3>2 DEF Chunk
  <2>7. <<m>> \o Page \in Seq(Chunk)
    BY <2>3
  <2> QED
    BY <2>2, <2>4, <2>6, <2>7
<1> QED
  BY <1>4, <1>5

\* What was asked for is older than the answer, and stays asked for.
LEMMA AskedBefore ==
  ASSUME TypeOK, CursorReal, NEW c \in Chunk, Asked(c),
         session' = Now, cursor' = LastAfter
  PROVE  /\ Asked(c)'
         /\ \A d \in Chunk : (d.session = Now /\ d.sequence >= FirstAfter) => Less(c, d)
<1>1. /\ Now \in Nat /\ FirstAfter \in Nat /\ LastAfter \in Nat /\ session <= Now
      /\ Known => FirstAfter > cursor /\ LastAfter >= cursor
  BY AnswerNumbers
<1>2. session \in Nat /\ cursor \in Nat /\ (Known <=> session = Now)
  BY DEF TypeOK, Known
<1>3. c.session \in Nat /\ c.sequence \in Nat
  BY DEF Chunk
<1> HIDE DEF Now, FirstAfter, LastAfter, Known
<1>4. ASSUME NEW d \in Chunk, d.session = Now, d.sequence >= FirstAfter PROVE Less(c, d)
  <2>1. d.session \in Nat /\ d.sequence \in Nat
    BY DEF Chunk
  <2> QED
    BY <1>1, <1>2, <1>3, <1>4, <2>1 DEF Asked, Less
<1>5. Asked(c)'
  BY <1>1, <1>2, <1>3 DEF Asked
<1> QED
  BY <1>4, <1>5

LEMMA PageArrivesStep == IInv /\ PageArrives => IInv'
<1> SUFFICES ASSUME IInv, PageArrives PROVE IInv'
  OBVIOUS
<1>1. TypeOK /\ CursorReal /\ pending = <<>>
  BY DEF IInv, PageArrives
<1>2. PICK gap : pending' = Marked(gap, Page)
  BY DEF PageArrives
<1>3. /\ cursor' = LastAfter /\ session' = Now
      /\ page' = (IF GoesOn THEN page + 1 ELSE 1) /\ told' = (IF GoesOn THEN Now ELSE 0)
      /\ UNCHANGED <<failures, agent, queue, worker>>
  BY DEF PageArrives, CursorAfter
<1>4. /\ pending' \in Seq(Chunk) /\ Ascending(pending')
      /\ \A i \in DOMAIN pending' :
           pending'[i].kind = "record" =>
             /\ pending'[i].channel \in Topics /\ pending'[i].session = Now
             /\ pending'[i].sequence \in Nat
             /\ pending'[i].sequence >= FirstAfter /\ pending'[i].sequence <= LastAfter
  BY <1>1, <1>2, MarkedRight
<1>5. /\ Now \in Nat /\ Now > 0 /\ Newest \in Nat /\ LastAfter \in Nat
      /\ LastAfter <= Newest
  BY <1>1, AnswerNumbers
<1>6. TypeOK'
  <2>1. page' \in 1..MaxPages
    BY <1>1, <1>3 DEF TypeOK, GoesOn
  <2>2. session' \in 0..Len(log) /\ told' \in 0..Len(log)
    BY <1>3, <1>5 DEF Now
  <2> QED
    BY <1>1, <1>3, <1>4, <1>5, <2>1, <2>2 DEF TypeOK, agent, queue, worker
<1>7. CursorReal'
  BY <1>3, <1>5 DEF CursorReal, Newest, Now, agent
<1>8. \A i \in DOMAIN pending' : pending'[i] \in Chunk
  BY <1>4
<1>9. AllAsked(pending)'
  BY <1>3, <1>4 DEF AllAsked, Asked
<1>10. ASSUME NEW c \in Chunk, Asked(c)
       PROVE  Asked(c)' /\ \A i \in DOMAIN pending' : Less(c, pending'[i])
  <2>1. Asked(c)'
    BY <1>1, <1>3, <1>10, AskedBefore
  <2>2. ASSUME NEW i \in DOMAIN pending' PROVE Less(c, pending'[i])
    <3>1. CASE pending'[i].kind = "record"
      BY <1>1, <1>3, <1>4, <1>8, <1>10, <3>1, AskedBefore
    <3>2. CASE pending'[i].kind # "record"
      BY <3>2 DEF Less
    <3> QED
      BY <3>1, <3>2
  <2> QED
    BY <2>1, <2>2
<1>11. /\ \A i \in DOMAIN taken : taken[i] \in Chunk
       /\ \A i \in DOMAIN buf : buf[i] \in Chunk
  BY <1>1 DEF TypeOK
<1>12. Flight'
  BY <1>3, <1>4, <1>9, <1>10, <1>11
     DEF IInv, Flight, Ascending, Precedes, AllAsked, queue, worker
<1>13. ASSUME NEW t \in Topics PROVE Delivered(t)'
  <2>1. Delivered(t)
    BY DEF IInv
  <2>2. received[t] \in Seq(Message)
    BY <1>1 DEF TypeOK
  <2>3. ASSUME NEW i \in DOMAIN received[t] PROVE received[t][i].chunk \in Chunk
    <3>1. received[t][i] \in Message
      BY <2>2
    <3> QED
      BY <3>1 DEF Message
  <2> QED
    BY <1>3, <1>10, <2>1, <2>3 DEF Delivered, IsRecord, queue, worker
<1> QED
  BY <1>6, <1>7, <1>12, <1>13 DEF IInv

LEMMA QueryFailsStep == IInv /\ QueryFails => IInv'
<1> SUFFICES ASSUME IInv, QueryFails PROVE IInv'
  OBVIOUS
<1>1. /\ pending = <<>> /\ failures' = failures + 1 /\ failures < MaxFailures
      /\ page' = 1 /\ told' = 0
      /\ UNCHANGED <<cursor, session, agent, queue, worker>>
  BY DEF QueryFails
<1>2. TypeOK
  BY DEF IInv
<1> DEFINE m == Marker("failed", told)
<1>3. pending' = <<m>> /\ m \in Chunk /\ m.kind = "failed"
  BY <1>2 DEF QueryFails, TypeOK, Marker, Chunk
<1> HIDE DEF m
<1>4. pending' \in Seq(Chunk) /\ \A i \in DOMAIN pending' : pending'[i].kind = "failed"
  BY <1>3
<1>5. TypeOK'
  BY <1>1, <1>2, <1>4 DEF TypeOK, agent, queue, worker
<1>6. Flight'
  BY <1>1, <1>4
     DEF IInv, Flight, Ascending, Precedes, AllAsked, Asked, Less, queue, worker
<1>7. ASSUME NEW t \in Topics PROVE Delivered(t)'
  BY <1>1, <1>4 DEF IInv, Delivered, Asked, Less, IsRecord, queue, worker
<1> QED
  BY <1>1, <1>5, <1>6, <1>7 DEF IInv, CursorReal, agent

-----------------------------------------------------------------------------
(* The queue and its worker. *)

LEMMA PushStep == IInv /\ Push => IInv'
<1> SUFFICES ASSUME IInv, Push PROVE IInv'
  OBVIOUS
<1> DEFINE c == Head(pending)
           room == IF Len(buf) >= Capacity THEN Tail(buf) ELSE buf
<1>1. TypeOK /\ pending # <<>> /\ pending' = Tail(pending) /\ buf' = Append(room, c)
  BY DEF IInv, Push
<1>2. /\ dropped' = Counted
      /\ UNCHANGED <<cursor, session, page, told, failures, agent, worker>>
  BY DEF Push
<1>3. pending \in Seq(Chunk) /\ buf \in Seq(Chunk) /\ Len(buf) <= Capacity
  BY <1>1 DEF TypeOK
<1>4. c \in Chunk /\ Tail(pending) \in Seq(Chunk)
  BY <1>1, <1>3, TailOf
\* What is left of the queue is as good as the queue.
<1>5. /\ room \in Seq(Chunk) /\ Len(room) < Capacity
      /\ Ascending(room) /\ AllAsked(room)
      /\ Precedes(taken, room) /\ Precedes(room, pending)
      /\ \A i \in DOMAIN room : \E j \in DOMAIN buf : room[i] = buf[j]
  <2>1. Flight
    BY DEF IInv
  <2>2. CASE Len(buf) >= Capacity
    <3>1. buf # <<>> /\ room = Tail(buf)
      BY <1>3, <2>2
    <3> QED
      BY <1>3, <2>1, <3>1, TailOf, TailKeeps DEF Flight
  <2>3. CASE ~(Len(buf) >= Capacity)
    BY <1>3, <2>1, <2>3 DEF Flight
  <2> QED
    BY <2>2, <2>3
<1>6. /\ Ascending(Tail(pending)) /\ \A j \in DOMAIN Tail(pending) : Less(c, Tail(pending)[j])
      /\ AllAsked(Tail(pending)) /\ Asked(c)
      /\ Precedes(room, Tail(pending)) /\ \A i \in DOMAIN room : Less(room[i], c)
      /\ Precedes(taken, Tail(pending)) /\ \A i \in DOMAIN taken : Less(taken[i], c)
  BY <1>1, <1>3, <1>5, TailKeeps DEF IInv, Flight
<1> HIDE DEF c, room
<1>7. /\ buf' \in Seq(Chunk) /\ Len(buf') <= Capacity
      /\ \A i \in DOMAIN buf' : \/ i \in DOMAIN room /\ buf'[i] = room[i]
                                \/ i = Len(room) + 1 /\ buf'[i] = c
      /\ \A i \in DOMAIN room : i \in Nat /\ i < Len(room) + 1
  BY <1>1, <1>4, <1>5, AppendTo
<1>8. TypeOK'
  BY <1>1, <1>2, <1>4, <1>7 DEF TypeOK, Counted, agent, worker
<1>9. Ascending(buf)'
  <2> SUFFICES ASSUME NEW i \in DOMAIN buf', NEW j \in DOMAIN buf', i < j
               PROVE  Less(buf'[i], buf'[j])
    BY DEF Ascending
  <2>1. i \in DOMAIN room /\ buf'[i] = room[i]
    BY <1>5, <1>7
  <2> QED
    BY <1>5, <1>6, <1>7, <2>1 DEF Ascending
<1>10. Flight'
  BY <1>1, <1>2, <1>5, <1>6, <1>7, <1>9
     DEF Flight, Ascending, Precedes, AllAsked, Asked, IInv, worker
<1>11. ASSUME NEW t \in Topics PROVE Delivered(t)'
  <2>1. Delivered(t)
    BY DEF IInv
  <2>2. ASSUME NEW i \in DOMAIN received[t]
        PROVE  /\ \A j \in DOMAIN buf' : Less(received[t][i].chunk, buf'[j])
               /\ \A j \in DOMAIN pending' : Less(received[t][i].chunk, pending'[j])
    <3>1. Less(received[t][i].chunk, c)
      BY <1>1, <1>3, <2>1, TailOf DEF Delivered, c
    <3>2. \A j \in DOMAIN Tail(pending) : Less(received[t][i].chunk, Tail(pending)[j])
      BY <1>1, <1>3, <2>1, TailOf DEF Delivered
    <3>3. \A j \in DOMAIN room : Less(received[t][i].chunk, room[j])
      BY <1>5, <2>1 DEF Delivered
    <3> QED
      BY <1>1, <1>7, <3>1, <3>2, <3>3
  <2> QED
    BY <1>2, <2>1, <2>2 DEF Delivered, Asked, IsRecord, worker
<1> QED
  BY <1>2, <1>8, <1>10, <1>11 DEF IInv, CursorReal, agent

LEMMA PopStep == IInv /\ Pop => IInv'
<1> SUFFICES ASSUME IInv, Pop PROVE IInv'
  OBVIOUS
<1>1. /\ TypeOK /\ taken = <<>> /\ buf # <<>>
      /\ taken' = <<Head(buf)>> /\ buf' = Tail(buf)
      /\ UNCHANGED <<dropped, received, agent, poll>>
  BY DEF IInv, Pop
<1>2. buf \in Seq(Chunk)
  BY <1>1 DEF TypeOK
<1>3. /\ Head(buf) \in Chunk /\ Head(buf) = buf[1] /\ 1 \in DOMAIN buf
      /\ Tail(buf) \in Seq(Chunk) /\ Len(Tail(buf)) = Len(buf) - 1
      /\ \A i \in DOMAIN Tail(buf) : i + 1 \in DOMAIN buf /\ Tail(buf)[i] = buf[i + 1]
  BY <1>1, <1>2, TailOf
<1>4. taken' \in Seq(Chunk) /\ Len(taken') = 1 /\ DOMAIN taken' = {1} /\ taken'[1] = Head(buf)
  BY <1>1, <1>3
<1>5. TypeOK'
  BY <1>1, <1>3, <1>4 DEF TypeOK, agent, poll
<1>6. Flight'
  BY <1>1, <1>2, <1>4, TailKeeps
     DEF IInv, Flight, Precedes, AllAsked, Asked, Ascending, poll
<1>7. ASSUME NEW t \in Topics PROVE Delivered(t)'
  BY <1>1, <1>3, <1>4 DEF IInv, Delivered, Asked, IsRecord, poll
<1> QED
  BY <1>1, <1>5, <1>6, <1>7 DEF IInv, CursorReal, agent, poll

LEMMA HandOverStep == IInv /\ HandOver => IInv'
<1> SUFFICES ASSUME IInv, HandOver PROVE IInv'
  OBVIOUS
<1> DEFINE c == taken[1]
           m == [chunk |-> c, stamp |-> dropped]
<1>1. TypeOK /\ taken # <<>> /\ taken' = <<>> /\ UNCHANGED <<queue, agent, poll>>
  BY DEF IInv, HandOver
<1>2. received' = [t \in Topics |->
        IF t \in TopicsOf(c) THEN Append(received[t], m) ELSE received[t]]
  BY DEF HandOver
<1>3. c \in Chunk /\ 1 \in DOMAIN taken
  BY <1>1 DEF TypeOK
<1>4. m \in Message /\ m.chunk = c
  BY <1>1, <1>3 DEF TypeOK, Message
<1>5. /\ Asked(c) /\ \A j \in DOMAIN buf : Less(c, buf[j])
      /\ \A j \in DOMAIN pending : Less(c, pending[j])
  BY <1>3 DEF IInv, Flight, AllAsked, Precedes
<1>6. \A t \in Topics : received[t] \in Seq(Message)
  BY <1>1 DEF TypeOK
<1>7. \A t \in Topics : \A i \in DOMAIN received[t] : Less(received[t][i].chunk, c)
  BY <1>3 DEF IInv, Delivered
<1> HIDE DEF c, m
<1>8. \A t \in Topics : Append(received[t], m) \in Seq(Message)
  BY <1>4, <1>6
<1>9. TypeOK'
  <2>1. received' \in [Topics -> Seq(Message)]
    BY <1>2, <1>6, <1>8
  <2> QED
    BY <1>1, <2>1 DEF TypeOK, queue, agent, poll
<1>10. Flight'
  BY <1>1 DEF IInv, Flight, Ascending, Precedes, AllAsked, Asked, queue, poll
<1>11. ASSUME NEW t \in Topics PROVE Delivered(t)'
  <2>1. Delivered(t) /\ received[t] \in Seq(Message)
    BY <1>6 DEF IInv
  <2>2. CASE t \notin TopicsOf(c)
    <3>1. received'[t] = received[t]
      BY <1>2, <2>2
    <3> QED
      BY <1>1, <2>1, <3>1 DEF Delivered, Asked, IsRecord, queue, poll
  <2>3. CASE t \in TopicsOf(c)
    <3>1. /\ received'[t] = Append(received[t], m)
          /\ \A i \in DOMAIN received'[t] :
               \/ i \in DOMAIN received[t] /\ received'[t][i] = received[t][i]
               \/ i = Len(received[t]) + 1 /\ received'[t][i] = m
          /\ \A i \in DOMAIN received[t] : i \in Nat /\ i < Len(received[t]) + 1
          /\ Len(received[t]) \in Nat
      BY <1>2, <1>4, <2>1, <2>3, AppendTo
    <3>2. IsRecord(m) => c.channel = t
      BY <1>4, <1>5, <2>3 DEF IsRecord, Asked, TopicsOf, Topics, Raw, Cors
    <3>3. ASSUME NEW i \in DOMAIN received'[t], NEW j \in DOMAIN received'[t], i < j
          PROVE  Less(received'[t][i].chunk, received'[t][j].chunk)
      <4>1. i \in DOMAIN received[t] /\ received'[t][i] = received[t][i]
        BY <3>1, <3>3
      <4> QED
        BY <1>4, <1>7, <2>1, <3>1, <3>3, <4>1 DEF Delivered
    <3>4. ASSUME NEW i \in DOMAIN received'[t]
          PROVE  /\ Asked(received'[t][i].chunk)
                 /\ IsRecord(received'[t][i]) => received'[t][i].chunk.channel = t
                 /\ \A j \in DOMAIN buf : Less(received'[t][i].chunk, buf[j])
                 /\ \A j \in DOMAIN pending : Less(received'[t][i].chunk, pending[j])
      BY <1>4, <1>5, <2>1, <3>1, <3>2, <3>4 DEF Delivered
    <3> QED
      BY <1>1, <3>3, <3>4 DEF Delivered, Asked, IsRecord, queue, poll
  <2> QED
    BY <2>2, <2>3
<1> QED
  BY <1>1, <1>9, <1>10, <1>11 DEF IInv, CursorReal, agent, poll

LEMMA NextIInv == IInv /\ [Next]_vars => IInv'
<1> SUFFICES ASSUME IInv, [Next]_vars PROVE IInv'
  OBVIOUS
<1>1. CASE UNCHANGED vars
  BY <1>1 DEF vars, agent, poll, queue, worker, IInv, TypeOK, CursorReal, Flight, Delivered,
              Ascending, Precedes, AllAsked, Asked, IsRecord
<1> QED
  BY <1>1, AgentStep, PageArrivesStep, QueryFailsStep, PushStep, PopStep, HandOverStep
     DEF Next

LEMMA Invariance == Spec => []IInv
BY InitIInv, NextIInv, PTL DEF Spec

-----------------------------------------------------------------------------
(* Where a record is missing.                                               *)

\* All that is on its way to the topics, oldest first.
Line == taken \o buf \o pending

\* A record is one of the Agent's, on its channel; a marker has none.
Real(c) ==
  IF c.kind = "record"
  THEN /\ c.session \in 1..Len(log) /\ c.sequence \in 1..Len(log[c.session])
       /\ c.channel = log[c.session][c.sequence]
  ELSE c.channel = 0

\* Place j of the line, or the cursor behind it, is after record n of session s.
After(j, s, n) ==
  IF j > Len(Line) THEN s = session /\ n <= cursor
  ELSE Line[j].kind = "record" /\ Line[j].session = s /\ n < Line[j].sequence

\* Between two places there is a marker, or record n of session s itself.
Shown(i, j, s, n) ==
  \E m \in (i + 1)..(j - 1) :
    Line[m].kind # "record" \/ (Line[m].session = s /\ Line[m].sequence = n)

\* From c, at place i or before the line, to each later place of its session no
\* record of topic t is missing unless a marker says so.
Tells(c, i, t) ==
  \A j \in (i + 1)..(Len(Line) + 1), n \in Nat :
    (n > c.sequence /\ log[c.session][n] = t /\ After(j, c.session, n)) =>
      Shown(i, j, c.session, n)

\* Nothing is missing behind the chunk the worker has and the last message of a
\* topic, or the counter has risen since the message before.
LineTells(t) ==
  \A c \in Chunk, i \in DOMAIN Line :
    (c = Line[i] /\ c.kind = "record") =>
      \/ Tells(c, i, t)
      \/ i <= Len(taken) /\ dropped > Before(t, Len(received[t]))
LastTells(t) ==
  \A c \in Chunk :
    (received[t] # <<>> /\ c = received[t][Len(received[t])].chunk /\ c.kind = "record") =>
      \/ Tells(c, 0, t)
      \/ dropped > Before(t, Len(received[t]) - 1)

\* What a topic has carried is the Agent's, with counters that have been.
Stamped(t) ==
  \A i \in DOMAIN received[t] : Real(received[t][i].chunk) /\ received[t][i].stamp <= dropped

LInv ==
  /\ \A i \in DOMAIN Line : Real(Line[i])
  /\ \A t \in Topics : LineTells(t) /\ LastTells(t) /\ Stamped(t)
  /\ LossAnnounced

\* Three sequences in a row.
LEMMA Row ==
  ASSUME NEW a \in Seq(Chunk), NEW b \in Seq(Chunk), NEW d \in Seq(Chunk)
  PROVE  /\ a \o b \o d \in Seq(Chunk)
         /\ Len(a \o b \o d) = Len(a) + Len(b) + Len(d)
         /\ \A i \in 1..(Len(a) + Len(b) + Len(d)) :
              (a \o b \o d)[i] = IF i <= Len(a) THEN a[i]
                                 ELSE IF i <= Len(a) + Len(b) THEN b[i - Len(a)]
                                 ELSE d[i - (Len(a) + Len(b))]
<1>1. /\ a \o b \in Seq(Chunk) /\ Len(a \o b) = Len(a) + Len(b)
      /\ \A i \in 1..(Len(a) + Len(b)) :
           (a \o b)[i] = IF i <= Len(a) THEN a[i] ELSE b[i - Len(a)]
      /\ Len(a) \in Nat /\ Len(b) \in Nat /\ Len(d) \in Nat
  OBVIOUS
<1> DEFINE ab == a \o b
<1> HIDE DEF ab
<1>2. /\ ab \o d \in Seq(Chunk) /\ Len(ab \o d) = Len(ab) + Len(d)
      /\ \A i \in 1..(Len(ab) + Len(d)) :
           (ab \o d)[i] = IF i <= Len(ab) THEN ab[i] ELSE d[i - Len(ab)]
  BY <1>1 DEF ab
<1> QED
  BY <1>1, <1>2 DEF ab

LEMMA LineType ==
  ASSUME TypeOK
  PROVE  /\ Line \in Seq(Chunk) /\ Len(Line) = Len(taken) + Len(buf) + Len(pending)
         /\ Len(taken) \in Nat /\ Len(buf) \in Nat /\ Len(pending) \in Nat
         /\ DOMAIN Line = 1..Len(Line)
         /\ \A i \in DOMAIN Line :
              Line[i] = IF i <= Len(taken) THEN taken[i]
                        ELSE IF i <= Len(taken) + Len(buf) THEN buf[i - Len(taken)]
                        ELSE pending[i - (Len(taken) + Len(buf))]
<1>1. taken \in Seq(Chunk) /\ buf \in Seq(Chunk) /\ pending \in Seq(Chunk)
  BY DEF TypeOK
<1>2. Line \in Seq(Chunk) /\ DOMAIN Line = 1..Len(Line)
  BY <1>1, Row DEF Line
<1> QED
  BY <1>1, <1>2, Row DEF Line

\* Everything on the line was asked for.
LEMMA LineAsked ==
  ASSUME TypeOK, Flight
  PROVE  \A i \in DOMAIN Line : Line[i] \in Chunk /\ Asked(Line[i])
<1> SUFFICES ASSUME NEW i \in DOMAIN Line PROVE Line[i] \in Chunk /\ Asked(Line[i])
  OBVIOUS
<1>1. /\ Line \in Seq(Chunk) /\ Len(Line) = Len(taken) + Len(buf) + Len(pending)
      /\ Len(taken) \in Nat /\ Len(buf) \in Nat /\ Len(pending) \in Nat
      /\ i \in 1..Len(Line)
      /\ Line[i] = IF i <= Len(taken) THEN taken[i]
                   ELSE IF i <= Len(taken) + Len(buf) THEN buf[i - Len(taken)]
                   ELSE pending[i - (Len(taken) + Len(buf))]
  BY LineType
<1>2. Line[i] \in Chunk
  BY <1>1
<1>3. /\ i <= Len(taken) => i \in DOMAIN taken
      /\ i > Len(taken) /\ i <= Len(taken) + Len(buf) => i - Len(taken) \in DOMAIN buf
      /\ i > Len(taken) + Len(buf) => i - (Len(taken) + Len(buf)) \in DOMAIN pending
  BY <1>1 DEF TypeOK
<1> QED
  BY <1>1, <1>2, <1>3 DEF Flight, AllAsked

\* The counter compared with is one that has been.
LEMMA CounterHasBeen ==
  ASSUME TypeOK, NEW t \in Topics, Stamped(t), NEW k \in Int, k <= Len(received[t])
  PROVE  Before(t, k) \in Nat /\ Before(t, k) <= dropped
<1>1. received[t] \in Seq(Message) /\ dropped \in Nat
  BY DEF TypeOK
<1>2. CASE k < 1
  BY <1>1, <1>2 DEF Before
<1>3. CASE k >= 1
  <2>1. k \in DOMAIN received[t]
    BY <1>1, <1>3
  <2>2. received[t][k] \in Message
    BY <1>1, <2>1
  <2> QED
    BY <1>1, <1>3, <2>1, <2>2 DEF Before, Stamped, Message
<1> QED
  BY <1>2, <1>3

-----------------------------------------------------------------------------
(* What a step does to the line. *)

\* Nothing.
LEMMA TellsStays ==
  ASSUME Line' = Line, UNCHANGED <<log, session, cursor>>,
         NEW c, NEW i, NEW t, Tells(c, i, t)
  PROVE  Tells(c, i, t)'
BY DEF Tells, After, Shown

\* It takes the chunk at place p.
LEMMA TellsWithout ==
  ASSUME TypeOK, NEW p \in DOMAIN Line, Len(Line') = Len(Line) - 1,
         \A m \in 1..Len(Line') : Line'[m] = IF m < p THEN Line[m] ELSE Line[m + 1],
         UNCHANGED <<log, session, cursor>>,
         NEW c, NEW i \in Nat, i >= p, NEW t, Tells(c, i, t)
  PROVE  Tells(c, i - 1, t)'
<1>1. Len(Line) \in Nat /\ p \in 1..Len(Line)
  BY LineType
<1> SUFFICES ASSUME NEW j \in i..(Len(Line') + 1), NEW n \in Nat,
                    n > c.sequence, log[c.session][n] = t, After(j, c.session, n)'
             PROVE  Shown(i - 1, j, c.session, n)'
  BY <1>1 DEF Tells
<1>2. j + 1 \in (i + 1)..(Len(Line) + 1) /\ After(j + 1, c.session, n)
  BY <1>1 DEF After
<1>3. PICK m \in (i + 1)..j :
        Line[m].kind # "record" \/ (Line[m].session = c.session /\ Line[m].sequence = n)
  BY <1>1, <1>2 DEF Tells, Shown
<1>4. m - 1 \in i..(j - 1) /\ Line'[m - 1] = Line[m]
  BY <1>1, <1>3
<1> QED
  BY <1>3, <1>4 DEF Shown

\* It adds chunks behind the others: from an old place nothing new is missing if
\* nothing is up to each new place and to the cursor.
LEMMA TellsMore ==
  ASSUME TypeOK, Len(Line') \in Nat, Len(Line') >= Len(Line),
         \A m \in 1..Len(Line) : Line'[m] = Line[m],
         UNCHANGED log,
         NEW c, NEW i \in 0..Len(Line), NEW t, Tells(c, i, t),
         \A j \in (Len(Line) + 1)..(Len(Line') + 1), n \in Nat :
           (n > c.sequence /\ log[c.session][n] = t /\ After(j, c.session, n)') =>
             Shown(i, j, c.session, n)'
  PROVE  Tells(c, i, t)'
<1>1. Len(Line) \in Nat
  BY LineType
<1> SUFFICES ASSUME NEW j \in (i + 1)..(Len(Line') + 1), NEW n \in Nat,
                    n > c.sequence, log[c.session][n] = t, After(j, c.session, n)'
             PROVE  Shown(i, j, c.session, n)'
  BY DEF Tells
<1>2. CASE j > Len(Line)
  BY <1>1, <1>2
<1>3. CASE j <= Len(Line)
  <2>1. j \in (i + 1)..(Len(Line) + 1) /\ After(j, c.session, n)
    BY <1>1, <1>3 DEF After
  <2>2. PICK m \in (i + 1)..(j - 1) :
          Line[m].kind # "record" \/ (Line[m].session = c.session /\ Line[m].sequence = n)
    BY <2>1 DEF Tells, Shown
  <2>3. Line'[m] = Line[m]
    BY <1>1, <1>3, <2>2
  <2> QED
    BY <2>2, <2>3 DEF Shown
<1> QED
  BY <1>1, <1>2, <1>3

\* It hands over the first chunk, to other topics than t.
LEMMA TellsPast ==
  ASSUME TypeOK, 1 \in DOMAIN Line, Len(Line') = Len(Line) - 1,
         \A m \in 1..Len(Line') : Line'[m] = Line[m + 1],
         UNCHANGED <<log, session, cursor>>,
         Line[1].kind = "record", Real(Line[1]), NEW t, Line[1].channel # t,
         NEW c, Tells(c, 0, t)
  PROVE  Tells(c, 0, t)'
<1>1. Len(Line) \in Nat /\ Len(Line) > 0
  BY LineType
<1> SUFFICES ASSUME NEW j \in 1..(Len(Line') + 1), NEW n \in Nat,
                    n > c.sequence, log[c.session][n] = t, After(j, c.session, n)'
             PROVE  Shown(0, j, c.session, n)'
  BY <1>1 DEF Tells
<1>2. j + 1 \in 1..(Len(Line) + 1) /\ After(j + 1, c.session, n)
  BY <1>1 DEF After
<1>3. PICK m \in 1..j :
        Line[m].kind # "record" \/ (Line[m].session = c.session /\ Line[m].sequence = n)
  BY <1>1, <1>2 DEF Tells, Shown
<1>4. m # 1
  BY <1>3 DEF Real
<1>5. m - 1 \in 1..(j - 1) /\ Line'[m - 1] = Line[m]
  BY <1>1, <1>3, <1>4
<1> QED
  BY <1>3, <1>5 DEF Shown

LEMMA LineTypeNext ==
  ASSUME TypeOK'
  PROVE  /\ Line' \in Seq(Chunk) /\ Len(Line') = Len(taken') + Len(buf') + Len(pending')
         /\ Len(taken') \in Nat /\ Len(buf') \in Nat /\ Len(pending') \in Nat
         /\ DOMAIN Line' = 1..Len(Line')
         /\ \A i \in DOMAIN Line' :
              Line'[i] = IF i <= Len(taken') THEN taken'[i]
                         ELSE IF i <= Len(taken') + Len(buf') THEN buf'[i - Len(taken')]
                         ELSE pending'[i - (Len(taken') + Len(buf'))]
<1>1. taken' \in Seq(Chunk) /\ buf' \in Seq(Chunk) /\ pending' \in Seq(Chunk)
  BY DEF TypeOK
<1>2. Line' \in Seq(Chunk) /\ DOMAIN Line' = 1..Len(Line')
  BY <1>1, Row DEF Line
<1> QED
  BY <1>1, <1>2, Row DEF Line

LEMMA SameLine ==
  ASSUME NEW s \in Seq(Chunk), NEW u \in Seq(Chunk), Len(s) = Len(u),
         \A i \in 1..Len(s) : s[i] = u[i]
  PROVE  s = u
OBVIOUS

LEMMA InitLInv == Init => LInv
<1> SUFFICES ASSUME Init PROVE LInv
  OBVIOUS
<1>1. Line = <<>>
  <2>1. taken = <<>> /\ buf = <<>> /\ pending = <<>> /\ <<>> \in Seq(Chunk) /\ Len(<<>>) = 0
    BY DEF Init
  <2>2. Line \in Seq(Chunk) /\ Len(Line) = 0
    BY <2>1, Row DEF Line
  <2> QED
    BY <2>2
<1>2. \A t \in Topics : received[t] = <<>>
  BY DEF Init
<1> QED
  BY <1>1, <1>2 DEF LInv, LineTells, LastTells, Stamped, LossAnnounced

-----------------------------------------------------------------------------
(* The steps. *)

\* The Agent changes nothing that was recorded.
LEMMA AgentTells == IInv /\ LInv /\ (AgentRecords \/ AgentRestarts) => LInv'
<1> SUFFICES ASSUME IInv, LInv, AgentRecords \/ AgentRestarts PROVE LInv'
  OBVIOUS
<1>1. /\ TypeOK /\ CursorReal /\ Flight
      /\ UNCHANGED <<cursor, session, pending, buf, dropped, taken, received>>
  BY DEF IInv, AgentRecords, AgentRestarts, poll, queue, worker
<1>2. Line' = Line
  BY <1>1 DEF Line
<1> DEFINE Grown(s) == /\ s \in 1..Len(log') /\ log[s] \in Seq(Topics)
                       /\ Len(log'[s]) \in Nat /\ Len(log'[s]) >= Len(log[s])
                       /\ \A n \in 1..Len(log[s]) : log'[s][n] = log[s][n]
<1>3. ASSUME NEW s \in 1..Len(log) PROVE Grown(s)
  <2>1. log \in Seq(Seq(Topics)) /\ Len(log) \in Nat /\ log[s] \in Seq(Topics)
    BY <1>1, <1>3 DEF TypeOK
  <2>2. ASSUME NEW channel \in Topics, log' = [log EXCEPT ![Now] = Append(@, channel)]
        PROVE  Grown(s)
    <3>1. Now \in 1..Len(log) /\ log[Now] \in Seq(Topics)
      BY <1>1, <2>1 DEF Now, TypeOK
    <3>2. /\ Append(log[Now], channel) \in Seq(Topics)
          /\ Len(Append(log[Now], channel)) = Len(log[Now]) + 1
          /\ \A n \in 1..Len(log[Now]) : Append(log[Now], channel)[n] = log[Now][n]
      BY <3>1
    <3>3. Len(log') = Len(log) /\ log'[s] = IF s = Now THEN Append(log[Now], channel) ELSE log[s]
      BY <2>1, <2>2, <3>1
    <3> QED
      BY <2>1, <3>1, <3>2, <3>3
  <2>3. CASE log' = Append(log, <<>>)
    <3>1. Len(log') = Len(log) + 1 /\ log'[s] = log[s]
      BY <2>1, <2>3
    <3> QED
      BY <2>1, <3>1
  <2> QED
    BY <2>2, <2>3 DEF AgentRecords, AgentRestarts
<1>4. ASSUME NEW c \in Chunk, Real(c) PROVE Real(c)'
  BY <1>3, <1>4 DEF Real
<1>5. \A i \in DOMAIN Line : Line[i] \in Chunk /\ Real(Line[i])
  BY <1>1, LineAsked DEF LInv
<1>6. ASSUME NEW c \in Chunk, c.kind = "record", Real(c), NEW i \in Nat, NEW t, Tells(c, i, t)
      PROVE  Tells(c, i, t)'
  <2> SUFFICES ASSUME NEW j \in (i + 1)..(Len(Line) + 1), NEW n \in Nat,
                      n > c.sequence, log'[c.session][n] = t, After(j, c.session, n)
               PROVE  Shown(i, j, c.session, n)
    BY <1>1, <1>2 DEF Tells, After, Shown
  <2>0. c.session \in 1..Len(log) /\ c.sequence \in 1..Len(log[c.session])
    BY <1>6 DEF Real
  <2>1. c.session \in 1..Len(log) /\ c.sequence \in Nat /\ c.sequence >= 1
        /\ Len(log[c.session]) \in Nat /\ Len(Line) \in Nat
    <3>1. log[c.session] \in Seq(Topics)
      BY <1>3, <2>0
    <3>2. Len(Line) \in Nat
      BY <1>1, LineType
    <3> QED
      BY <2>0, <3>1, <3>2
  <2>2. n <= Len(log[c.session])
    <3>1. CASE j > Len(Line)
      <4>1. c.session = session /\ n <= cursor
        BY <3>1 DEF After
      <4>2. cursor \in Nat /\ cursor <= Len(log[session])
        BY <1>1, <2>1, <4>1 DEF CursorReal, TypeOK
      <4> QED
        BY <2>1, <4>1, <4>2
    <3>2. CASE j <= Len(Line)
      <4>1. j \in DOMAIN Line
        BY <1>1, <2>1, <3>2, LineType
      <4>2. Line[j].kind = "record" /\ Line[j].session = c.session /\ n < Line[j].sequence
        BY <2>1, <3>2 DEF After
      <4>3. Line[j].sequence \in 1..Len(log[c.session])
        BY <1>5, <4>1, <4>2 DEF Real
      <4> QED
        BY <2>1, <4>2, <4>3
    <3> QED
      BY <2>1, <3>1, <3>2
  <2>3. log[c.session][n] = t
    BY <1>3, <2>1, <2>2
  <2> QED
    BY <1>6, <2>3 DEF Tells
<1>7. ASSUME NEW t \in Topics
      PROVE  /\ received[t] \in Seq(Message) /\ Len(received[t]) \in Nat
             /\ \A i \in DOMAIN received[t] :
                  received[t][i].chunk \in Chunk /\ Real(received[t][i].chunk)
  <2>1. received[t] \in Seq(Message)
    BY <1>1 DEF TypeOK
  <2>2. \A i \in DOMAIN received[t] : received[t][i] \in Message
    BY <2>1
  <2> QED
    BY <2>1, <2>2 DEF LInv, Stamped, Message
<1>8. ASSUME NEW t \in Topics PROVE (LineTells(t) /\ LastTells(t) /\ Stamped(t))'
  <2>1. Stamped(t)'
    BY <1>1, <1>4, <1>7 DEF LInv, Stamped
  <2>2. LineTells(t)'
    <3> SUFFICES ASSUME NEW c \in Chunk, NEW i \in DOMAIN Line, c = Line[i], c.kind = "record"
                 PROVE  \/ Tells(c, i, t)'
                        \/ i <= Len(taken) /\ dropped > Before(t, Len(received[t]))
      BY <1>1, <1>2 DEF LineTells, Before
    <3>1. i \in Nat /\ Real(c)
      BY <1>1, <1>5, LineType
    <3>2. Tells(c, i, t) => Tells(c, i, t)'
      BY <1>6, <3>1
    <3> QED
      BY <3>2 DEF LInv, LineTells
  <2>3. LastTells(t)'
    <3> SUFFICES ASSUME NEW c \in Chunk, received[t] # <<>>,
                        c = received[t][Len(received[t])].chunk, c.kind = "record"
                 PROVE  Tells(c, 0, t)' \/ dropped > Before(t, Len(received[t]) - 1)
      BY <1>1 DEF LastTells, Before
    <3>1. Len(received[t]) \in DOMAIN received[t]
      BY <1>7
    <3>2. Real(c) /\ 0 \in Nat
      BY <1>7, <3>1
    <3>3. Tells(c, 0, t) => Tells(c, 0, t)'
      BY <1>6, <3>2
    <3> QED
      BY <3>3 DEF LInv, LastTells
  <2> QED
    BY <2>1, <2>2, <2>3
<1>9. LossAnnounced'
  <2> SUFFICES ASSUME NEW t \in Topics, NEW k \in 2..Len(received[t]), Splice(t, k)'
               PROVE  received[t][k].stamp > Before(t, k - 2)
    BY <1>1 DEF LossAnnounced, Before
  <2> DEFINE a == received[t][k - 1].chunk
             b == received[t][k].chunk
  <2>1. k - 1 \in DOMAIN received[t] /\ k \in DOMAIN received[t]
    BY <1>7
  <2>2. a.kind = "record" /\ b.kind = "record" /\ a.session = b.session
    BY <1>1 DEF Splice, IsRecord
  <2>3. PICK n \in (a.sequence + 1)..(b.sequence - 1) : log'[a.session][n] = t
    BY <1>1 DEF Splice
  <2>4. Real(a) /\ Real(b)
    BY <1>7, <2>1
  <2> HIDE DEF a, b
  <2>5. a.session \in 1..Len(log) /\ n \in 1..Len(log[a.session])
    BY <1>3, <2>2, <2>3, <2>4 DEF Real
  <2>6. log[a.session][n] = t
    BY <1>3, <2>3, <2>5
  <2>7. Splice(t, k)
    BY <2>2, <2>3, <2>6 DEF Splice, IsRecord, a, b
  <2> QED
    BY <2>7 DEF LInv, LossAnnounced
<1> QED
  BY <1>1, <1>2, <1>4, <1>5, <1>8, <1>9 DEF LInv

\* An answer continues where the cursor was, or says that it does not.
LEMMA PageTells == IInv /\ LInv /\ PageArrives => LInv'
<1> SUFFICES ASSUME IInv, LInv, PageArrives PROVE LInv'
  OBVIOUS
<1>1. /\ TypeOK /\ CursorReal /\ Flight /\ pending = <<>>
      /\ cursor' = LastAfter /\ session' = Now
      /\ UNCHANGED <<log, buf, dropped, taken, received>>
  BY DEF IInv, PageArrives, CursorAfter, agent, queue, worker
<1>2. PICK gap \in Gaps : pending' = Marked(gap, Page)
  BY DEF PageArrives
<1>3. Known => (gap = (cursor + 1 < Oldest))
  BY <1>2, Zenon DEF Gaps
<1>4. TypeOK'
  BY PageArrivesStep DEF IInv
<1> DEFINE d == IF gap THEN 1 ELSE 0
           l == Len(Line)
           size == Len(Page)
<1>5. /\ Now \in Nat /\ Now > 0 /\ Newest \in Nat /\ FirstAfter \in Nat /\ FirstAfter > 0
      /\ LastAfter \in Nat /\ LastAfter <= Newest /\ session <= Now
      /\ Known => FirstAfter > cursor /\ LastAfter >= cursor
      /\ session \in Nat /\ cursor \in Nat
  BY <1>1, AnswerNumbers DEF TypeOK
<1>6. /\ Page \in Seq(Chunk) /\ size \in Nat /\ DOMAIN Page = 1..size
      /\ FirstAfter <= LastAfter => size = (LastAfter + 1) - FirstAfter
      /\ \A r \in 1..size :
           /\ Page[r].kind = "record" /\ Page[r].session = Now
           /\ Page[r].sequence = FirstAfter + r - 1 /\ Page[r].sequence <= LastAfter
           /\ Page[r].channel = log[Now][FirstAfter + r - 1]
  <2>1. Page \in Seq(Chunk) /\ size \in Nat /\ DOMAIN Page = 1..size
    BY <1>1, PageRight
  <2>2. \A r \in 1..size :
          /\ Page[r].kind = "record" /\ Page[r].session = Now
          /\ Page[r].sequence = FirstAfter + r - 1 /\ Page[r].sequence <= LastAfter
    BY <1>1, <2>1, PageRight
  <2>3. Page = [i \in 1..((LastAfter + 1) - FirstAfter) |-> Record(Now, FirstAfter + i - 1)]
    BY DEF Page
  <2>4. FirstAfter <= LastAfter => size = (LastAfter + 1) - FirstAfter
    BY <1>5, <2>3
  <2>5. \A r \in 1..size : Page[r].channel = log[Now][FirstAfter + r - 1]
    BY <2>1, <2>3 DEF Record
  <2> QED
    BY <2>1, <2>2, <2>4, <2>5
<1>7. /\ d \in 0..1 /\ Len(pending') = d + size
      /\ \A r \in 1..size : pending'[d + r] = Page[r]
      /\ gap => pending'[1].kind = "gap" /\ pending'[1].channel = 0
  <2>1. CASE gap
    <3>1. Marker("gap", Now) \in Chunk
      BY <1>5 DEF Marker, Chunk
    <3>2. pending' = <<Marker("gap", Now)>> \o Page
      BY <1>2, <2>1 DEF Marked
    <3>3. /\ Len(pending') = 1 + size /\ pending'[1] = Marker("gap", Now)
          /\ \A r \in 1..size : pending'[1 + r] = Page[r]
      BY <1>6, <3>1, <3>2
    <3> QED
      BY <2>1, <3>3 DEF Marker
  <2>2. CASE ~gap
    BY <1>2, <1>6, <2>2 DEF Marked
  <2> QED
    BY <2>1, <2>2
<1>8. l \in Nat /\ l = Len(taken) + Len(buf) /\ DOMAIN Line = 1..l /\ Line \in Seq(Chunk)
  BY <1>1, LineType
<1> HIDE DEF d, l, size
<1>9. /\ Len(Line') = l + d + size /\ DOMAIN Line' = 1..(l + d + size)
      /\ \A i \in 1..l : Line'[i] = Line[i]
      /\ \A r \in 1..size : Line'[l + d + r] = Page[r]
      /\ gap => Line'[l + 1].kind = "gap" /\ Line'[l + 1].channel = 0
  <2>1. /\ Len(Line') = l + (d + size) /\ DOMAIN Line' = 1..(l + (d + size))
        /\ \A i \in 1..(l + (d + size)) :
             Line'[i] = IF i <= Len(taken) THEN taken[i]
                        ELSE IF i <= l THEN buf[i - Len(taken)] ELSE pending'[i - l]
    <3>1. /\ Len(Line') = Len(taken) + Len(buf) + Len(pending') /\ DOMAIN Line' = 1..Len(Line')
          /\ \A i \in DOMAIN Line' :
               Line'[i] = IF i <= Len(taken) THEN taken[i]
                          ELSE IF i <= Len(taken) + Len(buf) THEN buf[i - Len(taken)]
                          ELSE pending'[i - (Len(taken) + Len(buf))]
      BY <1>1, <1>4, LineTypeNext
    <3>2. Len(Line') = l + (d + size)
      BY <1>7, <1>8, <3>1
    <3> QED
      BY <1>8, <3>1, <3>2
  <2>2. ASSUME NEW i \in 1..l PROVE Line'[i] = Line[i]
    <3>1. Line[i] = IF i <= Len(taken) THEN taken[i] ELSE buf[i - Len(taken)]
      BY <1>1, <1>8, LineType
    <3>2. i \in 1..(l + (d + size)) /\ i <= l
      BY <1>6, <1>7, <1>8
    <3> QED
      BY <2>1, <3>1, <3>2
  <2>3. ASSUME NEW q \in 1..(d + size) PROVE Line'[l + q] = pending'[q]
    <3>1. Len(taken) \in Nat /\ Len(buf) \in Nat /\ d + size \in Nat
      BY <1>1, <1>6, <1>7, LineType
    <3>2. /\ l + q \in 1..(l + (d + size)) /\ ~(l + q <= l) /\ ~(l + q <= Len(taken))
          /\ (l + q) - l = q
      BY <1>8, <3>1
    <3> QED
      BY <2>1, <3>2
  <2>4. ASSUME NEW r \in 1..size PROVE Line'[l + d + r] = Page[r]
    <3>1. d + r \in 1..(d + size) /\ l + (d + r) = l + d + r
      BY <1>6, <1>7, <1>8
    <3> QED
      BY <1>7, <2>3, <3>1
  <2>5. ASSUME gap PROVE Line'[l + 1].kind = "gap" /\ Line'[l + 1].channel = 0
    <3>1. 1 \in 1..(d + size)
      BY <1>6, <2>5 DEF d
    <3> QED
      BY <1>7, <2>3, <2>5, <3>1
  <2>6. l + (d + size) = l + d + size
    BY <1>6, <1>7, <1>8
  <2> QED
    BY <2>1, <2>2, <2>4, <2>5, <2>6
<1>10. ASSUME NEW j \in (l + 1)..(l + d + size)
       PROVE  \/ gap /\ j = l + 1
              \/ \E r \in 1..size : j = l + d + r
  <2>1. CASE gap
    <3>1. d = 1
      BY <2>1 DEF d
    <3>2. j = l + 1 \/ (j - (l + 1) \in 1..size /\ j = l + d + (j - (l + 1)))
      BY <1>6, <1>8, <3>1
    <3> QED
      BY <2>1, <3>2
  <2>2. CASE ~gap
    <3>1. d = 0
      BY <2>2 DEF d
    <3>2. j - l \in 1..size /\ j = l + d + (j - l)
      BY <1>6, <1>8, <3>1
    <3> QED
      BY <3>2
  <2> QED
    BY <2>1, <2>2
<1>11. d \in Nat /\ size \in Nat /\ l \in Nat
  BY <1>6, <1>7, <1>8
<1>12. ASSUME NEW j \in (l + 1)..(l + d + size + 1), NEW s, NEW n \in Nat, After(j, s, n)'
       PROVE  /\ s = Now /\ n <= LastAfter /\ ~(gap /\ j = l + 1)
              /\ j = l + d + size + 1 \/
                 (\E r \in 1..size : j = l + d + r /\ n < FirstAfter + r - 1)
  <2>1. CASE j > Len(Line')
    <3>1. s = Now /\ n <= LastAfter
      BY <1>1, <1>12, <2>1 DEF After
    <3>2. j = l + d + size + 1
      <4>1. Len(Line') = l + d + size
        BY <1>9
      <4> QED
        BY <1>11, <2>1, <4>1
    <3>3. ~(gap /\ j = l + 1)
      <4>1. gap => d = 1
        BY DEF d
      <4> QED
        BY <1>6, <1>8, <3>2, <4>1
    <3> QED
      BY <3>1, <3>2, <3>3
  <2>2. CASE j <= Len(Line')
    <3>1. j \in (l + 1)..(l + d + size)
      BY <1>6, <1>7, <1>8, <1>9, <2>2
    <3>2. Line'[j].kind = "record" /\ Line'[j].session = s /\ n < Line'[j].sequence
      BY <1>12, <1>6, <1>7, <1>8, <1>9, <2>2 DEF After
    <3>3. ~(gap /\ j = l + 1)
      BY <1>9, <3>2
    <3>4. PICK r \in 1..size : j = l + d + r
      BY <1>10, <3>1, <3>3
    <3>5. Line'[j] = Page[r]
      BY <1>9, <3>4
    <3> QED
      BY <1>5, <1>6, <3>2, <3>3, <3>4, <3>5
  <2> QED
    BY <1>6, <1>7, <1>8, <1>9, <2>1, <2>2
\* From an old place nothing is missing behind the old line.
<1>13. ASSUME NEW c \in Chunk, c.kind = "record", Asked(c), NEW i \in 0..l, NEW t, Tells(c, i, t)
       PROVE  Tells(c, i, t)'
  <2>1. ASSUME NEW j \in (l + 1)..(l + d + size + 1), NEW n \in Nat,
               n > c.sequence, log[c.session][n] = t, After(j, c.session, n)'
        PROVE  Shown(i, j, c.session, n)'
    <3>1. /\ c.session = Now /\ n <= LastAfter /\ ~(gap /\ j = l + 1)
          /\ j = l + d + size + 1 \/
             (\E r \in 1..size : j = l + d + r /\ n < FirstAfter + r - 1)
      BY <1>12, <2>1
    <3>2. session = Now /\ Known
      BY <1>5, <1>13, <3>1 DEF Asked, Known
    <3>3. CASE gap
      <4>1. l + 1 \in (i + 1)..(j - 1) /\ Line'[l + 1].kind # "record"
        BY <1>8, <1>9, <3>1, <3>3
      <4> QED
        BY <4>1 DEF Shown
    <3>4. CASE ~gap
      <4>1. d = 0 /\ ~(cursor + 1 < Oldest)
        BY <1>3, <3>2, <3>4, Zenon DEF d
      <4>2. FirstAfter = cursor + 1
        <5>1. Oldest \in Nat
          BY <1>1, <1>5, CacheAssumption DEF Oldest
        <5> QED
          BY <1>5, <3>2, <4>1, <5>1 DEF FirstAfter
      <4>3. CASE n <= cursor
        <5>1. After(l + 1, c.session, n)
          BY <1>8, <3>1, <3>2, <4>3 DEF After, l
        <5>2. l + 1 \in (i + 1)..(Len(Line) + 1)
          BY <1>8 DEF l
        <5>3. PICK m \in (i + 1)..l :
                Line[m].kind # "record" \/ (Line[m].session = c.session /\ Line[m].sequence = n)
          BY <1>8, <1>13, <2>1, <5>1, <5>2 DEF Tells, Shown
        <5>4. m \in (i + 1)..(j - 1) /\ Line'[m] = Line[m]
          BY <1>8, <1>9
        <5> QED
          BY <5>3, <5>4 DEF Shown
      <4>4. CASE n > cursor
        <5> DEFINE r == n - cursor
        <5>1. r \in 1..size /\ FirstAfter + r - 1 = n
          BY <1>5, <1>6, <3>1, <4>2, <4>4
        <5>2. Line'[l + r].session = Now /\ Line'[l + r].sequence = n
          BY <1>6, <1>8, <1>9, <4>1, <5>1
        <5>3. l + r < j
          BY <1>6, <1>8, <3>1, <4>1, <4>2, <5>1, <1>5
        <5>4. l + r \in (i + 1)..(j - 1)
          BY <1>8, <5>1, <5>3
        <5> QED
          BY <3>1, <5>2, <5>4 DEF Shown
      <4> QED
        BY <1>5, <4>3, <4>4
    <3> QED
      BY <3>3, <3>4
  <2>2. /\ Len(Line') \in Nat /\ Len(Line') >= Len(Line)
        /\ \A m \in 1..Len(Line) : Line'[m] = Line[m]
        /\ Len(Line') + 1 = l + d + size + 1 /\ Len(Line) = l
    BY <1>6, <1>7, <1>8, <1>9 DEF l
  <2> QED
    BY <1>1, <1>13, <2>1, <2>2, TellsMore
\* Nor is anything in the page.
<1>14. ASSUME NEW p \in 1..size, NEW i, i = l + d + p, NEW t, NEW c, c = Page[p]
       PROVE  Tells(c, i, t)'
  <2> SUFFICES ASSUME NEW j \in (i + 1)..(l + d + size + 1), NEW n \in Nat,
                      n > c.sequence, After(j, c.session, n)'
               PROVE  Shown(i, j, c.session, n)'
    BY <1>9 DEF Tells
  <2>0. j \in (l + 1)..(l + d + size + 1)
    BY <1>6, <1>7, <1>8, <1>14
  <2>1. /\ c.session = Now /\ n <= LastAfter /\ n > FirstAfter + p - 1
        /\ j = l + d + size + 1 \/
           (\E r \in 1..size : j = l + d + r /\ n < FirstAfter + r - 1)
    BY <1>6, <1>12, <1>14, <2>0
  <2> DEFINE r == (n + 1) - FirstAfter
  <2>2. r \in (p + 1)..size /\ FirstAfter + r - 1 = n
    BY <1>5, <1>6, <2>1
  <2>3. Line'[l + d + r].session = Now /\ Line'[l + d + r].sequence = n
    BY <1>6, <1>9, <2>2
  <2>4. l + d + r < j
    BY <1>5, <1>6, <1>7, <1>8, <2>1, <2>2
  <2> HIDE DEF r
  <2>5. l + d + r \in (i + 1)..(j - 1)
    BY <1>11, <1>14, <2>2, <2>4
  <2> QED
    BY <2>1, <2>3, <2>5 DEF Shown
<1>15. \A i \in 1..l : Line[i] \in Chunk /\ Asked(Line[i]) /\ Real(Line[i])
  BY <1>1, <1>8, LineAsked DEF LInv
<1>16. ASSUME NEW i \in DOMAIN Line' PROVE Real(Line[i])'
  <2>1. CASE i <= l
    BY <1>1, <1>8, <1>9, <1>15, <2>1 DEF Real
  <2>2. CASE i > l
    <3>1. i \in (l + 1)..(l + d + size)
      BY <1>6, <1>7, <1>8, <1>9, <2>2
    <3>2. CASE gap /\ i = l + 1
      BY <1>9, <3>2 DEF Real
    <3>3. CASE \E r \in 1..size : i = l + d + r
      <4>1. PICK r \in 1..size : i = l + d + r
        BY <3>3
      <4>2. Line'[i] = Page[r]
        BY <1>9, <4>1
      <4>3. Now \in 1..Len(log) /\ FirstAfter + r - 1 \in 1..Len(log[Now])
        <5>1. Page[r].sequence = FirstAfter + r - 1 /\ Page[r].sequence <= LastAfter
          BY <1>6, <4>1
        <5>2. FirstAfter + r - 1 \in 1..Newest
          BY <1>5, <1>6, <4>1, <5>1
        <5> QED
          BY <1>5, <5>2 DEF Now, Newest
      <4> QED
        BY <1>1, <1>6, <4>2, <4>3 DEF Real
    <3> QED
      BY <1>10, <3>1, <3>2, <3>3
  <2> QED
    BY <1>6, <1>7, <1>8, <1>9, <2>1, <2>2
<1>17. ASSUME NEW t \in Topics PROVE (LineTells(t) /\ LastTells(t) /\ Stamped(t))'
  <2>1. LineTells(t) /\ LastTells(t) /\ Stamped(t) /\ Delivered(t) /\ received[t] \in Seq(Message)
    BY <1>1 DEF LInv, IInv, TypeOK
  <2>2. Stamped(t)'
    BY <1>1, <2>1 DEF Stamped, Real
  <2>3. LineTells(t)'
    <3> SUFFICES ASSUME NEW c \in Chunk, NEW i \in DOMAIN Line', c = Line'[i], c.kind = "record"
                 PROVE  \/ Tells(c, i, t)'
                        \/ i <= Len(taken) /\ dropped > Before(t, Len(received[t]))
      BY <1>1 DEF LineTells, Before
    <3>1. CASE i <= l
      <4>1. i \in 1..l /\ i \in DOMAIN Line /\ i \in 0..l /\ c = Line[i]
        BY <1>8, <1>9, <3>1
      <4>2. Tells(c, i, t) => Tells(c, i, t)'
        BY <1>13, <1>15, <4>1
      <4> QED
        BY <2>1, <4>1, <4>2 DEF LineTells
    <3>2. CASE i > l
      <4>1. i \in (l + 1)..(l + d + size)
        BY <1>6, <1>7, <1>8, <1>9, <3>2
      <4>2. PICK r \in 1..size : i = l + d + r
        BY <1>9, <1>10, <4>1
      <4>3. c = Page[r]
        BY <1>9, <4>2
      <4> QED
        BY <1>14, <4>2, <4>3
    <3> QED
      BY <1>6, <1>7, <1>8, <1>9, <3>1, <3>2
  <2>4. LastTells(t)'
    <3> SUFFICES ASSUME NEW c \in Chunk, received[t] # <<>>,
                        c = received[t][Len(received[t])].chunk, c.kind = "record"
                 PROVE  Tells(c, 0, t)' \/ dropped > Before(t, Len(received[t]) - 1)
      BY <1>1 DEF LastTells, Before
    <3>1. Len(received[t]) \in DOMAIN received[t]
      BY <2>1
    <3>2. Asked(c) /\ 0 \in 0..l
      BY <1>8, <2>1, <3>1 DEF Delivered
    <3>3. Tells(c, 0, t) => Tells(c, 0, t)'
      BY <1>13, <3>2
    <3> QED
      BY <2>1, <3>3 DEF LastTells
  <2> QED
    BY <2>2, <2>3, <2>4
<1> QED
  BY <1>1, <1>16, <1>17 DEF LInv, LossAnnounced, Splice, Before, IsRecord

\* A failed query leaves a marker and the cursor.
LEMMA FailureTells == IInv /\ LInv /\ QueryFails => LInv'
<1> SUFFICES ASSUME IInv, LInv, QueryFails PROVE LInv'
  OBVIOUS
<1>1. /\ TypeOK /\ Flight /\ pending = <<>> /\ pending' = <<Marker("failed", told)>>
      /\ UNCHANGED <<cursor, session, log, buf, dropped, taken, received>>
  BY DEF IInv, QueryFails, agent, queue, worker
<1>2. TypeOK'
  BY QueryFailsStep DEF IInv
<1> DEFINE l == Len(Line)
<1>3. l \in Nat /\ l = Len(taken) + Len(buf) /\ DOMAIN Line = 1..l
  BY <1>1, LineType
<1> HIDE DEF l
<1>4. /\ Len(Line') = l + 1 /\ DOMAIN Line' = 1..(l + 1)
      /\ \A i \in 1..l : Line'[i] = Line[i]
      /\ Line'[l + 1].kind = "failed" /\ Line'[l + 1].channel = 0
  <2>1. /\ Len(Line') = l + 1 /\ DOMAIN Line' = 1..(l + 1)
        /\ \A i \in 1..(l + 1) :
             Line'[i] = IF i <= Len(taken) THEN taken[i]
                        ELSE IF i <= l THEN buf[i - Len(taken)] ELSE pending'[i - l]
    BY <1>1, <1>2, <1>3, LineTypeNext
  <2>2. ASSUME NEW i \in 1..l PROVE Line'[i] = Line[i]
    <3>1. Line[i] = IF i <= Len(taken) THEN taken[i] ELSE buf[i - Len(taken)]
      BY <1>1, <1>3, LineType
    <3>2. i \in 1..(l + 1) /\ i <= l
      BY <1>3
    <3> QED
      BY <2>1, <3>1, <3>2
  <2>3. Line'[l + 1] = pending'[1]
    <3>1. l + 1 \in 1..(l + 1) /\ ~(l + 1 <= l) /\ ~(l + 1 <= Len(taken)) /\ (l + 1) - l = 1
      BY <1>1, <1>3, LineType
    <3> QED
      BY <2>1, <3>1
  <2> QED
    BY <1>1, <2>1, <2>2, <2>3 DEF Marker
<1>5. ASSUME NEW c \in Chunk, NEW i \in 0..l, NEW t, Tells(c, i, t)
      PROVE  Tells(c, i, t)'
  <2>1. ASSUME NEW j \in (l + 1)..(l + 2), NEW n \in Nat, After(j, c.session, n)'
        PROVE  Shown(i, j, c.session, n)'
    <3>1. j = l + 2
      BY <1>3, <1>4, <2>1 DEF After
    <3>2. l + 1 \in (i + 1)..(j - 1)
      BY <1>3, <3>1
    <3> QED
      BY <1>4, <3>2 DEF Shown
  <2>2. /\ Len(Line') \in Nat /\ Len(Line') >= Len(Line)
        /\ \A m \in 1..Len(Line) : Line'[m] = Line[m]
        /\ Len(Line') + 1 = l + 2 /\ Len(Line) = l
    BY <1>3, <1>4 DEF l
  <2> QED
    BY <1>1, <1>5, <2>1, <2>2, TellsMore
<1>6. \A i \in 1..l : Line[i] \in Chunk /\ Real(Line[i])
  BY <1>1, <1>3, LineAsked DEF LInv
<1>7. ASSUME NEW i \in DOMAIN Line' PROVE Real(Line[i])'
  <2>1. CASE i <= l
    BY <1>1, <1>3, <1>4, <1>6, <2>1 DEF Real
  <2>2. CASE i = l + 1
    BY <1>4, <2>2 DEF Real
  <2> QED
    BY <1>3, <1>4, <2>1, <2>2
<1>8. ASSUME NEW t \in Topics PROVE (LineTells(t) /\ LastTells(t) /\ Stamped(t))'
  <2>1. LineTells(t) /\ LastTells(t) /\ Stamped(t) /\ received[t] \in Seq(Message)
    BY <1>1 DEF LInv, TypeOK
  <2>2. Stamped(t)'
    BY <1>1, <2>1 DEF Stamped, Real
  <2>3. LineTells(t)'
    <3> SUFFICES ASSUME NEW c \in Chunk, NEW i \in DOMAIN Line', c = Line'[i], c.kind = "record"
                 PROVE  \/ Tells(c, i, t)'
                        \/ i <= Len(taken) /\ dropped > Before(t, Len(received[t]))
      BY <1>1 DEF LineTells, Before
    <3>1. i \in 0..l /\ i \in DOMAIN Line /\ c = Line[i]
      BY <1>3, <1>4
    <3>2. Tells(c, i, t) => Tells(c, i, t)'
      BY <1>5, <3>1
    <3> QED
      BY <2>1, <3>1, <3>2 DEF LineTells
  <2>4. LastTells(t)'
    <3> SUFFICES ASSUME NEW c \in Chunk, received[t] # <<>>,
                        c = received[t][Len(received[t])].chunk, c.kind = "record"
                 PROVE  Tells(c, 0, t)' \/ dropped > Before(t, Len(received[t]) - 1)
      BY <1>1 DEF LastTells, Before
    <3>1. 0 \in 0..l
      BY <1>3
    <3>2. Tells(c, 0, t) => Tells(c, 0, t)'
      BY <1>5, <3>1
    <3> QED
      BY <2>1, <3>2 DEF LastTells
  <2> QED
    BY <2>2, <2>3, <2>4
<1>9. LossAnnounced'
  BY <1>1 DEF LInv, LossAnnounced, Splice, Before, IsRecord
<1> QED
  BY <1>7, <1>8, <1>9 DEF LInv

\* What a full queue drops, it counts.
LEMMA PushTells == IInv /\ LInv /\ Push => LInv'
<1> SUFFICES ASSUME IInv, LInv, Push PROVE LInv'
  OBVIOUS
<1>1. /\ TypeOK /\ pending # <<>> /\ pending' = Tail(pending) /\ dropped' = Counted
      /\ buf' = Append(IF Len(buf) >= Capacity THEN Tail(buf) ELSE buf, Head(pending))
      /\ UNCHANGED <<cursor, session, log, taken, received>>
  BY DEF IInv, Push, agent, worker
<1>2. TypeOK'
  BY PushStep DEF IInv
<1>3. /\ Head(pending) = pending[1] /\ Tail(pending) \in Seq(Chunk)
      /\ Head(pending) \in Chunk
      /\ Len(Tail(pending)) = Len(pending) - 1
      /\ \A i \in 1..Len(Tail(pending)) : Tail(pending)[i] = pending[i + 1]
  BY <1>1, TailOf DEF TypeOK
<1>4. /\ taken \in Seq(Chunk) /\ buf \in Seq(Chunk) /\ pending \in Seq(Chunk)
      /\ Len(taken) \in Nat /\ Len(buf) \in Nat /\ Len(pending) \in Nat /\ Len(pending) > 0
      /\ dropped \in Nat
  BY <1>1 DEF TypeOK
<1>5. CASE ~(Len(buf) >= Capacity)
  <2>1. buf' = Append(buf, pending[1]) /\ dropped' = dropped
    BY <1>1, <1>3, <1>5 DEF Counted
  <2>2. /\ Len(buf') = Len(buf) + 1
        /\ \A i \in 1..Len(buf) : buf'[i] = buf[i]
        /\ buf'[Len(buf) + 1] = pending[1]
    BY <1>3, <1>4, <2>1
  <2>3. Len(Line') = Len(Line) /\ Line \in Seq(Chunk) /\ Line' \in Seq(Chunk)
    <3>1. Len(Line) = Len(taken) + Len(buf) + Len(pending) /\ Line \in Seq(Chunk)
      BY <1>1, LineType
    <3>2. /\ Len(Line') = Len(taken) + Len(buf') + Len(Tail(pending))
          /\ Line' \in Seq(Chunk)
      BY <1>1, <1>2, LineTypeNext
    <3>3. Len(Line') = Len(taken) + (Len(buf) + 1) + (Len(pending) - 1)
      BY <1>3, <2>2, <3>2
    <3>4. Len(taken) + (Len(buf) + 1) + (Len(pending) - 1)
            = Len(taken) + Len(buf) + Len(pending)
      BY <1>4
    <3> QED
      BY <3>1, <3>2, <3>3, <3>4
  <2>4. ASSUME NEW i \in 1..Len(Line) PROVE Line'[i] = Line[i]
    <3>1. Line[i] = IF i <= Len(taken) THEN taken[i]
                    ELSE IF i <= Len(taken) + Len(buf) THEN buf[i - Len(taken)]
                    ELSE pending[i - (Len(taken) + Len(buf))]
      BY <1>1, LineType
    <3>2. Line'[i] = IF i <= Len(taken) THEN taken[i]
                     ELSE IF i <= Len(taken) + (Len(buf) + 1) THEN buf'[i - Len(taken)]
                     ELSE Tail(pending)[i - (Len(taken) + (Len(buf) + 1))]
      BY <1>1, <1>2, <2>2, <2>3, LineTypeNext
    <3>3. Len(Line) = Len(taken) + Len(buf) + Len(pending)
      BY <1>1, LineType
    <3>4. CASE i <= Len(taken) + Len(buf)
      <4>1. i > Len(taken) => i - Len(taken) \in 1..Len(buf)
        BY <1>4, <3>4
      <4> QED
        BY <1>4, <2>2, <3>1, <3>2, <3>4, <4>1
    <3>5. CASE i = Len(taken) + Len(buf) + 1
      <4>1. /\ i - Len(taken) = Len(buf) + 1 /\ i - (Len(taken) + Len(buf)) = 1
            /\ ~(i <= Len(taken)) /\ ~(i <= Len(taken) + Len(buf))
            /\ i <= Len(taken) + (Len(buf) + 1)
        BY <1>4, <3>5
      <4> QED
        BY <2>2, <3>1, <3>2, <4>1
    <3>6. CASE i > Len(taken) + Len(buf) + 1
      <4> DEFINE q == i - (Len(taken) + (Len(buf) + 1))
      <4>1. /\ q \in 1..Len(Tail(pending)) /\ q + 1 = i - (Len(taken) + Len(buf))
            /\ ~(i <= Len(taken)) /\ ~(i <= Len(taken) + Len(buf))
            /\ ~(i <= Len(taken) + (Len(buf) + 1))
        BY <1>3, <1>4, <3>3, <3>6
      <4>2. Tail(pending)[q] = pending[q + 1]
        BY <1>3, <4>1
      <4> QED
        BY <3>1, <3>2, <4>1, <4>2
    <3> QED
      BY <1>4, <3>4, <3>5, <3>6
  <2>5. Line' = Line
    BY <2>3, <2>4, SameLine
  <2> QED
    BY <1>1, <2>1, <2>5, TellsStays
       DEF LInv, LineTells, LastTells, Stamped, Real, LossAnnounced, Splice, Before, IsRecord
<1>6. CASE Len(buf) >= Capacity
  <2> DEFINE p == Len(taken) + 1
  <2>1. buf # <<>> /\ Len(buf) > 0
    BY <1>4, <1>6
  <2>2. dropped' = dropped + 1
    BY <1>1, <1>6 DEF Counted
  <2>3. /\ Tail(buf) \in Seq(Chunk) /\ Len(Tail(buf)) = Len(buf) - 1
        /\ \A i \in 1..Len(Tail(buf)) : Tail(buf)[i] = buf[i + 1]
    BY <1>4, <2>1, TailOf
  <2>4. buf' = Append(Tail(buf), pending[1])
    BY <1>1, <1>3, <1>6
  <2>5. /\ Len(buf') = Len(buf)
        /\ \A i \in 1..(Len(buf) - 1) : buf'[i] = buf[i + 1]
        /\ buf'[Len(buf)] = pending[1]
    <3>1. /\ Len(buf') = Len(Tail(buf)) + 1
          /\ \A i \in 1..Len(Tail(buf)) : buf'[i] = Tail(buf)[i]
          /\ buf'[Len(Tail(buf)) + 1] = pending[1]
      BY <1>3, <2>3, <2>4
    <3>2. Len(Tail(buf)) + 1 = Len(buf)
      BY <1>4, <2>3
    <3> QED
      BY <2>3, <3>1, <3>2
  <2>6. /\ Len(Line') = Len(Line) - 1 /\ Len(Line) \in Nat /\ p \in 1..Len(Line)
        /\ DOMAIN Line = 1..Len(Line) /\ DOMAIN Line' = 1..Len(Line')
        /\ Len(Line) = Len(taken) + Len(buf) + Len(pending)
    BY <1>1, <1>2, <1>3, <1>4, <2>1, <2>5, LineType, LineTypeNext
  <2>7. ASSUME NEW i \in 1..Len(Line') PROVE Line'[i] = IF i < p THEN Line[i] ELSE Line[i + 1]
    <3>1. \A k \in 1..Len(Line) :
            Line[k] = IF k <= Len(taken) THEN taken[k]
                      ELSE IF k <= Len(taken) + Len(buf) THEN buf[k - Len(taken)]
                      ELSE pending[k - (Len(taken) + Len(buf))]
      BY <1>1, LineType
    <3>2. Line'[i] = IF i <= Len(taken) THEN taken[i]
                     ELSE IF i <= Len(taken) + Len(buf) THEN buf'[i - Len(taken)]
                     ELSE Tail(pending)[i - (Len(taken) + Len(buf))]
      BY <1>1, <1>2, <2>5, <2>6, LineTypeNext
    <3>3. CASE i <= Len(taken)
      BY <1>4, <2>6, <3>1, <3>2, <3>3
    <3>4. CASE i > Len(taken) /\ i < Len(taken) + Len(buf)
      <4>1. /\ i - Len(taken) \in 1..(Len(buf) - 1) /\ (i + 1) - Len(taken) = (i - Len(taken)) + 1
            /\ i + 1 \in 1..Len(Line) /\ ~(i < p) /\ ~(i + 1 <= Len(taken))
            /\ i + 1 <= Len(taken) + Len(buf)
        BY <1>4, <2>6, <3>4
      <4>2. ~(i <= Len(taken)) /\ i <= Len(taken) + Len(buf)
        BY <1>4, <3>4
      <4>3. Line'[i] = buf'[i - Len(taken)]
        BY <3>2, <4>2
      <4>4. Line[i + 1] = buf[(i + 1) - Len(taken)]
        BY <3>1, <4>1
      <4>5. buf'[i - Len(taken)] = buf[(i - Len(taken)) + 1]
        BY <2>5, <4>1
      <4> QED
        BY <4>1, <4>3, <4>4, <4>5
    <3>5. CASE i = Len(taken) + Len(buf)
      <4>1. /\ i - Len(taken) = Len(buf) /\ (i + 1) - (Len(taken) + Len(buf)) = 1
            /\ i + 1 \in 1..Len(Line) /\ ~(i < p) /\ ~(i <= Len(taken)) /\ ~(i + 1 <= Len(taken))
            /\ ~(i + 1 <= Len(taken) + Len(buf))
        BY <1>4, <2>1, <2>6, <3>5
      <4> QED
        BY <1>4, <2>5, <3>1, <3>2, <3>5, <4>1
    <3>6. CASE i > Len(taken) + Len(buf)
      <4> DEFINE q == i - (Len(taken) + Len(buf))
      <4>1. /\ q \in 1..Len(Tail(pending)) /\ q + 1 = (i + 1) - (Len(taken) + Len(buf))
            /\ i + 1 \in 1..Len(Line) /\ ~(i < p) /\ ~(i <= Len(taken)) /\ ~(i + 1 <= Len(taken))
            /\ ~(i <= Len(taken) + Len(buf)) /\ ~(i + 1 <= Len(taken) + Len(buf))
        BY <1>3, <1>4, <2>1, <2>6, <3>6
      <4>2. Tail(pending)[q] = pending[q + 1]
        BY <1>3, <4>1
      <4> QED
        BY <3>1, <3>2, <4>1, <4>2
    <3> QED
      BY <1>4, <2>6, <3>3, <3>4, <3>5, <3>6
  <2> HIDE DEF p
  <2>8. ASSUME NEW i \in 1..Len(Line') PROVE Real(Line[i])'
    <3>1. \E k \in DOMAIN Line : Line'[i] = Line[k]
      BY <2>6, <2>7
    <3> QED
      BY <1>1, <3>1 DEF LInv, Real
  <2>9. ASSUME NEW t \in Topics PROVE (LineTells(t) /\ LastTells(t) /\ Stamped(t))'
    <3>1. /\ LineTells(t) /\ LastTells(t) /\ Stamped(t)
          /\ received[t] \in Seq(Message) /\ Len(received[t]) \in Nat
      BY <1>1 DEF LInv, TypeOK
    <3>2. Stamped(t)'
      <4>1. \A i \in DOMAIN received[t] : received[t][i] \in Message
        BY <3>1
      <4>2. \A i \in DOMAIN received[t] : received[t][i].stamp \in Nat
        BY <4>1 DEF Message
      <4> QED
        <5>1. \A i \in DOMAIN received[t] : received[t][i].stamp <= dropped'
          BY <1>4, <2>2, <3>1, <4>2 DEF Stamped
        <5>2. \A i \in DOMAIN received[t] : Real(received[t][i].chunk)'
          BY <1>1, <3>1 DEF Stamped, Real
        <5> QED
          BY <1>1, <5>1, <5>2 DEF Stamped
    <3>3. /\ dropped' > Before(t, Len(received[t]))
          /\ dropped' > Before(t, Len(received[t]) - 1)
      <4>1. /\ Before(t, Len(received[t])) \in Nat /\ Before(t, Len(received[t])) <= dropped
            /\ Before(t, Len(received[t]) - 1) \in Nat
            /\ Before(t, Len(received[t]) - 1) <= dropped
        BY <1>1, <3>1, CounterHasBeen
      <4> QED
        BY <1>4, <2>2, <4>1
    <3>4. LastTells(t)'
      BY <1>1, <3>3 DEF LastTells, Before, IsRecord
    <3>5. LineTells(t)'
      <4> SUFFICES ASSUME NEW c \in Chunk, NEW i \in 1..Len(Line'), c = Line'[i],
                          c.kind = "record"
                   PROVE  Tells(c, i, t)' \/ i <= Len(taken)
        BY <1>1, <2>6, <3>3 DEF LineTells, Before
      <4>1. CASE i > Len(taken)
        <5>1. /\ i + 1 \in 1..Len(Line) /\ i + 1 >= p /\ ~(i < p) /\ ~(i + 1 <= Len(taken))
              /\ (i + 1) - 1 = i
          BY <1>4, <2>6, <4>1 DEF p
        <5>2. c = Line[i + 1] /\ i + 1 \in DOMAIN Line /\ i + 1 \in Nat
          BY <2>6, <2>7, <5>1
        <5>3. Tells(c, i + 1, t)
          BY <3>1, <5>1, <5>2 DEF LineTells
        <5>4. Tells(c, (i + 1) - 1, t)'
          BY <1>1, <2>6, <2>7, <5>1, <5>2, <5>3, TellsWithout
        <5> QED
          BY <5>1, <5>4
      <4> QED
        BY <1>4, <4>1
    <3> QED
      BY <3>2, <3>4, <3>5
  <2> QED
    BY <1>1, <2>6, <2>8, <2>9 DEF LInv, LossAnnounced, Splice, Before, IsRecord
<1> QED
  BY <1>5, <1>6

LEMMA PopTells == IInv /\ LInv /\ Pop => LInv'
<1> SUFFICES ASSUME IInv, LInv, Pop PROVE LInv'
  OBVIOUS
<1>1. /\ TypeOK /\ taken = <<>> /\ buf # <<>> /\ taken' = <<Head(buf)>> /\ buf' = Tail(buf)
      /\ UNCHANGED <<cursor, session, log, pending, dropped, received>>
  BY DEF IInv, Pop, agent, poll
<1>2. TypeOK'
  BY PopStep DEF IInv
<1>3. /\ buf \in Seq(Chunk) /\ Len(buf) \in Nat /\ Len(buf) > 0 /\ Len(pending) \in Nat
      /\ Len(taken) = 0
      /\ Len(taken') = 1 /\ taken'[1] = buf[1] /\ Len(buf') = Len(buf) - 1
      /\ \A i \in 1..Len(buf') : buf'[i] = buf[i + 1]
  <2>1. buf \in Seq(Chunk) /\ pending \in Seq(Chunk)
    BY <1>1 DEF TypeOK
  <2>2. /\ Head(buf) = buf[1] /\ Tail(buf) \in Seq(Chunk) /\ Len(Tail(buf)) = Len(buf) - 1
        /\ \A i \in DOMAIN Tail(buf) : Tail(buf)[i] = buf[i + 1]
    BY <1>1, <2>1, TailOf
  <2>3. Len(buf) \in Nat /\ Len(buf) > 0
    BY <1>1, <2>1
  <2> QED
    BY <1>1, <2>1, <2>2, <2>3
<1>4. Line' = Line
  <2>1. Len(Line') = Len(Line) /\ Line \in Seq(Chunk) /\ Line' \in Seq(Chunk)
    BY <1>1, <1>2, <1>3, LineType, LineTypeNext
  <2>2. ASSUME NEW i \in 1..Len(Line) PROVE Line'[i] = Line[i]
    <3>1. /\ Len(Line) = Len(buf) + Len(pending)
          /\ Line[i] = IF i <= Len(buf) THEN buf[i] ELSE pending[i - Len(buf)]
      <4>1. /\ Len(Line) = Len(taken) + Len(buf) + Len(pending) /\ i \in DOMAIN Line
            /\ Line[i] = IF i <= Len(taken) THEN taken[i]
                         ELSE IF i <= Len(taken) + Len(buf) THEN buf[i - Len(taken)]
                         ELSE pending[i - (Len(taken) + Len(buf))]
        BY <1>1, LineType
      <4>2. i \in Nat /\ i >= 1 /\ i - Len(taken) = i /\ Len(taken) + Len(buf) = Len(buf)
            /\ ~(i <= Len(taken))
        BY <1>3, <2>1
      <4> QED
        BY <1>3, <4>1, <4>2
    <3>2. Line'[i] = IF i <= 1 THEN taken'[i]
                     ELSE IF i <= 1 + (Len(buf) - 1) THEN buf'[i - 1]
                     ELSE pending[i - (1 + (Len(buf) - 1))]
      BY <1>1, <1>2, <1>3, <2>1, LineTypeNext
    <3>3. 1 + (Len(buf) - 1) = Len(buf) /\ i \in Nat /\ i >= 1
      BY <1>3, <3>1
    <3>4. CASE i = 1
      BY <1>3, <3>1, <3>2, <3>4
    <3>5. CASE i > 1 /\ i <= Len(buf)
      <4>1. i - 1 \in 1..Len(buf') /\ (i - 1) + 1 = i
        BY <1>3, <3>3, <3>5
      <4> QED
        BY <1>3, <3>1, <3>2, <3>3, <3>5, <4>1
    <3>6. CASE i > Len(buf)
      BY <1>3, <3>1, <3>2, <3>3, <3>6
    <3> QED
      BY <1>3, <3>3, <3>4, <3>5, <3>6
  <2> QED
    BY <2>1, <2>2, SameLine
<1>5. \A i \in DOMAIN Line : ~(i <= Len(taken))
  BY <1>1, <1>3, LineType
<1> QED
  BY <1>1, <1>4, <1>5, TellsStays
     DEF LInv, LineTells, LastTells, Stamped, Real, LossAnnounced, Splice, Before, IsRecord

\* The stamp of a chunk tells what was dropped before it.
LEMMA HandOverTells == IInv /\ LInv /\ HandOver => LInv'
<1> SUFFICES ASSUME IInv, LInv, HandOver PROVE LInv'
  OBVIOUS
<1> DEFINE c == taken[1]
           m == [chunk |-> c, stamp |-> dropped]
<1>1. /\ TypeOK /\ taken # <<>> /\ taken' = <<>>
      /\ UNCHANGED <<cursor, session, log, pending, buf, dropped>>
      /\ received' = [t \in Topics |->
           IF t \in TopicsOf(c) THEN Append(received[t], m) ELSE received[t]]
  BY DEF IInv, HandOver, queue, agent, poll
<1>2. TypeOK'
  BY HandOverStep DEF IInv
<1>3. /\ taken \in Seq(Chunk) /\ Len(taken) = 1 /\ Len(buf) \in Nat /\ Len(pending) \in Nat
      /\ c \in Chunk /\ Len(taken') = 0 /\ dropped \in Nat
  <2>1. /\ taken \in Seq(Chunk) /\ Len(taken) <= 1 /\ buf \in Seq(Chunk)
        /\ pending \in Seq(Chunk) /\ dropped \in Nat
    BY <1>1 DEF TypeOK
  <2>2. Len(taken) = 1 /\ c \in Chunk
    <3>1. Len(taken) \in Nat /\ Len(taken) # 0
      BY <1>1, <2>1
    <3>2. Len(taken) = 1
      BY <2>1, <3>1
    <3>3. 1 \in DOMAIN taken
      BY <2>1, <3>2
    <3>4. taken[1] \in Chunk
      BY <2>1, <3>3
    <3> QED
      BY <3>2, <3>4
  <2>3. Len(taken') = 0
    BY <1>1
  <2> QED
    BY <2>1, <2>2, <2>3
<1>4. /\ Len(Line) \in Nat /\ DOMAIN Line = 1..Len(Line) /\ 1 \in DOMAIN Line
      /\ Len(Line') = Len(Line) - 1 /\ DOMAIN Line' = 1..Len(Line') /\ Line[1] = c
      /\ Line \in Seq(Chunk)
  <2>1. /\ Len(Line) = Len(taken) + Len(buf) + Len(pending) /\ Line \in Seq(Chunk)
        /\ DOMAIN Line = 1..Len(Line)
        /\ \A i \in DOMAIN Line : i <= Len(taken) => Line[i] = taken[i]
    BY <1>1, LineType
  <2>2. Len(Line') = Len(taken') + Len(buf) + Len(pending) /\ DOMAIN Line' = 1..Len(Line')
    BY <1>1, <1>2, LineTypeNext
  <2>3. 1 \in 1..Len(Line) /\ 1 <= Len(taken)
    BY <1>3, <2>1
  <2>4. Line[1] = c
    BY <2>1, <2>3
  <2> QED
    BY <1>3, <2>1, <2>2, <2>3, <2>4
<1>5. ASSUME NEW i \in 1..Len(Line') PROVE Line'[i] = Line[i + 1]
  <2>1. Line'[i] = IF i <= 0 THEN taken'[i]
                   ELSE IF i <= 0 + Len(buf) THEN buf[i - 0] ELSE pending[i - (0 + Len(buf))]
    BY <1>1, <1>2, <1>3, <1>4, LineTypeNext
  <2>2. Line[i + 1] = IF i + 1 <= 1 THEN taken[i + 1]
                      ELSE IF i + 1 <= 1 + Len(buf) THEN buf[(i + 1) - 1]
                      ELSE pending[(i + 1) - (1 + Len(buf))]
    <3>1. i + 1 \in DOMAIN Line
      BY <1>4
    <3>2. Line[i + 1] = IF i + 1 <= Len(taken) THEN taken[i + 1]
                        ELSE IF i + 1 <= Len(taken) + Len(buf)
                             THEN buf[(i + 1) - Len(taken)]
                             ELSE pending[(i + 1) - (Len(taken) + Len(buf))]
      BY <1>1, <3>1, LineType
    <3> QED
      BY <1>3, <3>2
  <2>3. /\ ~(i <= 0) /\ ~(i + 1 <= 1) /\ (i <= 0 + Len(buf) <=> i + 1 <= 1 + Len(buf))
        /\ i - 0 = i /\ (i + 1) - 1 = i
        /\ i - (0 + Len(buf)) = i - Len(buf) /\ (i + 1) - (1 + Len(buf)) = i - Len(buf)
    BY <1>3, <1>4
  <2> QED
    BY <2>1, <2>2, <2>3
<1>6. Real(c) /\ m \in Message /\ m.chunk = c /\ m.stamp = dropped
  BY <1>3, <1>4 DEF LInv, Message
<1> HIDE DEF c, m
<1>7. ASSUME NEW i \in 1..Len(Line') PROVE Real(Line[i])'
  <2>1. \E k \in DOMAIN Line : Line'[i] = Line[k]
    BY <1>4, <1>5
  <2> QED
    BY <1>1, <2>1 DEF LInv, Real
<1>8. ASSUME NEW x, NEW i \in Nat, i >= 1, NEW t, Tells(x, i, t) PROVE Tells(x, i - 1, t)'
  <2>1. \A k \in 1..Len(Line') : Line'[k] = IF k < 1 THEN Line[k] ELSE Line[k + 1]
    BY <1>4, <1>5
  <2> QED
    BY <1>1, <1>4, <1>8, <2>1, TellsWithout
<1>9. ASSUME NEW t \in Topics
      PROVE  /\ (LineTells(t) /\ LastTells(t) /\ Stamped(t))'
             /\ \A k \in 2..Len(received'[t]) :
                  Splice(t, k)' => received'[t][k].stamp > Before(t, k - 2)'
  <2>0. PICK k \in Nat : k = Len(received[t])
    BY <1>1 DEF TypeOK
  <2>1. /\ LineTells(t) /\ LastTells(t) /\ Stamped(t) /\ received[t] \in Seq(Message)
        /\ Len(received[t]) = k /\ DOMAIN received[t] = 1..k
    BY <1>1, <2>0 DEF LInv, TypeOK
  <2>2. LineTells(t)'
    <3> SUFFICES ASSUME NEW x \in Chunk, NEW i \in 1..Len(Line'), x = Line'[i],
                        x.kind = "record"
                 PROVE  Tells(x, i, t)'
      BY <1>4 DEF LineTells
    <3>1. /\ i + 1 \in DOMAIN Line /\ i + 1 \in Nat /\ i + 1 >= 1 /\ ~(i + 1 <= Len(taken))
          /\ (i + 1) - 1 = i
      BY <1>3, <1>4
    <3>2. x = Line[i + 1]
      BY <1>5
    <3>3. Tells(x, i + 1, t)
      BY <2>1, <3>1, <3>2 DEF LineTells
    <3>4. Tells(x, (i + 1) - 1, t)'
      BY <1>8, <3>1, <3>3
    <3> QED
      BY <3>1, <3>4
  <2>3. CASE t \in TopicsOf(c)
    <3>1. received'[t] = Append(received[t], m)
      BY <1>1, <2>3
    <3>2. /\ Len(received'[t]) = k + 1 /\ DOMAIN received'[t] = 1..(k + 1)
          /\ \A i \in 1..k : received'[t][i] = received[t][i]
          /\ received'[t][k + 1] = m
      BY <1>6, <2>1, <3>1
    <3>3. \A i \in Int : i <= k => Before(t, i)' = Before(t, i)
      BY <2>1, <3>2 DEF Before
    <3>4. Stamped(t)'
      <4> SUFFICES ASSUME NEW i \in 1..(k + 1)
                   PROVE  Real(received[t][i].chunk)' /\ received'[t][i].stamp <= dropped
        BY <1>1, <3>2 DEF Stamped
      <4>1. CASE i \in 1..k
        BY <1>1, <2>1, <3>2, <4>1 DEF Stamped, Real
      <4>2. CASE i = k + 1
        <5>1. received'[t][i] = m
          BY <3>2, <4>2
        <5>2. m.stamp <= dropped
          BY <1>3, <1>6
        <5> QED
          BY <1>1, <1>6, <5>1, <5>2 DEF Real
      <4> QED
        BY <4>1, <4>2
    <3>5. LastTells(t)'
      <4>1. /\ received'[t][Len(received'[t])].chunk = c /\ Len(received'[t]) - 1 = k
            /\ Before(t, k)' = Before(t, k)
        BY <1>6, <2>1, <3>2, <3>3
      <4> SUFFICES ASSUME NEW x \in Chunk, x = c, x.kind = "record"
                   PROVE  Tells(x, 0, t)' \/ dropped > Before(t, k)
        BY <1>1, <4>1 DEF LastTells, Before
      <4>2. Tells(x, 1, t) \/ dropped > Before(t, k)
        BY <1>4, <2>1 DEF LineTells
      <4>3. 1 - 1 = 0 /\ 1 \in Nat /\ 1 >= 1
        OBVIOUS
      <4>4. Tells(x, 1, t) => Tells(x, 1 - 1, t)'
        BY <1>8, <4>3
      <4> QED
        BY <4>2, <4>3, <4>4
    <3>6. ASSUME NEW n \in 2..(k + 1), Splice(t, n)'
          PROVE  received'[t][n].stamp > Before(t, n - 2)'
      <4>1. CASE n <= k
        <5>1. /\ received'[t][n] = received[t][n] /\ received'[t][n - 1] = received[t][n - 1]
              /\ Before(t, n - 2)' = Before(t, n - 2)
          <6>1. n \in 1..k /\ n - 1 \in 1..k /\ n - 2 \in Int /\ n - 2 <= k
            BY <4>1
          <6> QED
            BY <3>2, <3>3, <6>1
        <5>2. Splice(t, n)
          BY <1>1, <3>6, <5>1 DEF Splice, IsRecord
        <5> QED
          BY <2>1, <4>1, <5>1, <5>2 DEF LInv, LossAnnounced
      <4>2. CASE n = k + 1
        <5> DEFINE a == received[t][k].chunk
        <5>1. /\ k >= 1 /\ received'[t][n] = m /\ received'[t][n - 1] = received[t][k]
              /\ n - 2 = k - 1 /\ k - 1 <= k /\ k - 1 \in Int
          <6>1. /\ k >= 1 /\ n - 1 = k /\ k \in 1..k
                /\ n - 2 = k - 1 /\ k - 1 <= k /\ k - 1 \in Int
            BY <4>2
          <6> QED
            BY <3>2, <4>2, <6>1
        <5>2. received[t][k] \in Message /\ a \in Chunk /\ Real(a)
          <6>1. k \in DOMAIN received[t]
            BY <2>1, <5>1
          <6>2. received[t][k] \in Message
            BY <2>1, <6>1
          <6> QED
            BY <2>1, <6>1, <6>2 DEF Message, Stamped
        <5>3. a.kind = "record" /\ c.kind = "record" /\ a.session = c.session
          BY <1>6, <3>6, <5>1 DEF Splice, IsRecord
        <5>4. PICK r \in (a.sequence + 1)..(c.sequence - 1) : log[a.session][r] = t
          BY <1>1, <1>6, <3>6, <5>1 DEF Splice
        <5> HIDE DEF a
        <5>5. r \in Nat /\ r > a.sequence /\ r < c.sequence
          BY <1>3, <5>2 DEF Chunk
        <5>6. After(1, a.session, r)
          BY <1>4, <5>3, <5>5 DEF After
        <5>7. ~Shown(0, 1, a.session, r)
          BY DEF Shown
        <5>8. ~Tells(a, 0, t)
          BY <1>4, <5>4, <5>5, <5>6, <5>7 DEF Tells
        <5>9. dropped > Before(t, k - 1)
          <6>1. a = received[t][Len(received[t])].chunk /\ received[t] # <<>>
            BY <2>1, <5>1 DEF a
          <6>2. Tells(a, 0, t) \/ dropped > Before(t, Len(received[t]) - 1)
            BY <2>1, <5>2, <5>3, <6>1 DEF LastTells
          <6> QED
            BY <2>1, <5>8, <6>2
        <5> QED
          BY <1>6, <3>3, <5>1, <5>9
      <4> QED
        BY <2>1, <4>1, <4>2
    <3> QED
      BY <2>2, <3>2, <3>4, <3>5, <3>6
  <2>4. CASE t \notin TopicsOf(c)
    <3>1. received'[t] = received[t]
      BY <1>1, <2>4
    <3>2. c.kind = "record" /\ c.channel # t
      BY <1>6, <2>4 DEF Real, TopicsOf
    <3>3. Stamped(t)'
      <4>1. \A i \in DOMAIN received[t] :
              Real(received[t][i].chunk) /\ received[t][i].stamp <= dropped
        BY <2>1 DEF Stamped
      <4> QED
        <5>1. \A i \in DOMAIN received[t] : Real(received[t][i].chunk)'
          BY <1>1, <3>1, <4>1 DEF Real
        <5> QED
          BY <1>1, <3>1, <4>1, <5>1 DEF Stamped
    <3>4. ASSUME NEW x, Tells(x, 0, t) PROVE Tells(x, 0, t)'
      BY <1>1, <1>4, <1>5, <1>6, <3>2, <3>4, TellsPast
    <3>5. LastTells(t)'
      BY <1>1, <2>1, <3>1, <3>4 DEF LastTells, Before, IsRecord
    <3>6. ASSUME NEW n \in 2..k, Splice(t, n)'
          PROVE  received'[t][n].stamp > Before(t, n - 2)'
      <4>1. Splice(t, n) /\ Before(t, n - 2)' = Before(t, n - 2)
        BY <1>1, <3>1, <3>6 DEF Splice, IsRecord, Before
      <4> QED
        BY <2>1, <3>1, <4>1 DEF LInv, LossAnnounced
    <3> QED
      BY <2>1, <2>2, <3>1, <3>3, <3>5, <3>6
  <2> QED
    BY <2>3, <2>4
<1> QED
  BY <1>4, <1>7, <1>9 DEF LInv, LossAnnounced

LEMMA NextLInv == IInv /\ LInv /\ [Next]_vars => LInv'
<1> SUFFICES ASSUME IInv, LInv, [Next]_vars PROVE LInv'
  OBVIOUS
<1>1. CASE UNCHANGED vars
  <2>1. /\ Line' = Line
        /\ UNCHANGED <<log, cursor, session, taken, received, dropped>>
    BY <1>1 DEF vars, agent, poll, queue, worker, Line
  <2> QED
    BY <2>1, TellsStays
       DEF LInv, LineTells, LastTells, Stamped, Real, LossAnnounced, Splice, Before, IsRecord
<1> QED
  BY <1>1, AgentTells, PageTells, FailureTells, PushTells, PopTells, HandOverTells DEF Next

LEMMA LossInvariance == Spec => []LInv
BY InitLInv, NextLInv, Invariance, PTL DEF Spec

-----------------------------------------------------------------------------
(* The theorems. *)

\* The state of the Agent, the poll, the queue and the topics has its types; in
\* particular the cursor never names a session the Agent has not had.
THEOREM TypeCorrect == Spec => []TypeOK
<1>1. IInv => TypeOK
  BY DEF IInv
<1> QED
  BY <1>1, Invariance, PTL

\* Each topic carries the records of its channel in order and none twice, for
\* every number of failures and restarts.
THEOREM RecordsInOrder == Spec => []InOrderOnce
<1>1. IInv => InOrderOnce
  <2> SUFFICES ASSUME IInv, NEW t \in Topics,
                      NEW i \in DOMAIN received[t], NEW j \in DOMAIN received[t],
                      i < j, IsRecord(received[t][i]), IsRecord(received[t][j])
               PROVE  /\ received[t][i].chunk.channel = t /\ received[t][j].chunk.channel = t
                      /\ \/ received[t][i].chunk.session < received[t][j].chunk.session
                         \/ /\ received[t][i].chunk.session = received[t][j].chunk.session
                            /\ received[t][i].chunk.sequence < received[t][j].chunk.sequence
    BY DEF InOrderOnce
  <2>1. Delivered(t)
    BY DEF IInv
  <2>2. Less(received[t][i].chunk, received[t][j].chunk)
    BY <2>1 DEF Delivered
  <2> QED
    BY <2>1, <2>2 DEF Delivered, Less, IsRecord
<1> QED
  BY <1>1, Invariance, PTL

\* Where a topic joins two records that do not belong together the drop counter has
\* risen since the message before the first of them: for every capacity, cache and
\* page, and whatever the Agent forgets.
THEOREM LossShows == Spec => []LossAnnounced
<1>1. LInv => LossAnnounced
  BY DEF LInv
<1> QED
  BY <1>1, LossInvariance, PTL
=============================================================================
