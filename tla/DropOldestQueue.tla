-------------------------- MODULE DropOldestQueue --------------------------
(***************************************************************************)
(* What one dispatch queue promises the sensor thread that feeds it, with   *)
(* no thread, lock or condition variable: a bounded buffer that never       *)
(* blocks its producer, gives up the OLDEST item when it is full, hands the *)
(* rest to one handler at a time in the order they were accepted, and is    *)
(* silent once it is closed.  Items are numbered in order of acceptance.    *)
(***************************************************************************)
EXTENDS Naturals, Sequences

CONSTANTS Capacity,    \* the largest number of waiting items
          MaxPushes    \* bound on the number of items ever accepted

VARIABLES phase,       \* "closed", "open" or "closing"
          buf,         \* the waiting items, oldest first
          accepted,    \* the number of the last item accepted
          busy,        \* the handler is running
          handed       \* the number of the last item given to the handler

vars == <<phase, buf, accepted, busy, handed>>

Init == /\ phase = "closed"
        /\ buf = <<>>
        /\ accepted = 0
        /\ busy = FALSE
        /\ handed = 0

Open == /\ phase = "closed"
        /\ phase' = "open"
        /\ UNCHANGED <<buf, accepted, busy, handed>>

\* What the buffer becomes when item n arrives: the newest Capacity items.
Accommodate(b, n) == Append(IF Len(b) >= Capacity THEN Tail(b) ELSE b, n)

Accept == /\ phase = "open"
          /\ accepted < MaxPushes
          /\ accepted' = accepted + 1
          /\ buf' = Accommodate(buf, accepted + 1)
          /\ UNCHANGED <<phase, busy, handed>>

Take == /\ phase # "closed"
        /\ ~busy
        /\ buf # <<>>
        /\ busy' = TRUE
        /\ handed' = Head(buf)
        /\ buf' = Tail(buf)
        /\ UNCHANGED <<phase, accepted>>

Finish == /\ busy
          /\ busy' = FALSE
          /\ UNCHANGED <<phase, buf, accepted, handed>>

Close == /\ phase = "open"
         /\ phase' = "closing"
         /\ UNCHANGED <<buf, accepted, busy, handed>>

Discard == /\ phase = "closing"
           /\ buf' = <<>>
           /\ UNCHANGED <<phase, accepted, busy, handed>>

Closed == /\ phase = "closing"
          /\ buf = <<>>
          /\ ~busy
          /\ phase' = "closed"
          /\ UNCHANGED <<buf, accepted, busy, handed>>

Next == Open \/ Accept \/ Take \/ Finish \/ Close \/ Discard \/ Closed

SafeSpec == Init /\ [][Next]_vars

\* The consumer keeps consuming and a close completes; nobody is obliged to
\* push, open or close.
Spec == /\ SafeSpec
        /\ WF_vars(Take)
        /\ WF_vars(Finish)
        /\ WF_vars(Discard)
        /\ WF_vars(Closed)
=============================================================================
