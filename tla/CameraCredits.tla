--------------------------- MODULE CameraCredits ---------------------------
(***************************************************************************)
(* The camera sets on the sensor thread: handleVideoChunk, handleVideoMeta, *)
(* consumeCameraResult and publishCameraFrame of the driver, the reading of *)
(* frames in run() with its catch, and acknowledgeVideo (sdk_transport.hpp). *)
(* The device sends a set only while fewer than Credits sets are not yet    *)
(* acknowledged, so a credit that is never returned slows it down for good, *)
(* and one that is returned twice lets it run ahead.                        *)
(*                                                                         *)
(* Outside src/ are the device; the link, which may lose any part of a set  *)
(* and deliver the others in any order; and the SDK's assembler, which      *)
(* retires a set when it is complete, or gives it up, when a later set       *)
(* arrives or with time, whatever it has of it.  A set has an image of each *)
(* camera and the metadata, with a trigger time or without a valid one.  On *)
(* the RK the Agent acknowledges the sets, and acknowledgeVideo does        *)
(* nothing.                                                                 *)
(*                                                                         *)
(* What becomes of a set behind camera_dispatch is in Publication; pushing  *)
(* never blocks.                                                            *)
(***************************************************************************)
EXTENDS Naturals, FiniteSets

CONSTANTS Imagers,   \* the cameras of a set
          Credits,   \* sets the device sends ahead
          MaxSets,   \* bound on the sets the device sends
          MaxFaults  \* bound on the acknowledgements that fail

\* The metadata of a set, with a trigger time and without.
Metadata == {"timed", "untimed"}

ASSUME ImagersAssumption == Imagers # {} /\ Imagers \cap Metadata = {}
ASSUME CreditsAssumption == Credits \in Nat \ {0}
ASSUME BoundsAssumption == MaxSets \in Nat /\ MaxFaults \in Nat

Ids == 1..MaxSets
Parts == Imagers \cup Metadata
Complete(has) == Imagers \subseteq has /\ has \cap Metadata # {}

VARIABLES
  local,        \* the adapter runs on the RK
  enabled,      \* config.enable_camera
  required,     \* config.require_synchronized_timestamps
  outstanding,  \* the device: the sets it has sent that are not acknowledged
  last,         \* the device: the set it sent last
  wire,         \* the parts on their way, as <<set, part>>
  parts,        \* the assembler: what it has of each set
  retired,      \* the assembler: the sets it is done with
  result,       \* what is left to do for an answer of the assembler
  over,         \* the session has ended with an error
  credits,      \* history: acknowledgements of each set
  pushed,       \* history: the sets pushed to camera_dispatch
  swallowed,    \* history: a failed acknowledgement was taken for an idle read
  faults        \* history: the acknowledgements that failed

config == <<local, enabled, required>>
device == <<outstanding, last, wire>>
assembler == <<parts, retired>>
history == <<credits, pushed, swallowed, faults>>
vars == <<config, device, assembler, result, over, history>>

HasImages(id) == parts[id] \cap Imagers # {}

\* An answer: the sets given up, those of them that have images, the sets
\* completed (at most one), and where the assembler was asked.
Answer(discarded, completed, source) ==
  [discarded |-> discarded,
   partial |-> {id \in discarded : HasImages(id)},
   completed |-> completed, source |-> source]
Done == [discarded |-> {}, partial |-> {}, completed |-> {}, source |-> "none"]

TypeOK ==
  /\ local \in BOOLEAN /\ enabled \in BOOLEAN /\ required \in BOOLEAN
  /\ outstanding \subseteq Ids /\ last \in 0..MaxSets
  /\ wire \subseteq Ids \X Parts
  /\ parts \in [Ids -> SUBSET Parts] /\ retired \subseteq Ids
  /\ result \in [discarded : SUBSET Ids, partial : SUBSET Ids, completed : SUBSET Ids,
                 source : {"frame", "expire", "none"}]
  /\ over \in BOOLEAN
  /\ credits \in [Ids -> Nat] /\ pushed \subseteq Ids
  /\ swallowed \in BOOLEAN /\ faults \in 0..MaxFaults

Init ==
  /\ local \in BOOLEAN /\ enabled \in BOOLEAN /\ required \in BOOLEAN
  /\ outstanding = {} /\ last = 0 /\ wire = {}
  /\ parts = [id \in Ids |-> {}] /\ retired = {}
  /\ result = Done
  /\ over = FALSE
  /\ credits = [id \in Ids |-> 0] /\ pushed = {}
  /\ swallowed = FALSE /\ faults = 0

Idle == result = Done /\ ~over

-----------------------------------------------------------------------------
(* The device and, on the RK, the Agent. *)

\* A set is sent; any part of it may get lost.
SendSet ==
  /\ last < MaxSets /\ Cardinality(outstanding) < Credits
  /\ last' = last + 1
  /\ outstanding' = outstanding \cup {last + 1}
  /\ \E arriving \in SUBSET Parts :
       /\ ~(Metadata \subseteq arriving)
       /\ wire' = wire \cup ({last + 1} \X arriving)
  /\ UNCHANGED <<config, assembler, result, over, history>>

Credit(id) ==
  /\ credits' = [credits EXCEPT ![id] = @ + 1]
  /\ outstanding' = outstanding \ {id}

AgentAcknowledges ==
  /\ local
  /\ \E id \in outstanding : Credit(id)
  /\ UNCHANGED <<config, last, wire, assembler, result, over, pushed, swallowed, faults>>

-----------------------------------------------------------------------------
(* The sensor thread.  What the assembler gives up is its own affair.        *)

\* The sets it knows of: all up to the newest it has seen a part of.
Seen == {id \in Ids : \E later \in Ids : later >= id /\ parts[later] # {}}
Open == Seen \ retired

Older(id) == 1..(id - 1)

Having(id, part) == [parts EXCEPT ![id] = @ \cup {part}]

\* A set that a part completes.
Completed(id, part) == IF Complete(Having(id, part)[id]) THEN {id} ELSE {}

\* The assembler takes a part: it may give up sets and complete one.
Takes(id, part, discarded) ==
  /\ parts' = Having(id, part)
  /\ result' = Answer(discarded, Completed(id, part), "frame")
  /\ retired' = retired \cup discarded \cup Completed(id, part)

\* handleVideoChunk, for the last chunk of an image: older sets may be given up.
VideoChunk ==
  /\ Idle
  /\ \E message \in wire :
       /\ message[2] \in Imagers
       /\ wire' = wire \ {message}
       /\ IF message[1] \in retired THEN UNCHANGED <<assembler, result>>
          ELSE \E discarded \in SUBSET (Older(message[1]) \ retired) :
                 Takes(message[1], message[2], discarded)
  /\ UNCHANGED <<config, outstanding, last, over, history>>

\* handleVideoMeta: addMetadata may complete a set.
VideoMeta ==
  /\ Idle
  /\ \E message \in wire :
       /\ message[2] \in Metadata
       /\ wire' = wire \ {message}
       /\ IF message[1] \in retired THEN UNCHANGED <<assembler, result>>
          ELSE Takes(message[1], message[2], {})
  /\ UNCHANGED <<config, outstanding, last, over, history>>

\* expire, once per turn of the loop of run().
Expire(discarded) ==
  /\ Idle /\ discarded # {}
  /\ result' = Answer(discarded, {}, "expire")
  /\ retired' = retired \cup discarded
  /\ UNCHANGED <<config, device, parts, over, history>>

\* The sets to be acknowledged next: those given up, in any order, and after
\* the partial ones are published the completed one.
Acknowledging ==
  IF over THEN {}
  ELSE IF result.discarded # {} THEN result.discarded
  ELSE IF result.partial # {} THEN {} ELSE result.completed

\* acknowledgeVideo (mutated form: it does not ask where it runs).
CallsAnywhere == TRUE
Calls == ~local

\* publishCameraFrame: nothing without the camera configured, and a set whose
\* metadata has not come or has no time is dropped when it must have one (mutated
\* form: it is only when the metadata has not come).
PublishableWithMetadata(id) == enabled /\ (~required \/ parts[id] \cap Metadata # {})
Publishable(id) == enabled /\ (~required \/ "timed" \in parts[id])
Publish(sets) == pushed' = pushed \cup {id \in sets : Publishable(id)}

\* A set is acknowledged; a completed one is published at once.
AfterCredit(id) ==
  \/ /\ id \in result.discarded
     /\ result' = [result EXCEPT !.discarded = @ \ {id}]
     /\ UNCHANGED pushed
  \/ /\ id \notin result.discarded
     /\ result' = Done
     /\ Publish({id})

\* Mutated form: only sets with a part in them are acknowledged.
AcknowledgeSeen ==
  /\ \E id \in Acknowledging :
       /\ IF Calls /\ parts[id] # {} THEN Credit(id) ELSE UNCHANGED <<credits, outstanding>>
       /\ AfterCredit(id)
  /\ UNCHANGED <<config, last, wire, assembler, over, swallowed, faults>>

Acknowledge ==
  /\ \E id \in Acknowledging :
       /\ IF Calls THEN Credit(id) ELSE UNCHANGED <<credits, outstanding>>
       /\ AfterCredit(id)
  /\ UNCHANGED <<config, last, wire, assembler, over, swallowed, faults>>

\* One that fails: run() takes a timeout for an idle read, if a frame was being
\* handled, and goes on without the rest of the answer.
AcknowledgeFails ==
  /\ Calls /\ Acknowledging # {} /\ faults < MaxFaults
  /\ faults' = faults + 1
  /\ \/ /\ result.source = "frame"
        /\ result' = Done
        /\ swallowed' = TRUE
        /\ UNCHANGED over
     \/ /\ over' = TRUE
        /\ UNCHANGED <<result, swallowed>>
  /\ UNCHANGED <<config, device, assembler, credits, pushed>>

\* The sets given up that have images are published with what they have.
PublishPartial ==
  /\ ~over /\ result.discarded = {} /\ result.partial # {}
  /\ result' = [result EXCEPT !.partial = {}]
  /\ Publish(result.partial)
  /\ UNCHANGED <<config, device, assembler, over, credits, swallowed, faults>>

Finish ==
  /\ ~over /\ result # Done
  /\ result.discarded = {} /\ result.partial = {} /\ result.completed = {}
  /\ result' = Done
  /\ UNCHANGED <<config, device, assembler, over, history>>

Next == \/ SendSet \/ AgentAcknowledges
        \/ VideoChunk \/ VideoMeta \/ (\E discarded \in SUBSET Open : Expire(discarded))
        \/ Acknowledge \/ AcknowledgeFails \/ PublishPartial \/ Finish

\* The loop reads what arrives, looks for sets to give up in every turn, and
\* finishes what it has begun.  Neither the device nor the worker behind
\* camera_dispatch is obliged to do anything.
Fairness ==
  /\ WF_vars(VideoChunk) /\ WF_vars(VideoMeta)
  /\ WF_vars(Acknowledge) /\ WF_vars(PublishPartial) /\ WF_vars(Finish)
  /\ \A id \in Ids :
       WF_vars(\E discarded \in SUBSET Open : id \in discarded /\ Expire(discarded))

Spec == Init /\ [][Next]_vars /\ Fairness

-----------------------------------------------------------------------------
(* Properties. *)

\* driver.cpp:1166: one credit per retired set, including an entirely missing
\* set; on the RK at most the one of the Agent.
OneCreditPerRetiredSet ==
  Idle => \A id \in Ids : credits[id] = IF id \in retired THEN 1 ELSE 0
OneCredit ==
  IF local THEN \A id \in Ids : credits[id] <= 1
  ELSE OneCreditPerRetiredSet

\* It is so as long as no acknowledgement fails.
OneCreditIfAcksWork == faults = 0 => OneCredit

\* What has come of a set is published, complete or not, once the set is retired
\* and not while more of it may come; and where the samples must be synchronised, no
\* set goes out of which no trigger time has come.
MayGoOut(id) == enabled /\ HasImages(id) /\ (required => "timed" \in parts[id])
ImagesPublished ==
  (Idle /\ ~swallowed) =>
    pushed = {id \in retired : MayGoOut(id)}

\* The device gets back the credit of every set the adapter has heard of, also
\* when nobody takes sets from camera_dispatch.
CreditsComeBack ==
  \A id \in Ids : id \in Open ~> id \notin outstanding \/ local \/ swallowed \/ over
=============================================================================
