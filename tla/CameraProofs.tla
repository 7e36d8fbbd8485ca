---------------------------- MODULE CameraProofs ----------------------------
(***************************************************************************)
(* Proofs about the camera's way through the driver and the node:           *)
(* CameraCredits, for any number of cameras, credits, sets and failing      *)
(* acknowledgements, and whatever the assembler gives up; and Publication,   *)
(* which takes over behind camera_dispatch, for any lanes and any limits.   *)
(***************************************************************************)
EXTENDS CameraCredits, Publication, TLAPS

USE CreditsAssumption, ImagersAssumption, BoundsAssumption

-----------------------------------------------------------------------------
(* The inductive invariant. *)

\* What is left of an answer: sets that are retired, each given up or completed
\* and not both, one completed at most.
AnswerRight ==
  /\ result.discarded \cup result.partial \cup result.completed \subseteq retired
  /\ result.completed \cap (result.discarded \cup result.partial) = {}
  /\ \A id \in result.partial : HasImages(id)
  /\ \A id \in result.completed : HasImages(id) /\ result.completed = {id}

\* A retired set that is not in the answer any more has had its credit.
Credited ==
  (~local /\ faults = 0) =>
    \A id \in Ids :
      credits[id] = IF id \in retired \ (result.discarded \cup result.completed)
                    THEN 1 ELSE 0

\* On the RK no set is acknowledged but those outstanding.
CreditedByAgent ==
  local => \A id \in Ids : /\ credits[id] <= 1
                           /\ id \in outstanding \/ id > last => credits[id] = 0
                           /\ id \in outstanding => id <= last

OverFailed == over => faults > 0

Pushed ==
  ~swallowed =>
    pushed = {id \in retired \ (result.partial \cup result.completed) : MayGoOut(id)}

IInv ==
  TypeOK /\ AnswerRight /\ Credited /\ CreditedByAgent /\ OverFailed /\ Pushed

LEMMA InitIInv == Init => IInv
<1> SUFFICES ASSUME Init PROVE IInv
  OBVIOUS
<1>1. result \in [discarded : SUBSET Ids, partial : SUBSET Ids, completed : SUBSET Ids,
                  source : {"frame", "expire", "none"}]
  BY DEF Init, Done
<1>2. wire \subseteq Ids \X Parts /\ parts \in [Ids -> SUBSET Parts]
  BY DEF Init
<1>3. last \in 0..MaxSets /\ faults \in 0..MaxFaults /\ credits \in [Ids -> Nat]
  BY DEF Init
<1>4. TypeOK
  BY <1>1, <1>2, <1>3 DEF Init, TypeOK
<1>5. AnswerRight /\ Pushed
  BY DEF Init, AnswerRight, HasImages, Pushed, Done
<1>6. Credited /\ CreditedByAgent /\ OverFailed
  BY DEF Init, Credited, CreditedByAgent, OverFailed, Ids
<1> QED
  BY <1>4, <1>5, <1>6 DEF IInv

-----------------------------------------------------------------------------
(* The device. *)

LEMMA SendSetStep == IInv /\ SendSet => IInv'
<1> SUFFICES ASSUME IInv, SendSet PROVE IInv'
  OBVIOUS
<1> DEFINE id == last + 1
<1>1. PICK arriving \in SUBSET Parts : wire' = wire \cup ({id} \X arriving)
  BY DEF SendSet
<1>2. /\ last < MaxSets /\ last' = id /\ outstanding' = outstanding \cup {id}
      /\ UNCHANGED <<config, assembler, result, over, history>>
  BY DEF SendSet
<1>3. TypeOK
  BY DEF IInv
<1>4. id \in Ids
  BY <1>2, <1>3 DEF TypeOK, Ids
<1>5. {id} \X arriving \subseteq Ids \X Parts
  BY <1>4
<1>6. TypeOK'
  BY <1>1, <1>2, <1>3, <1>4, <1>5 DEF TypeOK, config, assembler, history, Ids
<1>7. CreditedByAgent'
  BY <1>2, <1>3 DEF IInv, TypeOK, CreditedByAgent, config, history, Ids
<1>8. AnswerRight' /\ Credited' /\ OverFailed' /\ Pushed'
  BY <1>2 DEF IInv, AnswerRight, HasImages, Credited, OverFailed, Pushed, MayGoOut,
              config, assembler,
              history
<1> QED
  BY <1>6, <1>7, <1>8 DEF IInv

LEMMA AgentStep == IInv /\ AgentAcknowledges => IInv'
<1> SUFFICES ASSUME IInv, AgentAcknowledges PROVE IInv'
  OBVIOUS
<1>1. PICK id \in outstanding : Credit(id)
  BY DEF AgentAcknowledges
<1>2. /\ local
      /\ UNCHANGED <<config, last, wire, assembler, result, over, pushed, swallowed, faults>>
  BY DEF AgentAcknowledges
<1>3. TypeOK /\ id \in Ids
  BY DEF IInv, TypeOK
<1>4. TypeOK'
  BY <1>1, <1>2, <1>3 DEF Credit, TypeOK, config, assembler
<1>5. CreditedByAgent'
  BY <1>1, <1>2, <1>3 DEF IInv, TypeOK, Credit, CreditedByAgent, config, Ids
<1>6. AnswerRight' /\ Credited' /\ OverFailed' /\ Pushed'
  BY <1>2 DEF IInv, AnswerRight, HasImages, Credited, OverFailed, Pushed, MayGoOut,
              config, assembler
<1> QED
  BY <1>4, <1>5, <1>6 DEF IInv

-----------------------------------------------------------------------------
(* The assembler's answers. *)

\* An answer to a call: parts of sets not retired may be added, sets not retired
\* are given up, and one with all its parts may be completed.
LEMMA AnswerStep ==
  ASSUME IInv, Idle,
         NEW discarded \in SUBSET Ids, NEW completed \in SUBSET Ids,
         NEW source \in {"frame", "expire"},
         discarded \cap retired = {}, completed \cap retired = {},
         completed \cap discarded = {},
         parts' \in [Ids -> SUBSET Parts],
         \A id \in retired \cup discarded : parts'[id] = parts[id],
         \A id \in completed : parts'[id] \cap Imagers # {} /\ completed = {id},
         result' = Answer(discarded, completed, source),
         retired' = retired \cup discarded \cup completed,
         wire' \subseteq Ids \X Parts,
         UNCHANGED <<config, outstanding, last, over, history>>
  PROVE  IInv'
<1>1. TypeOK /\ result = Done
  BY DEF IInv, Idle
<1>2. /\ result'.discarded = discarded /\ result'.completed = completed
      /\ result'.partial = {id \in discarded : HasImages(id)}
      /\ result'.source = source
  BY DEF Answer
<1>3. result' \in [discarded : SUBSET Ids, partial : SUBSET Ids, completed : SUBSET Ids,
                   source : {"frame", "expire", "none"}]
  BY DEF Answer
<1>4. TypeOK'
  BY <1>1, <1>3 DEF TypeOK, config, history
<1>5. AnswerRight'
  <2>1. /\ \A id \in result'.partial : HasImages(id)'
        /\ \A id \in result'.completed : HasImages(id)' /\ result'.completed = {id}
    BY <1>2 DEF HasImages
  <2> QED
    BY <1>2, <2>1 DEF AnswerRight
<1>6. Credited'
  BY <1>1, <1>2 DEF IInv, Credited, Done, config, history
<1>7. CreditedByAgent' /\ OverFailed'
  BY DEF IInv, CreditedByAgent, OverFailed, config, history
<1>8. Pushed'
  <2> SUFFICES ASSUME ~swallowed'
               PROVE  pushed' = {id \in retired' \ (result'.partial \cup result'.completed) :
                                   MayGoOut(id)'}
    BY DEF Pushed
  <2>1. pushed' = {id \in retired : MayGoOut(id)}
    BY <1>1 DEF IInv, Pushed, Done, history
  <2>2. \A id \in retired : MayGoOut(id)' <=> MayGoOut(id)
    BY DEF MayGoOut, HasImages, config
  <2>3. ASSUME NEW id \in discarded, MayGoOut(id)' PROVE id \in result'.partial
    BY <1>2, <2>3 DEF MayGoOut, HasImages
  <2>4. retired \cap (result'.partial \cup result'.completed) = {}
    BY <1>2
  <2> QED
    BY <1>2, <2>1, <2>2, <2>3, <2>4
<1> QED
  BY <1>4, <1>5, <1>6, <1>7, <1>8 DEF IInv

\* A part of a set that is not retired completes that set or none.
LEMMA CompletedRight ==
  ASSUME TypeOK, NEW id \in Ids, NEW part \in Parts
  PROVE  /\ Having(id, part) \in [Ids -> SUBSET Parts]
         /\ \A other \in Ids \ {id} : Having(id, part)[other] = parts[other]
         /\ Completed(id, part) \subseteq {id}
         /\ \A c \in Completed(id, part) :
              Having(id, part)[c] \cap Imagers # {} /\ Completed(id, part) = {c}
<1>1. /\ Having(id, part) \in [Ids -> SUBSET Parts]
      /\ \A other \in Ids \ {id} : Having(id, part)[other] = parts[other]
  BY DEF TypeOK, Having
<1>2. Complete(Having(id, part)[id]) => Having(id, part)[id] \cap Imagers # {}
  <2> SUFFICES ASSUME Imagers \subseteq Having(id, part)[id]
               PROVE  Having(id, part)[id] \cap Imagers # {}
    BY DEF Complete
  <2>1. PICK camera \in Imagers : TRUE
    OBVIOUS
  <2> QED
    BY <2>1
<1>3. Completed(id, part) = IF Complete(Having(id, part)[id]) THEN {id} ELSE {}
  BY DEF Completed
<1> QED
  BY <1>1, <1>2, <1>3

\* A call that only takes a part of a retired set from the wire.
LEMMA IgnoredStep ==
  ASSUME IInv, wire' \subseteq Ids \X Parts,
         UNCHANGED <<config, outstanding, last, assembler, result, over, history>>
  PROVE  IInv'
BY DEF IInv, TypeOK, AnswerRight, HasImages, Credited, CreditedByAgent, OverFailed,
       Pushed, MayGoOut,
       config, assembler, history

\* The sets before a set.
LEMMA Earlier ==
  ASSUME NEW id \in Ids
  PROVE  \A older \in Older(id) : older \in Ids /\ older # id
BY DEF Ids, Older

\* A part of a set that is not retired is taken.
LEMMA TakesStep ==
  ASSUME IInv, Idle, NEW id \in Ids, id \notin retired, NEW part \in Parts,
         NEW discarded \in SUBSET Ids, id \notin discarded, discarded \cap retired = {},
         Takes(id, part, discarded), wire' \subseteq Ids \X Parts,
         UNCHANGED <<config, outstanding, last, over, history>>
  PROVE  IInv'
<1>1. /\ TypeOK /\ parts' = Having(id, part)
      /\ result' = Answer(discarded, Completed(id, part), "frame")
      /\ retired' = retired \cup discarded \cup Completed(id, part)
  BY DEF IInv, Takes
<1>2. /\ parts' \in [Ids -> SUBSET Parts]
      /\ \A other \in Ids \ {id} : parts'[other] = parts[other]
      /\ Completed(id, part) \subseteq {id}
      /\ \A c \in Completed(id, part) :
           parts'[c] \cap Imagers # {} /\ Completed(id, part) = {c}
  BY <1>1, CompletedRight
<1>3. \A other \in retired \cup discarded : parts'[other] = parts[other]
  BY <1>1, <1>2 DEF TypeOK
<1>4. /\ Completed(id, part) \in SUBSET Ids
      /\ Completed(id, part) \cap retired = {}
      /\ Completed(id, part) \cap discarded = {}
  BY <1>2
<1> QED
  BY <1>1, <1>2, <1>3, <1>4, AnswerStep

LEMMA VideoChunkStep == IInv /\ VideoChunk => IInv'
<1> SUFFICES ASSUME IInv, VideoChunk PROVE IInv'
  OBVIOUS
<1>1. TypeOK /\ Idle /\ UNCHANGED <<config, outstanding, last, over, history>>
  BY DEF IInv, VideoChunk
<1>2. PICK message \in wire :
        /\ message[2] \in Imagers
        /\ wire' = wire \ {message}
        /\ IF message[1] \in retired THEN UNCHANGED <<assembler, result>>
           ELSE \E discarded \in SUBSET (Older(message[1]) \ retired) :
                  Takes(message[1], message[2], discarded)
  BY DEF VideoChunk
<1> DEFINE id == message[1]
           part == message[2]
<1>3. id \in Ids /\ part \in Parts /\ wire' \subseteq Ids \X Parts
  BY <1>1, <1>2 DEF TypeOK
<1>4. CASE id \in retired
  BY <1>1, <1>2, <1>3, <1>4, IgnoredStep
<1>5. CASE id \notin retired
  <2>1. PICK discarded \in SUBSET (Older(id) \ retired) : Takes(id, part, discarded)
    BY <1>2, <1>5
  <2> HIDE DEF id, part
  <2>2. discarded \in SUBSET Ids /\ id \notin discarded /\ discarded \cap retired = {}
    BY <1>3, <2>1, Earlier
  <2> QED
    BY <1>1, <1>3, <1>5, <2>1, <2>2, TakesStep
<1> QED
  BY <1>4, <1>5

LEMMA VideoMetaStep == IInv /\ VideoMeta => IInv'
<1> SUFFICES ASSUME IInv, VideoMeta PROVE IInv'
  OBVIOUS
<1>1. TypeOK /\ Idle /\ UNCHANGED <<config, outstanding, last, over, history>>
  BY DEF IInv, VideoMeta
<1>2. PICK message \in wire :
        /\ message[2] \in Metadata
        /\ wire' = wire \ {message}
        /\ IF message[1] \in retired THEN UNCHANGED <<assembler, result>>
           ELSE Takes(message[1], message[2], {})
  BY DEF VideoMeta
<1> DEFINE id == message[1]
           part == message[2]
<1>3. id \in Ids /\ part \in Parts /\ wire' \subseteq Ids \X Parts
  BY <1>1, <1>2 DEF TypeOK
<1>4. CASE id \in retired
  BY <1>1, <1>2, <1>3, <1>4, IgnoredStep
<1>5. CASE id \notin retired
  <2>1. PICK discarded \in {{}} : Takes(id, part, discarded)
    BY <1>2, <1>5
  <2> HIDE DEF id, part
  <2>2. discarded \in SUBSET Ids /\ id \notin discarded /\ discarded \cap retired = {}
    BY <1>3, <2>1, Earlier
  <2> QED
    BY <1>1, <1>3, <1>5, <2>1, <2>2, TakesStep
<1> QED
  BY <1>4, <1>5

LEMMA ExpireStep ==
  ASSUME IInv, NEW discarded \in SUBSET Open, Expire(discarded)
  PROVE  IInv'
<1>1. TypeOK /\ Idle
  BY DEF IInv, Expire
<1>2. /\ result' = Answer(discarded, {}, "expire")
      /\ retired' = retired \cup discarded \cup {}
      /\ UNCHANGED <<config, device, parts, over, history>>
  BY DEF Expire
<1>3. discarded \in SUBSET Ids /\ discarded \cap retired = {}
  BY DEF Open, Seen
<1>4. parts' \in [Ids -> SUBSET Parts] /\ wire' \subseteq Ids \X Parts
  BY <1>1, <1>2 DEF TypeOK, device
<1> QED
  BY <1>1, <1>2, <1>3, <1>4, AnswerStep DEF device

-----------------------------------------------------------------------------
(* What becomes of an answer. *)

LEMMA AcknowledgeStep == IInv /\ Acknowledge => IInv'
<1> SUFFICES ASSUME IInv, Acknowledge PROVE IInv'
  OBVIOUS
<1>1. PICK id \in Acknowledging :
        /\ IF Calls THEN Credit(id) ELSE UNCHANGED <<credits, outstanding>>
        /\ AfterCredit(id)
  BY DEF Acknowledge
<1>2. UNCHANGED <<config, last, wire, assembler, over, swallowed, faults>>
  BY DEF Acknowledge
<1>3. TypeOK /\ AnswerRight
  BY DEF IInv
<1>4. id \in Ids
  BY <1>3 DEF Acknowledging, TypeOK
<1>5. /\ credits' \in [Ids -> Nat] /\ outstanding' \subseteq Ids
      /\ ~local => credits' = [credits EXCEPT ![id] = @ + 1]
      /\ local => credits' = credits /\ outstanding' = outstanding
  BY <1>1, <1>3, <1>4 DEF Calls, Credit, TypeOK
<1>6. CreditedByAgent' /\ OverFailed'
  BY <1>2, <1>5 DEF IInv, CreditedByAgent, OverFailed, config
<1>7. CASE result.discarded # {}
  <2>1. id \in result.discarded
    BY <1>7 DEF Acknowledging
  <2>2. result' = [result EXCEPT !.discarded = @ \ {id}] /\ pushed' = pushed
    BY <1>1, <2>1 DEF AfterCredit
  <2>3. /\ result'.discarded = result.discarded \ {id}
        /\ result'.partial = result.partial /\ result'.completed = result.completed
    BY <1>3, <2>2 DEF TypeOK
  <2>4. TypeOK'
    BY <1>2, <1>3, <1>5, <2>2 DEF TypeOK, config, assembler
  <2>5. AnswerRight'
    BY <1>2, <1>3, <2>3 DEF AnswerRight, HasImages, assembler
  <2>6. Credited'
    <3> SUFFICES ASSUME ~local, faults = 0, NEW other \in Ids
                 PROVE  credits'[other] =
                          IF other \in retired \ (result'.discarded \cup result'.completed)
                          THEN 1 ELSE 0
      BY <1>2 DEF Credited, config, assembler
    <3>1. credits[other] = IF other \in retired \ (result.discarded \cup result.completed)
                           THEN 1 ELSE 0
      BY DEF IInv, Credited
    <3>2. id \in retired /\ id \notin result.completed
      BY <1>3, <2>1 DEF AnswerRight
    <3>3. CASE other = id
      BY <1>3, <1>5, <2>1, <2>3, <3>1, <3>2, <3>3 DEF TypeOK
    <3>4. CASE other # id
      BY <1>3, <1>5, <2>3, <3>1, <3>4 DEF TypeOK
    <3> QED
      BY <3>3, <3>4
  <2>7. Pushed'
    BY <1>2, <2>2, <2>3 DEF IInv, Pushed, MayGoOut, HasImages, config, assembler
  <2> QED
    BY <1>6, <2>4, <2>5, <2>6, <2>7 DEF IInv
<1>8. CASE result.discarded = {}
  <2>1. id \in result.completed /\ result.partial = {}
    BY <1>8 DEF Acknowledging
  <2>2. result' = Done /\ pushed' = pushed \cup {i \in {id} : Publishable(i)}
    BY <1>1, <1>8 DEF AfterCredit, Publish
  <2>3. result.completed = {id} /\ HasImages(id) /\ id \in retired
    BY <1>3, <2>1 DEF AnswerRight
  <2>4. TypeOK'
    BY <1>2, <1>3, <1>4, <1>5, <2>2 DEF TypeOK, config, assembler, Done
  <2>5. AnswerRight'
    BY <2>2 DEF AnswerRight, HasImages, Done
  <2>6. Credited'
    <3> SUFFICES ASSUME ~local, faults = 0, NEW other \in Ids
                 PROVE  credits'[other] = IF other \in retired THEN 1 ELSE 0
      BY <1>2, <2>2 DEF Credited, config, assembler, Done
    <3>1. credits[other] = IF other \in retired \ {id} THEN 1 ELSE 0
      BY <1>8, <2>3 DEF IInv, Credited
    <3> QED
      BY <1>3, <1>4, <1>5, <2>3, <3>1 DEF TypeOK
  <2>7. Pushed'
    <3>1. Publishable(id) <=> MayGoOut(id)
      BY <2>3 DEF MayGoOut, Publishable
    <3> QED
      BY <1>2, <2>1, <2>2, <2>3, <3>1 DEF IInv, Pushed, MayGoOut, HasImages, config,
                                          assembler, Done
  <2> QED
    BY <1>6, <2>4, <2>5, <2>6, <2>7 DEF IInv
<1> QED
  BY <1>7, <1>8

LEMMA AcknowledgeFailsStep == IInv /\ AcknowledgeFails => IInv'
<1> SUFFICES ASSUME IInv, AcknowledgeFails PROVE IInv'
  OBVIOUS
<1>1. faults < MaxFaults /\ faults' = faults + 1 /\ faults \in Nat
  BY DEF AcknowledgeFails, IInv, TypeOK
<1>2. UNCHANGED <<config, device, assembler, credits, pushed>>
  BY DEF AcknowledgeFails
<1>3. Credited' /\ OverFailed' /\ CreditedByAgent'
  BY <1>1, <1>2 DEF IInv, Credited, OverFailed, CreditedByAgent, config, device
<1>4. CASE result' = Done /\ swallowed' = TRUE /\ UNCHANGED over
  BY <1>1, <1>2, <1>3, <1>4
     DEF IInv, TypeOK, AnswerRight, HasImages, Pushed, Done, config, device, assembler
<1>5. CASE over' = TRUE /\ UNCHANGED <<result, swallowed>>
  BY <1>1, <1>2, <1>3, <1>5
     DEF IInv, TypeOK, AnswerRight, HasImages, Pushed, MayGoOut, config, device, assembler
<1> QED
  BY <1>4, <1>5 DEF AcknowledgeFails

LEMMA PublishPartialStep == IInv /\ PublishPartial => IInv'
<1> SUFFICES ASSUME IInv, PublishPartial PROVE IInv'
  OBVIOUS
<1>1. /\ result' = [result EXCEPT !.partial = {}]
      /\ pushed' = pushed \cup {id \in result.partial : Publishable(id)}
      /\ UNCHANGED <<config, device, assembler, over, credits, swallowed, faults>>
  BY DEF PublishPartial, Publish
<1>2. TypeOK /\ AnswerRight
  BY DEF IInv
<1>3. /\ result'.discarded = result.discarded
      /\ result'.partial = {} /\ result'.completed = result.completed
  BY <1>1, <1>2 DEF TypeOK
<1>4. TypeOK'
  BY <1>1, <1>2 DEF TypeOK, config, device, assembler
<1>5. AnswerRight' /\ Credited' /\ CreditedByAgent' /\ OverFailed'
  BY <1>1, <1>3
     DEF IInv, AnswerRight, HasImages, Credited, CreditedByAgent, OverFailed, config,
         device, assembler
<1>6. Pushed'
  <2>1. \A id \in result.partial : Publishable(id) <=> MayGoOut(id)
    BY <1>2 DEF AnswerRight, HasImages, Publishable, MayGoOut
  <2>2. result.partial \subseteq retired /\ result.partial \cap result.completed = {}
    BY <1>2 DEF AnswerRight
  <2> QED
    BY <1>1, <1>3, <2>1, <2>2 DEF IInv, Pushed, MayGoOut, HasImages, config, assembler
<1> QED
  BY <1>4, <1>5, <1>6 DEF IInv

LEMMA FinishStep == IInv /\ Finish => IInv'
<1> SUFFICES ASSUME IInv, Finish PROVE IInv'
  OBVIOUS
<1>1. /\ result.discarded = {} /\ result.partial = {} /\ result.completed = {}
      /\ result' = Done
      /\ UNCHANGED <<config, device, assembler, over, history>>
  BY DEF Finish
<1>2. TypeOK'
  BY <1>1 DEF IInv, TypeOK, Done, config, device, assembler, history
<1> QED
  BY <1>1, <1>2 DEF IInv, AnswerRight, HasImages, Credited, CreditedByAgent, OverFailed,
                    Pushed,
                    MayGoOut,
                    Done, config, device, assembler, history

LEMMA NextIInv == IInv /\ [Next]_vars => IInv'
<1> SUFFICES ASSUME IInv, [Next]_vars PROVE IInv'
  OBVIOUS
<1>1. CASE UNCHANGED vars
  BY <1>1 DEF vars, IInv, TypeOK, AnswerRight, HasImages, Credited, CreditedByAgent,
              OverFailed,
              Pushed,
              MayGoOut, config, device, assembler, history
<1> QED
  BY <1>1, SendSetStep, AgentStep, VideoChunkStep, VideoMetaStep, ExpireStep,
     AcknowledgeStep, AcknowledgeFailsStep, PublishPartialStep, FinishStep DEF Next

LEMMA Invariance == Spec => []IInv
BY InitIInv, NextIInv, PTL DEF Spec

-----------------------------------------------------------------------------
(* The theorems. *)

\* The state of the device, the assembler and the sensor thread has its types.
THEOREM TypeCorrect == Spec => []TypeOK
<1>1. IInv => TypeOK
  BY DEF IInv
<1> QED
  BY <1>1, Invariance, PTL

\* As long as no acknowledgement fails every retired set gives exactly one credit,
\* an entirely missing one too; on the RK no set gives more than one.
THEOREM CreditsRight == Spec => []OneCreditIfAcksWork
<1>1. IInv => OneCreditIfAcksWork
  <2> SUFFICES ASSUME IInv, faults = 0 PROVE OneCredit
    BY DEF OneCreditIfAcksWork
  <2>1. CASE local
    BY <2>1 DEF IInv, CreditedByAgent, OneCredit
  <2>2. CASE ~local
    <3>1. Idle => \A id \in Ids : credits[id] = IF id \in retired THEN 1 ELSE 0
      BY <2>2 DEF IInv, Idle, Credited, Done
    <3> QED
      BY <2>2, <3>1 DEF OneCredit, OneCreditPerRetiredSet
  <2> QED
    BY <2>1, <2>2
<1> QED
  BY <1>1, Invariance, PTL

\* Between two answers of the assembler exactly the retired sets of which an image
\* came, and the trigger time if it must, have been published, complete or not,
\* unless a failed acknowledgement was swallowed.
THEOREM Publishes == Spec => []ImagesPublished
<1>1. IInv => ImagesPublished
  BY DEF IInv, ImagesPublished, Idle, Pushed, Done
<1> QED
  BY <1>1, Invariance, PTL

-----------------------------------------------------------------------------
(* Publication.                                                             *)

-----------------------------------------------------------------------------
(* The inductive invariant. *)

\* Only a reliable subscriber owes an acknowledgement.
OwedByNobody(lane) == NobodyWaited(lane) => awaiting[lane] = 0

\* The window knows of every sample that is waiting; the one whose check is still
\* to come is counted by it.
Covered(lane) ==
  awaiting[lane] <= IF lane \in checking THEN Counted(lane) ELSE pending[lane]

\* A window is full exactly when its last check was not confirmed.
FullIfUnconfirmed(lane) == pending[lane] = Limit[lane] <=> lane \in unconfirmed

Fenced(lane) == OwedByNobody(lane) /\ Covered(lane) /\ FullIfUnconfirmed(lane)

PublicationIInv == PublicationTypeOK /\ \A lane \in Lanes : Fenced(lane)

USE LimitAssumption

LEMMA PublicationInitIInv == PublicationInit => PublicationIInv
<1> SUFFICES ASSUME PublicationInit PROVE PublicationIInv
  OBVIOUS
<1>1. PublicationTypeOK
  <2>1. \A lane \in Lanes : awaiting[lane] = 0 /\ pending[lane] = 0 /\ 0 <= Limit[lane]
    BY DEF PublicationInit
  <2>2. awaiting \in [Lanes -> Nat] /\ pending \in [Lanes -> Nat]
    BY DEF PublicationInit
  <2> QED
    BY <2>1, <2>2 DEF PublicationInit, PublicationTypeOK
<1>2. ASSUME NEW lane \in Lanes PROVE Fenced(lane)
  BY <1>2 DEF PublicationInit, Fenced, OwedByNobody, Covered, FullIfUnconfirmed
<1> QED
  BY <1>1, <1>2 DEF PublicationIInv

\* The functions of the lanes, one lane at a time.
LEMMA LaneTypes ==
  ASSUME PublicationTypeOK, NEW lane \in Lanes
  PROVE  /\ awaiting[lane] \in Nat /\ pending[lane] \in Nat
         /\ Limit[lane] \in Nat /\ Limit[lane] > 0
         /\ awaiting[lane] <= Limit[lane] /\ pending[lane] <= Limit[lane]
         /\ Counted(lane) \in Nat /\ Counted(lane) <= Limit[lane]
         /\ pending[lane] <= Counted(lane)
BY DEF PublicationTypeOK, Counted

-----------------------------------------------------------------------------
(* One step for each action. *)

\* Subscribers: fewer samples are waiting than before, or as many.
LEMMA SubscriberStep ==
  ASSUME PublicationIInv, NEW l \in Lanes,
         Subscribe(l) \/ Unsubscribe(l) \/ SubscriberAcknowledges(l)
  PROVE  PublicationIInv'
<1>1. PublicationTypeOK
  BY DEF PublicationIInv
<1>2. UNCHANGED <<reliable, worker, checking, window>>
  BY DEF Subscribe, Unsubscribe, SubscriberAcknowledges
<1>3. /\ subscribed' \subseteq Lanes
      /\ awaiting' \in [Lanes -> Nat]
      /\ \A lane \in Lanes : awaiting'[lane] <= awaiting[lane] /\ awaiting'[lane] \in Nat
  BY <1>1, LaneTypes DEF Subscribe, Unsubscribe, SubscriberAcknowledges, PublicationTypeOK
<1>4. PublicationTypeOK'
  BY <1>1, <1>2, <1>3, LaneTypes DEF PublicationTypeOK, worker, window
<1>5. ASSUME NEW lane \in Lanes PROVE Fenced(lane)'
  <2>1. Fenced(lane)
    BY DEF PublicationIInv
  <2>2. OwedByNobody(lane)'
    <3> SUFFICES ASSUME NobodyWaited(lane)' PROVE awaiting'[lane] = 0
      BY DEF OwedByNobody
    <3>1. CASE NobodyWaited(lane)
      BY <3>1, <2>1, <1>1, <1>3, LaneTypes DEF Fenced, OwedByNobody
    <3>2. CASE ~NobodyWaited(lane)
      <4>1. lane = l /\ Unsubscribe(l)
        BY <3>2, <1>2
           DEF NobodyWaited, Reliable, Subscribe, Unsubscribe, SubscriberAcknowledges
      <4> QED
        BY <4>1, <1>1 DEF Unsubscribe, PublicationTypeOK
    <3> QED
      BY <3>1, <3>2
  <2>3. Covered(lane)'
    BY <2>1, <1>1, <1>2, <1>3, LaneTypes DEF Fenced, Covered, Counted, window
  <2>4. FullIfUnconfirmed(lane)'
    BY <2>1, <1>2 DEF Fenced, FullIfUnconfirmed, window
  <2> QED
    BY <2>2, <2>3, <2>4 DEF Fenced
<1> QED
  BY <1>4, <1>5 DEF PublicationIInv

\* A check: the window of its lane is empty and nothing waits, one fuller, or full
\* and reported.
LEMMA CheckStep ==
  ASSUME PublicationIInv, NEW l \in Lanes, Check(l)
  PROVE  PublicationIInv'
<1>1. PublicationTypeOK
  BY DEF PublicationIInv
<1>2. UNCHANGED <<reliable, worker, dds>> /\ l \in checking /\ checking' = checking \ {l}
  BY DEF Check, CheckSkipped, CheckCounted, CheckConfirmed, CheckTimesOut
<1>3. \/ /\ awaiting[l] = 0
         /\ pending' = [pending EXCEPT ![l] = 0] /\ unconfirmed' = unconfirmed \ {l}
      \/ /\ Counted(l) < Limit[l]
         /\ pending' = [pending EXCEPT ![l] = Counted(l)]
         /\ unconfirmed' = unconfirmed \ {l}
      \/ /\ pending' = [pending EXCEPT ![l] = Limit[l]]
         /\ unconfirmed' = unconfirmed \cup {l}
  <2>1. CASE CheckSkipped(l)
    BY <2>1 DEF CheckSkipped, PublicationIInv, Fenced, OwedByNobody
  <2>2. CASE CheckCounted(l)
    BY <2>2 DEF CheckCounted
  <2>3. CASE CheckConfirmed(l)
    BY <2>3 DEF CheckConfirmed
  <2>4. CASE CheckTimesOut(l)
    BY <2>4 DEF CheckTimesOut
  <2> QED
    BY <2>1, <2>2, <2>3, <2>4 DEF Check
<1>4. /\ pending' \in [Lanes -> Nat]
      /\ \A lane \in Lanes : pending'[lane] <= Limit[lane]
      /\ \A lane \in Lanes \ {l} : pending'[lane] = pending[lane]
  BY <1>1, <1>3, LaneTypes DEF PublicationTypeOK
<1>5. unconfirmed' \subseteq Lanes
  BY <1>1, <1>3 DEF PublicationTypeOK
<1>6. PublicationTypeOK'
  BY <1>1, <1>2, <1>4, <1>5 DEF PublicationTypeOK, worker, dds
<1>7. ASSUME NEW lane \in Lanes PROVE Fenced(lane)'
  <2>1. Fenced(lane)
    BY DEF PublicationIInv
  <2>2. OwedByNobody(lane)'
    BY <2>1, <1>2 DEF Fenced, OwedByNobody, NobodyWaited, Reliable, dds
  <2>3. CASE lane # l
    <3>1. Covered(lane)'
      BY <2>1, <2>3, <1>2, <1>4 DEF Fenced, Covered, Counted, dds
    <3>2. FullIfUnconfirmed(lane)'
      BY <2>1, <2>3, <1>3, <1>4 DEF Fenced, FullIfUnconfirmed
    <3> QED
      BY <2>2, <3>1, <3>2 DEF Fenced
  <2>4. CASE lane = l
    <3>1. awaiting'[l] = awaiting[l] /\ l \notin checking'
      BY <1>2 DEF dds
    <3>2. awaiting[l] <= Counted(l)
      BY <2>1, <2>4, <1>2 DEF Fenced, Covered
    <3>3. Covered(l)' /\ FullIfUnconfirmed(l)'
      BY <1>1, <1>3, <3>1, <3>2, LaneTypes DEF PublicationTypeOK, Covered,
                                               FullIfUnconfirmed
    <3> QED
      BY <2>2, <2>4, <3>3 DEF Fenced
  <2> QED
    BY <2>3, <2>4
<1> QED
  BY <1>6, <1>7 DEF PublicationIInv

\* A publication: one sample more may wait, and its check is to come.
LEMMA PublishStep ==
  ASSUME PublicationIInv, NEW l \in Lanes, l \notin checking,
         Deliver(l), checking' = checking \cup {l},
         UNCHANGED <<reliable, subscribed, window>>,
         holding' \in BOOLEAN, todo' \subseteq Cameras, failed' \in BOOLEAN
  PROVE  PublicationIInv'
<1>1. PublicationTypeOK
  BY DEF PublicationIInv
<1>2. /\ awaiting' \in [Lanes -> Nat]
      /\ \A lane \in Lanes : awaiting'[lane] <= Limit[lane]
      /\ \A lane \in Lanes \ {l} : awaiting'[lane] = awaiting[lane]
      /\ awaiting'[l] <= awaiting[l] + 1
      /\ NobodyWaited(l) => awaiting'[l] = awaiting[l]
  BY <1>1, LaneTypes DEF Deliver, Capped, NobodyWaited, PublicationTypeOK
<1>3. PublicationTypeOK'
  BY <1>1, <1>2 DEF PublicationTypeOK, window
<1>4. ASSUME NEW lane \in Lanes PROVE Fenced(lane)'
  <2>1. Fenced(lane)
    BY DEF PublicationIInv
  <2>2. OwedByNobody(lane)'
    BY <2>1, <1>2 DEF Fenced, OwedByNobody, NobodyWaited, Reliable
  <2>3. Covered(lane)'
    <3>1. CASE lane # l
      BY <3>1, <2>1, <1>2 DEF Fenced, Covered, Counted, window
    <3>2. CASE lane = l
      <4>1. awaiting'[l] <= pending[l] + 1
        BY <3>2, <2>1, <1>1, <1>2, LaneTypes DEF Fenced, Covered
      <4>2. awaiting'[l] <= Limit[l] /\ Counted(l)' = Counted(l)
        BY <1>2 DEF Counted, window
      <4>3. awaiting'[l] <= Counted(l)
        BY <4>1, <4>2, <1>1, LaneTypes DEF Counted, PublicationTypeOK
      <4> QED
        BY <3>2, <4>2, <4>3 DEF Covered
    <3> QED
      BY <3>1, <3>2
  <2>4. FullIfUnconfirmed(lane)'
    BY <2>1 DEF Fenced, FullIfUnconfirmed, window
  <2> QED
    BY <2>2, <2>3, <2>4 DEF Fenced
<1> QED
  BY <1>3, <1>4 DEF PublicationIInv

\* What the camera worker does to its set alone.
LEMMA WorkerStep ==
  ASSUME PublicationIInv, UNCHANGED <<reliable, checking, dds, window>>,
         holding' \in BOOLEAN, todo' \subseteq Cameras, failed' \in BOOLEAN
  PROVE  PublicationIInv'
<1>1. PublicationTypeOK'
  BY DEF PublicationIInv, PublicationTypeOK, dds, window
<1>2. ASSUME NEW lane \in Lanes PROVE Fenced(lane)'
  BY DEF PublicationIInv, Fenced, OwedByNobody, Covered, Counted, FullIfUnconfirmed,
         NobodyWaited,
         Reliable, dds, window
<1> QED
  BY <1>1, <1>2 DEF PublicationIInv

LEMMA PublicationNextIInv == PublicationIInv /\ [PublicationNext]_publicationVars => PublicationIInv'
<1> SUFFICES ASSUME PublicationIInv, [PublicationNext]_publicationVars PROVE PublicationIInv'
  OBVIOUS
<1>1. PublicationTypeOK
  BY DEF PublicationIInv
<1>2. CASE TakeSet
  BY <1>1, <1>2, WorkerStep DEF TakeSet, PublicationTypeOK
<1>3. CASE PublishMetadata
  BY <1>1, <1>3, WorkerStep DEF PublishMetadata, PublicationTypeOK
<1>4. CASE PublishThrows
  BY <1>1, <1>4, WorkerStep DEF PublishThrows, PublicationTypeOK
<1>5. CASE PublishBoardImu
  <2>1. holding' \in BOOLEAN /\ todo' \subseteq Cameras /\ failed' \in BOOLEAN
    BY <1>1, <1>5 DEF PublishBoardImu, worker, PublicationTypeOK
  <2> QED
    BY <1>5, <2>1, PublishStep DEF PublishBoardImu, Lanes
<1>6. ASSUME NEW lane \in Cameras, PublishImage(lane) PROVE PublicationIInv'
  <2>1. holding' \in BOOLEAN /\ todo' \subseteq Cameras /\ failed' \in BOOLEAN
    BY <1>1, <1>6 DEF PublishImage, PublicationTypeOK
  <2>2. lane \notin checking /\ lane \in Lanes
    BY <1>6 DEF PublishImage, Lanes
  <2> QED
    BY <1>6, <2>1, <2>2, PublishStep DEF PublishImage
<1>7. ASSUME NEW lane \in Lanes, Check(lane) PROVE PublicationIInv'
  BY <1>7, CheckStep
<1>8. ASSUME NEW lane \in Lanes,
             Subscribe(lane) \/ Unsubscribe(lane) \/ SubscriberAcknowledges(lane)
      PROVE  PublicationIInv'
  BY <1>8, SubscriberStep
<1>9. CASE UNCHANGED publicationVars
  BY <1>1, <1>9, WorkerStep DEF publicationVars, worker, PublicationTypeOK
<1> QED
  BY <1>2, <1>3, <1>4, <1>5, <1>6, <1>7, <1>8, <1>9 DEF PublicationNext

LEMMA PublicationInvariance == PublicationSpec => []PublicationIInv
BY PublicationInitIInv, PublicationNextIInv, PTL DEF PublicationSpec

-----------------------------------------------------------------------------
(* The theorems. *)

\* The state of the workers, the windows and DDS has its types; in particular no
\* window counts beyond its limit.
THEOREM PublicationTypeCorrect == PublicationSpec => []PublicationTypeOK
<1>1. PublicationIInv => PublicationTypeOK
  BY DEF PublicationIInv
<1> QED
  BY <1>1, PublicationInvariance, PTL

\* For every limit: when as many samples of a lane wait as its window holds, the
\* last check has reported it.
THEOREM Reported == PublicationSpec => []UnconfirmedReported
<1>1. PublicationIInv => UnconfirmedReported
  <2> SUFFICES ASSUME PublicationIInv, NEW lane \in Lanes,
                      lane \notin checking, awaiting[lane] >= Limit[lane]
               PROVE  lane \in unconfirmed
    BY DEF UnconfirmedReported
  <2> QED
    BY LaneTypes DEF PublicationIInv, Fenced, Covered, FullIfUnconfirmed
<1> QED
  BY <1>1, PublicationInvariance, PTL

\* A fence that timed out is found confirmed only when nothing is waiting.
THEOREM Fence == PublicationSpec => FenceStays
<1>1. ASSUME PublicationIInv, [PublicationNext]_publicationVars, NEW lane \in Lanes,
             lane \in unconfirmed, lane \notin unconfirmed'
      PROVE  awaiting[lane] = 0
  <2>1. unconfirmed' # unconfirmed
    BY <1>1
  <2>2. PICK l \in Lanes : Check(l)
    BY <1>1, <2>1
       DEF PublicationNext, publicationVars, window, TakeSet, PublishMetadata,
           PublishThrows, PublishBoardImu,
           PublishImage, Subscribe, Unsubscribe, SubscriberAcknowledges
  <2>3. l = lane
    BY <1>1, <2>2 DEF Check, CheckSkipped, CheckCounted, CheckConfirmed, CheckTimesOut
  <2>4. Counted(lane) = Limit[lane]
    BY <1>1, LaneTypes DEF PublicationIInv, Fenced, FullIfUnconfirmed, Counted
  <2>5. CheckSkipped(lane) \/ CheckConfirmed(lane)
    BY <1>1, <2>2, <2>3, <2>4, LaneTypes DEF PublicationIInv, Check, CheckCounted,
                                             CheckTimesOut
  <2> QED
    BY <1>1, <2>5 DEF CheckSkipped, CheckConfirmed, PublicationIInv, Fenced, OwedByNobody
<1>2. PublicationIInv /\ [PublicationNext]_publicationVars =>
        [\A lane \in Lanes :
           (lane \in unconfirmed /\ lane \notin unconfirmed') => awaiting[lane] = 0]_publicationVars
  BY <1>1
<1> QED
  BY <1>2, PublicationInvariance, PTL DEF PublicationSpec, FenceStays

\* A set of images is left only when every lane's image is published, or publish
\* has thrown.
THEOREM LanesPublished == PublicationSpec => LanesAllPublished
<1>1. [PublicationNext]_publicationVars =>
        [(holding /\ ~holding') => (todo = {} \/ failed')]_publicationVars
  BY DEF PublicationNext, publicationVars, worker, TakeSet, PublishMetadata,
         PublishThrows,
         PublishBoardImu,
         PublishImage, Check, CheckSkipped, CheckCounted, CheckConfirmed, CheckTimesOut,
         Subscribe, Unsubscribe, SubscriberAcknowledges
<1> QED
  BY <1>1, PTL DEF PublicationSpec, LanesAllPublished
=============================================================================
