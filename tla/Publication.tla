---------------------------- MODULE Publication ----------------------------
(***************************************************************************)
(* The publication workers of the ROS 2 node that wait for DDS: publishCamera *)
(* and publishBoardImu, acknowledgePublication, and PublicationAckWindow    *)
(* (publication_ack.hpp), which bounds the samples of a lane that nobody    *)
(* has confirmed.  A camera lane checks after every image, a board IMU after *)
(* every 64 samples, for 100 ms at most.                                    *)
(*                                                                         *)
(* Each dispatch queue has its worker: one for the camera sets, with a lane *)
(* per camera, one for a board IMU.  A worker's publication, and the check   *)
(* that follows it, are two steps, so subscribers come and go and           *)
(* acknowledge in between.  Outside src/ is DDS: it delivers a sample to a   *)
(* reliable subscriber when the subscriber likes, and a wait succeeds when  *)
(* nothing is waited for.  The ROS 2 builds without an acknowledgement API   *)
(* never wait and are left out.                                             *)
(***************************************************************************)
EXTENDS Naturals, FiniteSets

CONSTANTS Cameras,    \* the camera lanes, numbers
          Imu,        \* the lane of the board IMU
          Limit       \* limit_ of each lane's window

ASSUME CamerasAssumption == Cameras \subseteq Nat /\ IsFiniteSet(Cameras)
ASSUME ImuAssumption == Imu \notin Cameras

Lanes == Cameras \cup {Imu}

ASSUME LimitAssumption == Limit \in [Lanes -> Nat \ {0}]

VARIABLES
  reliable,    \* reliable_sensor_qos_: of the IMU; cameras always are
  holding,     \* the camera worker has a set
  todo,        \* the lanes of it that are not published yet
  checking,    \* the lanes published whose check is still to come
  failed,      \* publish has thrown, and the rest of the set is lost
  subscribed,  \* the lanes with a subscriber
  awaiting,    \* DDS: samples of a lane its subscriber has not acknowledged
  pending,     \* pending_ of each window
  unconfirmed  \* the lanes whose last check was counted in dds_ack_timeouts

worker == <<holding, todo, failed>>
dds == <<subscribed, awaiting>>
window == <<pending, unconfirmed>>
publicationVars == <<reliable, worker, checking, dds, window>>

\* Counting stops at the limit: what lies beyond makes no difference.
Capped(n, lane) == IF n > Limit[lane] THEN Limit[lane] ELSE n

PublicationTypeOK ==
  /\ reliable \in BOOLEAN
  /\ holding \in BOOLEAN /\ todo \subseteq Cameras /\ failed \in BOOLEAN
  /\ checking \subseteq Lanes
  /\ subscribed \subseteq Lanes /\ unconfirmed \subseteq Lanes
  /\ awaiting \in [Lanes -> Nat] /\ pending \in [Lanes -> Nat]
  /\ \A lane \in Lanes : awaiting[lane] <= Limit[lane] /\ pending[lane] <= Limit[lane]

PublicationInit ==
  /\ reliable \in BOOLEAN
  /\ holding = FALSE /\ todo = {} /\ failed = FALSE
  /\ checking = {}
  /\ subscribed = {} /\ awaiting = [lane \in Lanes |-> 0]
  /\ pending = [lane \in Lanes |-> 0] /\ unconfirmed = {}

Reliable(lane) == lane = Imu => reliable

-----------------------------------------------------------------------------
(* DDS and the subscribers. *)

Subscribe(lane) ==
  /\ lane \notin subscribed
  /\ subscribed' = subscribed \cup {lane}
  /\ UNCHANGED <<reliable, worker, checking, awaiting, window>>

Unsubscribe(lane) ==
  /\ lane \in subscribed
  /\ subscribed' = subscribed \ {lane}
  /\ awaiting' = [awaiting EXCEPT ![lane] = 0]
  /\ UNCHANGED <<reliable, worker, checking, window>>

SubscriberAcknowledges(lane) ==
  /\ awaiting[lane] > 0
  /\ awaiting' = [awaiting EXCEPT ![lane] = 0]
  /\ UNCHANGED <<reliable, worker, checking, subscribed, window>>

Deliver(lane) ==
  awaiting' = IF lane \in subscribed /\ Reliable(lane)
              THEN [awaiting EXCEPT ![lane] = Capped(@ + 1, lane)]
              ELSE awaiting

-----------------------------------------------------------------------------
(* The windows. *)

\* What published() makes of pending_ before it waits.
Counted(lane) == IF pending[lane] < Limit[lane] THEN pending[lane] + 1 ELSE pending[lane]

\* acknowledgePublication, without a wait: nobody to wait for, or the window is
\* not full.
NobodyWaited(lane) == ~Reliable(lane) \/ lane \notin subscribed

CheckSkipped(lane) ==
  /\ lane \in checking
  /\ NobodyWaited(lane)
  /\ pending' = [pending EXCEPT ![lane] = 0]
  /\ unconfirmed' = unconfirmed \ {lane}
  /\ checking' = checking \ {lane}
  /\ UNCHANGED <<reliable, worker, dds>>

CheckCounted(lane) ==
  /\ lane \in checking
  /\ ~NobodyWaited(lane)
  /\ Counted(lane) < Limit[lane]
  /\ pending' = [pending EXCEPT ![lane] = Counted(lane)]
  /\ unconfirmed' = unconfirmed \ {lane}
  /\ checking' = checking \ {lane}
  /\ UNCHANGED <<reliable, worker, dds>>

\* With one: everything is acknowledged within 100 ms.
CheckConfirmed(lane) ==
  /\ lane \in checking
  /\ ~NobodyWaited(lane)
  /\ Counted(lane) = Limit[lane]
  /\ awaiting[lane] = 0
  /\ pending' = [pending EXCEPT ![lane] = 0]
  /\ unconfirmed' = unconfirmed \ {lane}
  /\ checking' = checking \ {lane}
  /\ UNCHANGED <<reliable, worker, dds>>

\* It is not, or the wait throws: the fence stays, the failure is counted
\* (mutated forms: the window starts again; the worker gives the set up; the
\* wait has no limit).
CheckTimesOutOpen(lane) ==
  /\ lane \in checking
  /\ ~NobodyWaited(lane)
  /\ Counted(lane) = Limit[lane]
  /\ pending' = [pending EXCEPT ![lane] = 0]
  /\ unconfirmed' = unconfirmed \cup {lane}
  /\ checking' = checking \ {lane}
  /\ UNCHANGED <<reliable, worker, dds>>
CheckTimesOutAndSkips(lane) ==
  /\ lane \in checking
  /\ ~NobodyWaited(lane)
  /\ Counted(lane) = Limit[lane]
  /\ pending' = [pending EXCEPT ![lane] = Limit[lane]]
  /\ unconfirmed' = unconfirmed \cup {lane}
  /\ checking' = checking \ {lane}
  /\ holding' = IF lane = Imu THEN holding ELSE FALSE
  /\ todo' = IF lane = Imu THEN todo ELSE {}
  /\ UNCHANGED <<reliable, failed, dds>>
CheckTimesOutNever(lane) ==
  /\ CheckTimesOutOpen(lane)
  /\ awaiting[lane] = 0
CheckTimesOut(lane) ==
  /\ lane \in checking
  /\ ~NobodyWaited(lane)
  /\ Counted(lane) = Limit[lane]
  /\ pending' = [pending EXCEPT ![lane] = Limit[lane]]
  /\ unconfirmed' = unconfirmed \cup {lane}
  /\ checking' = checking \ {lane}
  /\ UNCHANGED <<reliable, worker, dds>>

Check(lane) ==
  CheckSkipped(lane) \/ CheckCounted(lane) \/ CheckConfirmed(lane) \/ CheckTimesOut(lane)

-----------------------------------------------------------------------------
(* The worker of the camera sets. *)

TakeSet ==
  /\ ~holding
  /\ holding' = TRUE
  /\ todo' \in SUBSET Cameras
  /\ failed' = FALSE
  /\ UNCHANGED <<reliable, checking, dds, window>>

\* One image after the other, each checked before the next.
PublishImage(lane) ==
  /\ lane \in todo /\ \A other \in todo : lane <= other
  /\ checking \cap Cameras = {}
  /\ Deliver(lane)
  /\ todo' = todo \ {lane}
  /\ checking' = checking \cup {lane}
  /\ UNCHANGED <<reliable, holding, failed, subscribed, window>>

\* The metadata of a set goes last.
PublishMetadata ==
  /\ holding /\ todo = {}
  /\ checking \cap Cameras = {}
  /\ holding' = FALSE
  /\ UNCHANGED <<reliable, todo, failed, checking, dds, window>>

\* publish throws: the dispatch queue's worker counts it, and takes the next set.
PublishThrows ==
  /\ holding
  /\ checking \cap Cameras = {}
  /\ holding' = FALSE
  /\ todo' = {}
  /\ failed' = TRUE
  /\ UNCHANGED <<reliable, checking, dds, window>>

\* The worker of the board IMU.
PublishBoardImu ==
  /\ Imu \notin checking
  /\ Deliver(Imu)
  /\ checking' = checking \cup {Imu}
  /\ UNCHANGED <<reliable, worker, subscribed, window>>

PublicationNext ==
  \/ TakeSet \/ PublishMetadata \/ PublishThrows \/ PublishBoardImu
  \/ \E lane \in Cameras : PublishImage(lane)
  \/ \E lane \in Lanes : \/ Check(lane)
                         \/ Subscribe(lane) \/ Unsubscribe(lane)
                         \/ SubscriberAcknowledges(lane)

\* The workers keep running, and a wait ends after 100 ms.  Subscribers may keep
\* silent for ever.
PublicationFairness ==
  /\ WF_publicationVars(PublishMetadata)
  /\ \A lane \in Cameras : WF_publicationVars(PublishImage(lane))
  /\ \A lane \in Lanes : WF_publicationVars(Check(lane))

PublicationSpec ==
  PublicationInit /\ [][PublicationNext]_publicationVars /\ PublicationFairness

-----------------------------------------------------------------------------
(* Properties. *)

\* Nothing is claimed that was not confirmed: when a limit's worth of a lane's
\* samples is waiting for an acknowledgement, the last check has said so.
UnconfirmedReported ==
  \A lane \in Lanes :
    (lane \notin checking /\ awaiting[lane] >= Limit[lane]) => lane \in unconfirmed

\* A fence that timed out stays until everything before it is acknowledged: a
\* lane reported unconfirmed is only found confirmed when nothing is waiting.
FenceStays ==
  [][\A lane \in Lanes :
       (lane \in unconfirmed /\ lane \notin unconfirmed') => awaiting[lane] = 0]_publicationVars

\* README.md:190: a lane that times out does not cost the others their image;
\* only a publish that throws does.
LanesAllPublished == [][(holding /\ ~holding') => (todo = {} \/ failed')]_publicationVars

\* A subscriber that never acknowledges does not hold a worker up.
WorkerGoesOn == holding ~> ~holding
=============================================================================
