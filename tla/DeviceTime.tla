----------------------------- MODULE DeviceTime -----------------------------
(***************************************************************************)
(* DeviceTimeResolver (device_time_resolver.hpp) and the handlers of the    *)
(* driver that feed it and ask it: which of the two times of a LiDAR        *)
(* sample, the SDK's or the raw one, belongs to the clock of the camera and *)
(* the board IMU.                                                           *)
(*                                                                         *)
(* Times are whole units.  `steady' is the host's steady clock; the device's *)
(* clock runs with it and is set only by a synchronisation the adapter asks  *)
(* for.  A sample reaches its handler up to Delay after it was measured,    *)
(* because commands hold the sensor thread and the SDK buffers.  Of a LiDAR  *)
(* sample each time is the device's, that of another domain (TAI, a PTP      *)
(* master of its own), or zero.  A sample that is not synchronised has any   *)
(* time.  The steady clock is read twice for a LiDAR sample, by resolveLidar *)
(* and by hasFreshReference, and may advance in between.                    *)
(***************************************************************************)
EXTENDS Integers

CONSTANTS Hold,        \* kBoardReferenceHoldNs
          MaxAge,      \* kMaximumReferenceAgeNs
          MaxDelta,    \* kMaximumCandidateDeltaNs
          Patience,    \* how long a start waits for a reference
          Delay,       \* bound on the age of a sample when it is handled
          Domains,     \* what other clocks of the LiDAR differ by
          Shifts,      \* what the device's clock can be set to, less `steady'
          LargestTime, \* the largest uint64_t
          Horizon      \* bound on the steady clock

ASSUME LimitsAssumption ==
  Hold \in Nat /\ MaxAge \in Nat /\ MaxDelta \in Nat /\ Patience \in Nat
ASSUME DelayAssumption == Delay \in Nat /\ Delay <= MaxDelta
\* A clock of another domain is far off: 37 s for TAI, with a limit of 2 s.
ASSUME DomainsAssumption ==
  Domains \subseteq Int /\ \A d \in Domains : d > 2 * Delay \/ -d > 2 * Delay
\* The steady clock and the device's started long before the driver did.
ASSUME ClocksAssumption ==
  /\ Shifts \subseteq Nat /\ \A s \in Shifts : s > Delay
  /\ LargestTime \in Nat /\ Horizon \in Nat

VARIABLES
  required,   \* config.require_synchronized_timestamps
  enabled,    \* which of "board" and "camera" are configured
  steady,     \* the steady clock
  shift,      \* the device's clock, less steady
  phase,      \* "establishing" a reference, or "streaming"
  started,    \* when the streams were started
  reference,  \* reference_
  sample,     \* the LiDAR sample between the two reads of the clock
  board       \* history: the board observation since the streams were started

deviceTimeVars == <<required, enabled, steady, shift, phase, started, reference, sample, board>>

ReferenceSources == {"board", "camera"}
Reference == [source : ReferenceSources, timestamp : Nat, arrival : Nat]
NoReference == [source |-> "none", timestamp |-> 0, arrival |-> 0]

\* A LiDAR sample: when it was measured, by the device's clock; its two times;
\* what resolveLidar said of it (0: nothing).
Sample == [measured : Nat, sdk : Int, raw : Int, resolved : Int]
NoSample == [measured |-> 0, sdk |-> 0, raw |-> 0, resolved |-> 0]

DeviceTimeTypeOK ==
  /\ required \in BOOLEAN /\ enabled \subseteq ReferenceSources
  /\ steady \in Nat /\ shift \in Shifts
  /\ phase \in {"establishing", "streaming"} /\ started \in 0..steady
  /\ reference \in Reference \cup {NoReference}
  /\ sample \in Sample
  /\ board \in Reference \cup {NoReference}

DeviceTimeInit ==
  /\ required \in BOOLEAN /\ enabled \in SUBSET ReferenceSources
  /\ steady = 1 /\ shift \in Shifts
  /\ phase = "establishing" /\ started = 1
  /\ reference = NoReference
  /\ sample = NoSample
  /\ board = NoReference

Device == steady + shift   \* the device's clock

-----------------------------------------------------------------------------
(* The resolver. *)

HasReference == reference # NoReference

Elapsed(arrival) == arrival - reference.arrival

HasFreshReference(arrival) ==
  HasReference /\ arrival >= reference.arrival /\ Elapsed(arrival) <= MaxAge

Observe(source, timestamp) ==
  reference' = IF timestamp = 0 \/ steady = 0 THEN reference
               ELSE [source |-> source, timestamp |-> timestamp, arrival |-> steady]

\* A board reference holds the camera's off for a while (mutated form: it does
\* not).
NeverHeld == FALSE
BoardHolds ==
  /\ reference.source = "board"
  /\ steady >= reference.arrival /\ Elapsed(steady) <= Hold

\* No answer without a reference, with one that is too old, or past the end of
\* time.
Placeable(arrival) ==
  /\ HasReference /\ arrival >= reference.arrival
  /\ Elapsed(arrival) <= MaxAge
  /\ reference.timestamp + Elapsed(arrival) <= LargestTime

Expected(arrival) == reference.timestamp + Elapsed(arrival)

\* How far a candidate is from what is expected; a zero is no candidate.
Distance(candidate, expected) ==
  IF candidate >= expected THEN candidate - expected ELSE expected - candidate
Delta(candidate, expected) ==
  IF candidate = 0 THEN LargestTime ELSE Distance(candidate, expected)

\* The nearer of the two, the SDK's when they are equally near.
Nearer(sdk, raw, expected) ==
  IF Delta(raw, expected) < Delta(sdk, expected) THEN raw ELSE sdk

\* Near enough.
Near(candidate, expected) == Delta(candidate, expected) <= MaxDelta

\* 0 stands for nullopt.
ResolveLidar(sdk, raw, arrival) ==
  LET best == Nearer(sdk, raw, Expected(arrival))
  IN IF Placeable(arrival) /\ Near(best, Expected(arrival)) THEN best ELSE 0

-----------------------------------------------------------------------------
(* The streams. *)

\* Every start waits for a reference, unless there is none to be had or the
\* samples need not be synchronised, and not for long.
Waits == required /\ enabled # {}

Established ==
  /\ phase = "establishing"
  /\ ~Waits \/ HasReference \/ steady - started >= Patience
  /\ phase' = "streaming"
  /\ UNCHANGED <<required, enabled, steady, shift, started, reference, sample, board>>

\* A command that stops and starts the streams; one of them sets the device's
\* clock.  The reference is forgotten between the two (mutated form: it is not).
RestartRemembers ==
  /\ sample = NoSample
  /\ shift' \in Shifts
  /\ phase' = "establishing" /\ started' = steady
  /\ board' = NoReference
  /\ UNCHANGED <<required, enabled, steady, reference, sample>>
Restart ==
  /\ sample = NoSample
  /\ shift' \in Shifts
  /\ phase' = "establishing" /\ started' = steady
  /\ reference' = NoReference
  /\ board' = NoReference
  /\ UNCHANGED <<required, enabled, steady, sample>>

Tick ==
  /\ steady < Horizon
  /\ steady' = steady + 1
  /\ UNCHANGED <<required, enabled, shift, phase, started, reference, sample, board>>

\* The times, by the device's clock, at which a sample handled now may have been
\* measured.  After the clock is set a new client is opened, so no sample of the
\* old clock is left.
Measured == (Device - Delay)..Device

\* dispatchBoardImu.
BoardImu ==
  /\ "board" \in enabled /\ sample = NoSample
  /\ \E timestamp \in Measured \cup {0} :
       /\ Observe("board", timestamp)
       /\ board' = IF timestamp = 0 THEN board
                   ELSE [source |-> "board", timestamp |-> timestamp, arrival |-> steady]
  /\ UNCHANGED <<required, enabled, steady, shift, phase, started, sample>>

\* One that is not synchronised is dropped, or published without the resolver
\* seeing it: nothing changes here.

\* handleVideoMeta, for a valid trigger time: the resolver hears of it whether the
\* camera's images are published or not.
VideoMeta ==
  /\ sample = NoSample
  /\ \E timestamp \in Measured \ {0} :
       IF BoardHolds THEN UNCHANGED reference ELSE Observe("camera", timestamp)
  /\ UNCHANGED <<required, enabled, steady, shift, phase, started, sample, board>>

\* dispatchLidarPoints and dispatchLidarImu: a synchronised sample (or one that
\* need not be) is put to the resolver.
Candidates(measured) == {0, measured} \cup {measured + d : d \in Domains}

Lidar ==
  /\ phase = "streaming" /\ sample = NoSample
  /\ \E m \in Measured : \E sdk, raw \in Candidates(m) :
       sample' = [measured |-> m, sdk |-> sdk, raw |-> raw,
                  resolved |-> ResolveLidar(sdk, raw, steady)]
  /\ UNCHANGED <<required, enabled, steady, shift, phase, started, reference, board>>

\* One without an answer is dropped if there is a reference and it is fresh by
\* now (mutated form: it is sent).
NeverRefused == FALSE
Refused == sample.resolved = 0 /\ HasFreshReference(steady) /\ required

DropLidar ==
  /\ sample # NoSample
  /\ Refused
  /\ sample' = NoSample
  /\ UNCHANGED <<required, enabled, steady, shift, phase, started, reference, board>>

SendLidar ==
  /\ sample # NoSample
  /\ ~Refused
  /\ sample' = NoSample
  /\ UNCHANGED <<required, enabled, steady, shift, phase, started, reference, board>>

\* The time it is sent with: the resolver's, or the SDK's.
Output == IF sample.resolved # 0 THEN sample.resolved ELSE sample.sdk

DeviceTimeNext == \/ Established \/ Restart \/ Tick
                  \/ BoardImu \/ VideoMeta \/ Lidar \/ DropLidar \/ SendLidar

DeviceTimeSpec == DeviceTimeInit /\ [][DeviceTimeNext]_deviceTimeVars

-----------------------------------------------------------------------------
(* Properties. *)

\* While board samples keep coming, no camera time takes the board's place: the
\* reference is the last board sample, if it is no older than Hold.
BoardLeads ==
  (board # NoReference /\ steady - board.arrival <= Hold) => reference = board

\* Where the reference tells the domains apart the right time is chosen: a LiDAR
\* sample of which one time is the device's goes out with that one, whatever
\* restarts and settings of the device's clock came before.
InDomain == sample.sdk = sample.measured \/ sample.raw = sample.measured
DeviceTimeChosen ==
  (sample.resolved # 0 /\ InDomain) => Output = sample.measured

\* A LiDAR sample that was placed goes out near the time it was measured at, even
\* when the reference grows old before the second read of the clock.  And where the
\* samples must be synchronised and the board's keep coming, one that was not placed
\* does not go out, whatever the camera's times did to the reference.
BoardRecent == board # NoReference /\ steady - board.arrival <= MaxAge
DeviceTimeSent ==
  (sample # NoSample /\ ~Refused /\ (sample.resolved # 0 \/ (required /\ BoardRecent))) =>
    Distance(Output, sample.measured) <= MaxDelta + Delay

\* README.md:260-262: by default the samples that cannot be placed in the device's
\* time domain are dropped, so that the clocks are not mixed: once a reference was
\* had, what goes out is near the time it was measured at.  (It is not so: the code
\* drops a sample without an answer only while the reference is fresh.)
OnlyPlacedIsSent ==
  (sample # NoSample /\ ~Refused /\ required /\ HasReference) =>
    Distance(Output, sample.measured) <= MaxDelta + Delay
=============================================================================
