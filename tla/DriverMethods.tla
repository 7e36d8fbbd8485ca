--------------------------- MODULE DriverMethods ---------------------------
(***************************************************************************)
(* The methods of Driver that the services of the nodes call                *)
(* (common/src/driver.cpp), each as a record of what it does to the device: *)
(*   args     where its arguments are tested: "before" the command is       *)
(*            queued, "within" the command, or nowhere ("none")             *)
(*   streams  how the command may stand to the capture streams: it runs     *)
(*            beside them, pauses and restores them (runIdleOperation), or  *)
(*            refuses while one is started                                  *)
(*   device   what it asks of the device: a "read" of its state, a "write"  *)
(*            of one setting, a change of the "streams", or nothing ("host")*)
(*   check    who finds out that the device has declined a write: the       *)
(*            method, which then throws; the SDK, which throws; or nobody,  *)
(*            and the device's answer is handed on                          *)
(* What a command does in detail to the streams is StreamControl.           *)
(*                                                                         *)
(* A service of a node is a record as well: its name under the topic        *)
(* prefix; whether its handler answers a failure unless the request says    *)
(* confirm; the methods it calls, one after the other; and whether success  *)
(* is what the "device" answered (persisted, verified, reachable, no        *)
(* error_code) or that the "call" returned.                                 *)
(***************************************************************************)

Method(args, streams, device, check) ==
  [args |-> args, streams |-> streams, device |-> device, check |-> check]

Service(name, confirm, methods, verdict) ==
  [name |-> name, confirm |-> confirm, methods |-> methods, verdict |-> verdict]

Open == FALSE     \* nothing has to be confirmed
Gated == TRUE     \* confirm is tested before the Driver is called

Beside == {"beside"}
Pausing == {"pausing"}
Refusing == {"refusing"}

Reads(streams) == Method("none", streams, "read", "nobody")

-----------------------------------------------------------------------------
(* Cameras. *)

getExposure == Reads(Beside)
setTargetBrightness == Method("before", Beside, "write", "nobody")

\* Automatic exposure with a zero in it first reads the values it keeps.
setCameraExposure == Method("before", Beside, "write", "nobody")
getExposureLimits == Reads(Beside)
setExposureLimits == Method("none", Beside, "write", "nobody")

\* Reads the configuration, changes one field and writes it under a mask.
setUnifiedExposure == Method("none", Beside, "write", "method")

-----------------------------------------------------------------------------
(* GNSS, RTK and the TimeSync port. *)

getGnssTiming == Reads(Beside)
getGnssReception == Reads(Beside)
getRtkModuleStatus == Reads(Beside)
getRtkModuleVersions == Reads(Beside)
getCorsConfiguration == Reads(Beside)
getTimeSyncPort == Reads(Beside)
setCorsConfiguration == Method("none", Beside, "write", "method")
controlRtk == Method("before", Pausing, "write", "sdk")

\* Mutated form: what the device answers is not looked at.
setTimeSyncPortUnchecked == Method("before", Pausing, "write", "nobody")
setTimeSyncPort == Method("before", Pausing, "write", "method")
getReceiverPosition == Reads(Beside)
setRoverRtcm == Method("none", Beside, "write", "method")

-----------------------------------------------------------------------------
(* The device. *)

synchronizeSystemTime == Method("none", Pausing, "write", "nobody")
getDeviceInfo == Reads(Beside)
getDeviceConfiguration == Reads(Beside)

\* Saving nothing but the UART's baud rate leaves the streams alone.
setDeviceConfiguration == Method("before", Beside \cup Pausing, "write", "nobody")
getWifiHotspot == Reads(Pausing)
setWifiHotspot == Method("none", Pausing, "write", "nobody")
getStreamState == Method("none", Beside, "host", "nobody")
controlStreams == Method("within", Beside, "streams", "nobody")

-----------------------------------------------------------------------------
(* The LiDAR. *)

getLidarStatus == Reads(Beside)
getLidarPower == Method("before", Refusing, "read", "nobody")
setLidarStandby == Method("before", Refusing, "write", "sdk")
getLidarSpeed == Method("within", Refusing, "read", "nobody")
setLidarSpeed == Method("within", Refusing, "write", "sdk")
getLidarNetwork == Reads(Pausing)
setLidarNetwork == Method("none", Pausing, "write", "nobody")
probeLidarNetwork == Reads(Pausing)
=============================================================================
