---------------------------- MODULE Ros2Services ----------------------------
(***************************************************************************)
(* The services of the ROS 2 node: createServices and                       *)
(* createNavigationServices of prism_ros2_node.cpp.  Every handler answers  *)
(* a failure when a call to the Driver throws.                              *)
(***************************************************************************)
EXTENDS DriverMethods

-----------------------------------------------------------------------------
GetExposure ==
  Service("camera/get_exposure", Open, <<getExposure, getExposureLimits>>, "call")
SetTargetBrightness ==
  Service("camera/set_target_brightness", Open, <<setTargetBrightness>>, "call")
SetCameraExposure ==
  Service("camera/set_exposure", Open, <<setCameraExposure>>, "call")
SetExposureLimits ==
  Service("camera/set_exposure_limits", Open, <<setExposureLimits>>, "call")
SyncSystemTime ==
  Service("system/sync_time", Gated, <<synchronizeSystemTime>>, "device")
GetDeviceInfo == Service("device/get_info", Open, <<getDeviceInfo>>, "call")
GetDeviceConfiguration ==
  Service("device/get_configuration", Open, <<getDeviceConfiguration>>, "call")
SetDeviceConfiguration ==
  Service("device/set_configuration", Gated, <<setDeviceConfiguration>>, "device")
GetLidarStatus == Service("lidar/get_status", Open, <<getLidarStatus>>, "call")
GetLidarNetwork ==
  Service("lidar/get_network", Open, <<getLidarNetwork>>, "device")
SetLidarNetwork ==
  Service("lidar/set_network", Gated, <<setLidarNetwork>>, "device")
ProbeLidarNetwork ==
  Service("lidar/probe_network", Open, <<probeLidarNetwork>>, "device")
GetStreamState ==
  Service("streams/get_state", Open, <<getStreamState>>, "call")
ControlStreams == Service("streams/control", Open, <<controlStreams>>, "call")
GetWifiHotspot ==
  Service("wifi/get_hotspot", Open, <<getWifiHotspot>>, "device")
SetWifiHotspot ==
  Service("wifi/set_hotspot", Gated, <<setWifiHotspot>>, "device")
GetLidarSpeed == Service("lidar/get_speed", Open, <<getLidarSpeed>>, "call")
SetLidarSpeed == Service("lidar/set_speed", Gated, <<setLidarSpeed>>, "call")
GetLidarPower == Service("lidar/get_power", Open, <<getLidarPower>>, "call")
SetLidarStandby ==
  Service("lidar/set_standby", Gated, <<setLidarStandby>>, "call")
GetGnssTiming == Service("gnss/get_timing", Open, <<getGnssTiming>>, "call")
GetTimeSyncPort ==
  Service("system/get_timesync_port", Open, <<getTimeSyncPort>>, "call")
SetRoverRtcm == Service("gnss/set_rover_rtcm", Open, <<setRoverRtcm>>, "call")
GetGnssReception ==
  Service("gnss/get_reception", Open, <<getGnssReception>>, "call")
GetRtkModuleStatus ==
  Service("rtk/get_status", Open, <<getRtkModuleStatus>>, "call")
GetRtkModuleVersions ==
  Service("rtk/get_versions", Open, <<getRtkModuleVersions>>, "call")
GetCorsConfiguration ==
  Service("rtk/get_cors", Open, <<getCorsConfiguration>>, "call")

\* Mutated form: confirm is not tested.
SetCorsConfigurationUngated ==
  Service("rtk/set_cors", Open, <<setCorsConfiguration>>, "call")
SetCorsConfiguration ==
  Service("rtk/set_cors", Gated, <<setCorsConfiguration>>, "call")
ControlRtk == Service("rtk/control", Gated, <<controlRtk>>, "call")
SetTimeSyncPort ==
  Service("system/set_timesync_port", Gated, <<setTimeSyncPort>>, "call")
GetReceiverPosition ==
  Service("rtk/get_receiver_position", Open, <<getReceiverPosition>>, "call")
SetUnifiedExposure ==
  Service("camera/set_unified_exposure", Open, <<setUnifiedExposure>>, "call")

-----------------------------------------------------------------------------
Services ==
  {GetExposure, SetTargetBrightness, SetCameraExposure, SetExposureLimits,
   SyncSystemTime, GetDeviceInfo, GetDeviceConfiguration,
   SetDeviceConfiguration, GetLidarStatus, GetLidarNetwork, SetLidarNetwork,
   ProbeLidarNetwork, GetStreamState, ControlStreams, GetWifiHotspot,
   SetWifiHotspot, GetLidarSpeed, SetLidarSpeed, GetLidarPower,
   SetLidarStandby, GetGnssTiming, GetTimeSyncPort, SetRoverRtcm,
   GetGnssReception, GetRtkModuleStatus, GetRtkModuleVersions,
   GetCorsConfiguration, SetCorsConfiguration, ControlRtk, SetTimeSyncPort,
   GetReceiverPosition, SetUnifiedExposure}
=============================================================================
