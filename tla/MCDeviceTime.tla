---------------------------- MODULE MCDeviceTime ----------------------------
(***************************************************************************)
(* TLC instances of DeviceTime, in units of one second: the code's limits   *)
(* of 2, 5 and 2, a clock that runs long enough to outlive a reference and  *)
(* find the next one, another domain on either side, and two settings of    *)
(* the device's clock that differ as the domains do.                        *)
(***************************************************************************)
EXTENDS DeviceTime

TwoSeconds == 2
FiveSeconds == 5
OneSecond == 1
OtherClocks == {37, -37}
Settings == {50, 87}
EndOfTime == 1000
LongEnough == 8
=============================================================================
