-------------------------- MODULE MCCameraCredits --------------------------
(***************************************************************************)
(* TLC instances of CameraCredits.  Two cameras make a set that lacks an    *)
(* image and has another, and two sets one that is given up for the next,   *)
(* also when nothing of it came.  With both credits out the device can do   *)
(* nothing but wait for the adapter.                                        *)
(***************************************************************************)
EXTENDS CameraCredits

TwoCameras == {"left", "right"}
TwoCredits == 2
TwoSets == 2
OneFault == 1
=============================================================================
