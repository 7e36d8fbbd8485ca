--------------------------- MODULE MCPublication ---------------------------
(***************************************************************************)
(* TLC instances of Publication.  Two camera lanes are enough for one to    *)
(* time out while the other is still to be published; the IMU's window of   *)
(* two samples is the smallest that is neither empty nor full.              *)
(***************************************************************************)
EXTENDS Publication

TwoCameras == {0, 1}
BoardImu == 2
Limits == [lane \in {0, 1, 2} |-> IF lane = BoardImu THEN 2 ELSE 1]
=============================================================================
