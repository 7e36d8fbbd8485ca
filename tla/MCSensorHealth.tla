--------------------------- MODULE MCSensorHealth ---------------------------
(***************************************************************************)
(* TLC instances of SensorHealth: of six numbers, so that seven samples wrap; *)
(* bursts of up to three, which are less than half the numbers, half and     *)
(* more; a silence and a report interval of two units in five units of time, *)
(* so that a report can hold back a silence and the next one tell of it.     *)
(***************************************************************************)
EXTENDS SensorHealth

Numbers == 6
Two == 2
LastTime == 5
LastNumber == 7
LongBurst == 3
One == 1
=============================================================================
