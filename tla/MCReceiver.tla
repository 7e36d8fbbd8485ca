----------------------------- MODULE MCReceiver -----------------------------
(***************************************************************************)
(* TLC instances of Receiver.  The session begins just before midnight and  *)
(* lasts past the same time of the next day, a position becomes stale on    *)
(* the way, the cache of one sentence forgets, and the Agent or the whole   *)
(* RK restarts.  GPS time is two units ahead; the driver knows or does not.  *)
(***************************************************************************)
EXTENDS Receiver

ShortDay == 5
OneUnit == 1
BeforeMidnight == 4
NextDay == 9
TwoAhead == 2
KnownOrNot == {-1, 2}
GoodAndBad == {<<"GGA", TRUE>>, <<"ADRNAV", TRUE>>, <<"GST", TRUE>>, <<"GST", FALSE>>}
SmallCache == 1
FewRecords == 3
OneRestart == 1
TwoPolls == 2
=============================================================================
