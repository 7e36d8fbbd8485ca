----------------------------- MODULE MCRawFeed -----------------------------
(***************************************************************************)
(* TLC instances of RawFeed.  A queue of one chunk overflows while the     *)
(* worker holds another; a cache of two records forgets some between two   *)
(* polls; two pages of one record split a poll; a restart and a failed     *)
(* query fall between any two steps.                                        *)
(***************************************************************************)
EXTENDS RawFeed

SmallQueue == 1
FewPages == 2
SmallCache == 2
SmallPage == 1
FewRecords == 3
OneRestart == 1
OneFailure == 1
=============================================================================
