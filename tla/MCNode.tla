------------------------------- MODULE MCNode -------------------------------
(***************************************************************************)
(* TLC instances of Node: both nodes, every service with every combination  *)
(* of confirm and of valid arguments, any number of requests.  Nothing is   *)
(* bounded but the queue, which one caller never fills.                     *)
(***************************************************************************)
EXTENDS Node

BothNodes == {1, 2}
SmallLimit == 2
=============================================================================
