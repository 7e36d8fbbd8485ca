--------------------------- MODULE MCControlQueue ---------------------------
(***************************************************************************)
(* TLC instances of ControlQueue.  Three callers and a limit of two are the *)
(* smallest bounds at which a call finds the deque full while another       *)
(* waits, and at which a command is queued while a batch of two is served.  *)
(***************************************************************************)
EXTENDS ControlQueue

CONSTANTS c1, c2, c3

ThreeCallers == {c1, c2, c3}
SmallLimit == 2
=============================================================================
