-------------------------- MODULE MCDispatchQueue --------------------------
(***************************************************************************)
(* TLC instances of DispatchQueue.  Two waiting values and five pushes are  *)
(* the smallest bounds at which a queue overflows twice, overflows again    *)
(* after the worker has taken a value, and is stopped and started with      *)
(* values of both runs in flight.                                           *)
(***************************************************************************)
EXTENDS DispatchQueue

\* The queues of one value (gnss_dispatch, reception_dispatch and
\* rtk_module_dispatch) and a small one that can reorder.
SmallCapacity == 2
Pushes == 5
=============================================================================
