-------------------------- MODULE MCStreamControl --------------------------
(***************************************************************************)
(* TLC instances of StreamControl: every configuration of the four streams, *)
(* every selection of a stream command, and a session of any number of      *)
(* commands.  Nothing is bounded.  (RkLocal = TRUE only takes an action     *)
(* away.)                                                                   *)
(***************************************************************************)
EXTENDS StreamControl

\* Sessions in which everything may fail, in which no stop does, and in which
\* neither a stop fails nor a start is answered with other settings.
Sessions == {AllFaults, AllFaults \ {"stop"}, AllFaults \ {"stop", "mismatch"}}

\* One kind of failure alone, for counterexamples (README.md, Disagreements).
OnlyStopsFail == {{"stop"}}
OnlyAnswersDiffer == {{"mismatch"}}
=============================================================================
