----------------------------- MODULE MCDetector -------------------------------
(* A window of two ticks, two events to judge it by, and sigma = 2, so that the
   first baselines lie below, at and above the limit of one fifth. *)
EXTENDS Detector
===============================================================================
