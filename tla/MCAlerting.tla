----------------------------- MODULE MCAlerting -------------------------------
(* Two alerts of the same fingerprint, one of them critical, and a third of
   another fingerprint, whose admission collects expired entries. *)
EXTENDS Alerting, TLC

CONSTANTS r1, r2, r3, f1, f2

ThreeReqs == {r1, r2, r3}
OneCritical == {r2}
TwoFps == [r \in Req |-> IF r = r3 THEN f2 ELSE f1]
===============================================================================
