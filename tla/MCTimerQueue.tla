---------------------------- MODULE MCTimerQueue ----------------------------
(* A runAt/runAfter timer and a runEvery timer; expirations from one unit *)
(* in the past to three ahead.                                            *)
EXTENDS TimerQueue, TLC

CONSTANTS T1, T2

MCTimers == {T1, T2}
MCInterval == (T1 :> 0) @@ (T2 :> 2)
MCWhen == -1..3
=============================================================================
