---------------------------- MODULE MCEventLoop ----------------------------
(* One loop, two foreign threads submitting functors and asking it to    *)
(* quit, four functors in all and two readiness events of the I/O       *)
(* channel: enough for a push to land before, during and after a swap,  *)
(* for a functor to queue another one while the loop is calling         *)
(* functors, and for quit to race a push.  The loop runs in an          *)
(* EventLoopThread whose owner starts it and later destroys it, so the   *)
(* owner's quit() also races the foreign threads' pushes and quits.     *)
EXTENDS EventLoopThread

CONSTANTS L1, T1, T2

MCLoops == {L1}
MCForeign == {T1, T2}

=============================================================================
