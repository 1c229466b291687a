----------------------------- MODULE TimerQueue -----------------------------
(***************************************************************************)
(* time/TimerQueue and Timer on their loop: an ordered set of timers      *)
(* keyed by expiration, one timerfd armed with timerfd_settime for the    *)
(* earliest of them, and handleRead, which runs every expired timer and   *)
(* re-inserts the repeating ones.                                         *)
(*                                                                         *)
(* Time is kept relative to now, in units of the 100 us minimum delay of  *)
(* resetTimerfd: rel[t] is expiration - now for each timer in timers_,    *)
(* dl the time left before the armed timerfd goes off.  Every comparison  *)
(* the code makes (getExpired's exp <= now, insert's when < earliest,     *)
(* resetTimerfd's exp - now < 100 us) is a comparison of these numbers,   *)
(* so nothing is lost, and the state space stays finite while time runs   *)
(* for ever.  A Tick is one unit of time.  Past MaxLate units overdue    *)
(* a timer's rel stays at -MaxLate: only the order among timers that are *)
(* all that late is lost.                                                 *)
(*                                                                         *)
(* Every TimerQueue method runs on the loop thread (addTimer crosses to   *)
(* it with runInLoop, modelled in EventLoop.tla), so each is one step.    *)
(* Timer callbacks are opaque and take no time.                           *)
(*                                                                         *)
(* Expirations are wall-clock (TimeStamp::now() is gettimeofday) while    *)
(* the timerfd counts CLOCK_MONOTONIC.  The wall clock may be set back    *)
(* (by an administrator or a time daemon) at most MaxClockSteps times, by *)
(* at most MaxStepBack units each: every expiration is then further from  *)
(* now, and the armed timerfd is not.  A step forward is left out: the     *)
(* timerfd still goes off at the monotonic time it was set for, and       *)
(* getExpired then finds the timers due, so nothing is delayed.           *)
(***************************************************************************)
EXTENDS Integers, FiniteSets

CONSTANTS
    Timers,     \* Timer objects
    Interval,   \* Interval[t]: interval_ in units, 0 for runAt/runAfter
    When,       \* expirations (relative to now) a caller may ask for
    Clamp,      \* resetTimerfd's minimum delay (100 us)
    MaxLate,    \* how far overdue a timer's expiration is told apart
    MaxClockSteps, \* how many times the wall clock is set back
    MaxStepBack    \* the largest step back, in units

ASSUME /\ Interval \in [Timers -> Nat]
       /\ When \subseteq Int /\ Clamp \in Nat \ {0} /\ MaxLate \in Nat
       /\ MaxClockSteps \in Nat /\ MaxStepBack \in 1..MaxLate

VARIABLES
    st,         \* st[t]: "new" (not added), "in" (in timers_), "deleted"
    rel,        \* rel[t]: expiration_ - now, for a timer in timers_
    armed,      \* the timerfd has a pending deadline
    dl,         \* time left before it goes off (when armed)
    fdReady,    \* the timerfd has expired and is readable (count > 0)
    reported,   \* poll returned it readable; handleRead is due this round
    flip,       \* flip[t] toggles each time timer t runs
    steps       \* how many times the wall clock has been set back

vars == <<st, rel, armed, dl, fdReady, reported, flip, steps>>

Horizon == Clamp + MaxLate + 1 + MaxClockSteps * MaxStepBack +
           (LET vals == When \cup {Interval[t] : t \in Timers} IN
            CHOOSE m \in vals : \A v \in vals : v <= m)

TypeOK ==
    /\ st \in [Timers -> {"new", "in", "deleted"}]
    /\ rel \in [Timers -> -MaxLate..Horizon]
    /\ armed \in BOOLEAN /\ dl \in 0..Horizon
    /\ fdReady \in BOOLEAN /\ reported \in BOOLEAN
    /\ flip \in [Timers -> BOOLEAN]
    /\ steps \in 0..MaxClockSteps

\* The constructor: an empty set, a timerfd never armed.
Init ==
    /\ st = [t \in Timers |-> "new"]
    /\ rel = [t \in Timers |-> 0]
    /\ armed = FALSE /\ dl = 0
    /\ fdReady = FALSE /\ reported = FALSE
    /\ flip = [t \in Timers |-> FALSE]
    /\ steps = 0

InQueue == {t \in Timers : st[t] = "in"}

\* The expiration of timers_.begin(), relative to now.
Earliest(S) == CHOOSE e \in {rel[t] : t \in S} : \A u \in S : e <= rel[u]

-----------------------------------------------------------------------------
\* timerfd_settime(timerfd_, 0, &newValue, &oldValue) with it_value set
\* from a delay of d and it_interval zero: a positive delay arms the
\* timerfd, a zero it_value disarms it, and a negative one (tv_sec or
\* tv_nsec below zero) is EINVAL, logged, and changes nothing.  Setting
\* the timer also clears an expiration count not yet read.
SetTimerfd(d) ==
    IF d < 0 THEN UNCHANGED <<armed, dl, fdReady>>
    ELSE /\ armed' = (d > 0)
         /\ dl' = d
         /\ fdReady' = FALSE

\* Mutant: the delay is passed on without the 100 us floor.
ResetTimerfdNoClamp(e) == SetTimerfd(e)

\* resetTimerfd(timerfd_, expiration): a relative delay of expiration -
\* now, raised to 100 us when it is less.
ResetTimerfd(e) == SetTimerfd(IF e < Clamp THEN Clamp ELSE e)

\* insert(timer): earliestChanged when timers_ is empty or when < the
\* first expiration.
EarliestChanged(t, e) == InQueue = {} \/ e < Earliest(InQueue)

\* The expirations a caller can give timer t: runAt(when) and
\* runAfter(delay) add it with interval 0 at any time; runEvery(interval)
\* at now + interval.
TimerRequests(t) == IF Interval[t] > 0 THEN {Interval[t]} ELSE When

\* addTimerInLoop(timer): insert, and resetTimerfd to the new timer's
\* expiration if it is now the earliest.
AddTimerInLoop(t, e) ==
    /\ st[t] = "new"
    /\ st' = [st EXCEPT ![t] = "in"]
    /\ rel' = [rel EXCEPT ![t] = e]
    /\ IF EarliestChanged(t, e) THEN ResetTimerfd(e)
                                ELSE UNCHANGED <<armed, dl, fdReady>>
    /\ UNCHANGED <<reported, flip, steps>>

\* One unit of time passes: expirations come closer; the timerfd goes off
\* when its delay runs out (it_interval is zero: it is then disarmed).
Tick ==
    /\ rel' = [t \in Timers |-> IF st[t] = "in" /\ rel[t] > -MaxLate
                                THEN rel[t] - 1 ELSE rel[t]]
    /\ IF armed /\ dl = 1
       THEN fdReady' = TRUE /\ armed' = FALSE /\ dl' = 0
       ELSE UNCHANGED <<fdReady, armed>> /\ dl' = IF armed THEN dl - 1 ELSE 0
    /\ UNCHANGED <<st, reported, flip, steps>>

\* epoll_wait returns the timerfd channel readable.
Poll ==
    /\ fdReady /\ ~reported
    /\ reported' = TRUE
    /\ UNCHANGED <<st, rel, armed, dl, fdReady, flip, steps>>

\* getExpired(now): every entry below (now, UINTPTR_MAX), i.e. with
\* expiration <= now.
GetExpired == {t \in InQueue : rel[t] <= 0}

\* Timer::restart(now) of a repeating timer: expiration_ = now + interval_.
Restart(t) == Interval[t]

\* Mutant: reset() re-arms the timerfd only when a timer has expired.
ResetOnlyAfterExpiry(expired) ==
    LET again == {t \in expired : Interval[t] > 0}
        left  == (InQueue \ expired) \cup again
        rel2  == [t \in Timers |-> IF t \in again THEN Restart(t) ELSE rel[t]]
    IN /\ st' = [t \in Timers |-> IF t \in expired /\ t \notin again
                                  THEN "deleted" ELSE st[t]]
       /\ rel' = rel2
       /\ IF left # {} /\ expired # {}
          THEN ResetTimerfd(CHOOSE e \in {rel2[t] : t \in left} :
                                \A u \in left : e <= rel2[u])
          ELSE UNCHANGED <<armed, dl>> /\ fdReady' = FALSE

\* reset(expired, now): a repeating timer is restarted at now + interval
\* and inserted again, a one-shot one deleted; then, if timers_ is not
\* empty, resetTimerfd to its first expiration.
Reset(expired) ==
    LET again == {t \in expired : Interval[t] > 0}
        left  == (InQueue \ expired) \cup again
        rel2  == [t \in Timers |-> IF t \in again THEN Restart(t) ELSE rel[t]]
    IN /\ st' = [t \in Timers |-> IF t \in expired /\ t \notin again
                                  THEN "deleted" ELSE st[t]]
       /\ rel' = rel2
       /\ IF left # {}
          THEN ResetTimerfd(CHOOSE e \in {rel2[t] : t \in left} :
                                \A u \in left : e <= rel2[u])
          ELSE UNCHANGED <<armed, dl>> /\ fdReady' = FALSE

\* handleRead(): ReadTimerfd (which drains the count, or reads nothing
\* and logs when resetTimerfd already cleared it), getExpired(now), run
\* each expired timer, then reset(expired, now).
HandleRead ==
    /\ reported
    /\ reported' = FALSE
    /\ flip' = [t \in Timers |-> IF t \in GetExpired THEN ~flip[t] ELSE flip[t]]
    /\ Reset(GetExpired)
    /\ UNCHANGED steps

\* The wall clock is set back by k units: every expiration in timers_ is
\* k units further from TimeStamp::now(); the timerfd, on CLOCK_MONOTONIC,
\* keeps its delay.
ClockStepBack(k) ==
    /\ steps < MaxClockSteps
    /\ steps' = steps + 1
    /\ rel' = [t \in Timers |-> IF st[t] = "in" THEN rel[t] + k ELSE rel[t]]
    /\ UNCHANGED <<st, armed, dl, fdReady, reported, flip>>

Next ==
    \/ \E t \in Timers : \E e \in TimerRequests(t) : AddTimerInLoop(t, e)
    \/ Tick \/ Poll \/ HandleRead
    \/ \E k \in 1..MaxStepBack : ClockStepBack(k)

\* Time always passes, and the loop thread is scheduled whenever the
\* timerfd is readable.  Adding timers is up to the program.
Spec == Init /\ [][Next]_vars /\ WF_vars(Tick) /\ WF_vars(Poll) /\ WF_vars(HandleRead)

-----------------------------------------------------------------------------
(* Properties.                                                           *)

\* No timer is stranded: while timers_ is not empty, the timerfd is
\* readable or armed to go off no later than the earliest timer is due
\* (or resetTimerfd's minimum delay from now).  addTimerInLoop's
\* earliestChanged re-arm and reset()'s re-arm after every handleRead are
\* what keep this, including when a re-arm clears a readiness poll had
\* not yet reported.
NoStrandedTimer ==
    InQueue # {} =>
        \/ fdReady \/ reported
        \/ armed /\ dl <= IF Earliest(InQueue) < Clamp THEN Clamp ELSE Earliest(InQueue)

\* A timer that should still fire (a one-shot timer still in timers_, or
\* any added runEvery timer).
ShouldFire(t) == st[t] = "in" \/ (st[t] # "new" /\ Interval[t] > 0)

\* Every timer fires: a runAt/runAfter timer once it is due, a runEvery
\* timer again and again.
TimersFire ==
    \A t \in Timers, b \in BOOLEAN :
        (ShouldFire(t) /\ flip[t] = b) ~> flip[t] # b
=============================================================================
