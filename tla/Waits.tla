------------------------------- MODULE Waits -------------------------------
(***************************************************************************)
(* The two computations of tasks.c with which a task tells the time that   *)
(* has passed from a tick count that wraps: xTaskCheckForTimeOut, with     *)
(* which a queue operation that was woken finds out whether its limit has  *)
(* come, and vTaskDelayUntil, with which a task runs at a fixed period.    *)
(*                                                                         *)
(* `instant' counts the ticks for ever; the code has xTickCount and        *)
(* xNumOfOverflows.  Where it stores a tick count, so does the model: the  *)
(* variables below that are compared with `instant' are for the property.  *)
(***************************************************************************)
EXTENDS Integers

CONSTANTS
    Turn,       \* the modulus of the tick count, 2^32 in the build
    LastTick,   \* bound on instant
    WaitLimits, \* the limits of waits; Turn - 1 is portMAX_DELAY
    Increments  \* the periods of vTaskDelayUntil

ASSUME WaitsAssumption ==
    /\ Turn \in Nat \ {0} /\ LastTick \in Nat
    /\ WaitLimits \subseteq 1..(Turn - 1) /\ Increments \subseteq 1..(Turn - 1)

VARIABLES
    instant,
    xTimeOnEntering, xOverflowCount,  \* of the TimeOut_t
    xTicksToWait,                     \* what is left of the limit, 0 outside a wait
    looked,                           \* when the TimeOut_t was last set
    deadline,                         \* when the limit comes, if there is one
    pxPreviousWakeTime,               \* of the periodic task
    wakeAt,                           \* when its delay ends, 0 while it is not delayed
    xTimeIncrement, released          \* its increment, and the time of its current period

timeOutVars == <<xTimeOnEntering, xOverflowCount, xTicksToWait, looked, deadline>>
periodicVars == <<pxPreviousWakeTime, wakeAt, xTimeIncrement, released>>
waitVars == <<instant, timeOutVars, periodicVars>>

xTickCount == instant % Turn
xNumOfOverflows == instant \div Turn
portMAX_DELAY == Turn - 1

WaitInit ==
    /\ instant \in 0..(Turn - 1)
    /\ xTimeOnEntering = 0 /\ xOverflowCount = 0 /\ xTicksToWait = 0 /\ looked = 0 /\ deadline = 0
    /\ pxPreviousWakeTime = xTickCount /\ released = instant /\ wakeAt = 0
    /\ xTimeIncrement \in Increments

(* Time waits for no task.  The tick ends a delay that is over.            *)
CountTick ==
    /\ instant < LastTick
    /\ instant' = instant + 1
    /\ wakeAt' = IF wakeAt <= instant' THEN 0 ELSE wakeAt
    /\ UNCHANGED <<timeOutVars, pxPreviousWakeTime, xTimeIncrement, released>>

vTaskSetTimeOutState ==
    xOverflowCount' = xNumOfOverflows /\ xTimeOnEntering' = xTickCount /\ looked' = instant

BeginWait(limit) ==
    /\ xTicksToWait = 0
    /\ vTaskSetTimeOutState
    /\ xTicksToWait' = limit /\ deadline' = instant + limit
    /\ UNCHANGED <<instant, periodicVars>>

\* The wait ends because what it was for has come.
EndWait ==
    /\ xTicksToWait # 0
    /\ xTicksToWait' = 0
    /\ UNCHANGED <<instant, xTimeOnEntering, xOverflowCount, looked, deadline, periodicVars>>

Elapsed == (xTickCount - xTimeOnEntering) % Turn

\* Mutant: a task that comes back after more than a full turn is not noticed.
TimedOutWithoutOverflows == xTicksToWait # portMAX_DELAY /\ Elapsed >= xTicksToWait

\* What xTaskCheckForTimeOut returns.
TimedOut ==
    /\ xTicksToWait # portMAX_DELAY
    /\ \/ xNumOfOverflows # xOverflowCount /\ xTickCount >= xTimeOnEntering
       \/ Elapsed >= xTicksToWait

\* The tick count has wrapped once at most since the TimeOut_t was set.
LooksInTime == instant < ((looked \div Turn) + 2) * Turn

(* Woken without what it waits for, the task returns if it is told that    *)
(* its time has come and waits for what is left otherwise.  A look that    *)
(* comes too late to tell begins the wait anew.                            *)
xTaskCheckForTimeOut ==
    /\ xTicksToWait # 0
    /\ \/ /\ TimedOut
          /\ xTicksToWait' = 0
          /\ UNCHANGED <<xTimeOnEntering, xOverflowCount, looked, deadline>>
       \/ /\ ~TimedOut /\ xTicksToWait = portMAX_DELAY
          /\ UNCHANGED <<xTicksToWait, xTimeOnEntering, xOverflowCount, looked, deadline>>
       \/ /\ ~TimedOut /\ xTicksToWait # portMAX_DELAY
          /\ xTicksToWait' = xTicksToWait - Elapsed
          /\ vTaskSetTimeOutState
          /\ deadline' = IF LooksInTime THEN deadline ELSE instant + xTicksToWait'
    /\ UNCHANGED <<instant, periodicVars>>

\* Mutant: the tick count is compared as if it never wrapped.
ShouldDelayWithoutWrap(previous, wake) == wake > xTickCount

ShouldDelay(previous, wake) ==
    IF xTickCount < previous THEN wake < previous /\ wake > xTickCount
                             ELSE wake < previous \/ wake > xTickCount

\* xTimeToWake of vTaskDelayUntil.
WakeTime == (pxPreviousWakeTime + xTimeIncrement) % Turn

\* When the delay that vTaskDelayUntil begins now would end, 0 if it begins none.
DelayEnd ==
    IF ShouldDelay(pxPreviousWakeTime, WakeTime)
    THEN instant + ((WakeTime - xTickCount) % Turn)
    ELSE 0

vTaskDelayUntil ==
    /\ wakeAt = 0
    /\ wakeAt' = DelayEnd /\ pxPreviousWakeTime' = WakeTime
    /\ released' = released + xTimeIncrement
    /\ UNCHANGED <<instant, timeOutVars, xTimeIncrement>>

WaitNext ==
    \/ CountTick \/ (\E limit \in WaitLimits : BeginWait(limit)) \/ EndWait \/ xTaskCheckForTimeOut
    \/ vTaskDelayUntil

-----------------------------------------------------------------------------
(* The computations agree with time that does not wrap.  A waiting task is *)
(* never told that its limit has come when it has not, and is told when it *)
(* has, however often it was woken in vain before, if it looks before the  *)
(* tick count wraps a second time after the TimeOut_t was set: at least a  *)
(* full turn later, whatever the limit.  A call of vTaskDelayUntil less    *)
(* than a turn after the task's period began delays to the exact end of    *)
(* the period just if that is still to come, so that the periods do not    *)
(* drift and none is lost when the task is late.                           *)
WaitsAreExact ==
    /\ xTicksToWait # 0 /\ TimedOut => deadline <= instant
    /\ xTicksToWait \notin {0, portMAX_DELAY} /\ LooksInTime /\ deadline <= instant => TimedOut
    /\ wakeAt = 0 /\ instant < released + Turn =>
         DelayEnd = IF released + xTimeIncrement > instant THEN released + xTimeIncrement ELSE 0
    /\ wakeAt = 0 => released <= instant
    /\ pxPreviousWakeTime = released % Turn
=============================================================================
