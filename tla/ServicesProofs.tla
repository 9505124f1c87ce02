--------------------------- MODULE ServicesProofs ---------------------------
(***************************************************************************)
(* Theorems about the services above the scheduler.  For any width of the  *)
(* tick count, time limits and periods: the computations of Waits agree    *)
(* with a time that does not wrap.  For any heap and requests: the         *)
(* allocator of Heap4 keeps the heap partitioned.  For any timers, periods *)
(* and width of the tick count: the timer task of Timers keeps its lists   *)
(* in step with the times the application was promised.  For any event     *)
(* group: nobody waits for bits that are set, and the members of a         *)
(* rendezvous go together.                                                 *)
(***************************************************************************)
EXTENDS Timers, Waits, Heap4, EventGroups, ListTheorems, FiniteSetTheorems

-----------------------------------------------------------------------------
(* Remainders.                                                             *)

\* Quotient and remainder make up the number.
LEMMA Division ==
    ASSUME NEW T \in Int, T > 0, NEW n \in Int
    PROVE  /\ n % T \in 0 .. T - 1 /\ n \div T \in Int
           /\ n = (n \div T) * T + (n % T)
<1>1. n % T \in 0 .. T - 1 /\ n \div T \in Int
  OBVIOUS
<1>2. n = (n \div T) * T + (n % T)
  BY SMTT(30)
<1> QED BY <1>1, <1>2

\* There is one quotient and one remainder.
LEMMA OneDivision ==
    ASSUME NEW T \in Int, T > 0, NEW a \in Int, NEW b \in Int,
           NEW r \in 0 .. T - 1, NEW s \in 0 .. T - 1, a * T + r = b * T + s
    PROVE  a = b /\ r = s
OBVIOUS

\* The remainder of a number that is at most one turn off.
LEMMA NearRemainder ==
    ASSUME NEW T \in Int, T > 0, NEW n \in Int
    PROVE  /\ n \in 0 .. T - 1 => n % T = n
           /\ n \in T .. 2 * T - 1 => n % T = n - T
           /\ n \in -T .. -1 => n % T = n + T
<1>1. /\ n % T \in 0 .. T - 1 /\ n \div T \in Int
      /\ n = (n \div T) * T + (n % T)
  BY Division
<1>2. ASSUME n \in 0 .. T - 1 PROVE n % T = n
  <2>1. (n \div T) * T + (n % T) = 0 * T + n
    BY <1>1, <1>2
  <2> QED BY <1>1, <1>2, <2>1, OneDivision
<1>3. ASSUME n \in T .. 2 * T - 1 PROVE n % T = n - T
  <2>1. n - T \in 0 .. T - 1 /\ (n \div T) * T + (n % T) = 1 * T + (n - T)
    BY <1>1, <1>3
  <2> QED BY <1>1, <2>1, OneDivision
<1>4. ASSUME n \in -T .. -1 PROVE n % T = n + T
  <2>1. n + T \in 0 .. T - 1 /\ (n \div T) * T + (n % T) = (-1) * T + (n + T)
    BY <1>1, <1>4
  <2> QED BY <1>1, <2>1, OneDivision
<1> QED BY <1>2, <1>3, <1>4

\* However much later, the difference of the counts is not more than the time that passed;
\* and if the count has wrapped once at most since, it is that time, or the count has gone
\* past what it was, a turn or more later.
LEMMA DifferenceOfCounts ==
    ASSUME NEW T \in Int, T > 0, NEW m \in Int, NEW n \in Int, m <= n,
           NEW gone, gone = ((n % T) - (m % T)) % T,
           NEW past, past <=> n \div T # m \div T /\ n % T >= m % T
    PROVE  /\ gone \in 0 .. T - 1 /\ gone <= n - m
           /\ past => n - m >= T
           /\ n < ((m \div T) + 2) * T => gone = n - m \/ past
<1>1. /\ n % T \in 0 .. T - 1 /\ n \div T \in Int /\ n = (n \div T) * T + (n % T)
      /\ m % T \in 0 .. T - 1 /\ m \div T \in Int /\ m = (m \div T) * T + (m % T)
  BY Division
<1>2. PICK a, b, r, s : a = n \div T /\ b = m \div T /\ r = n % T /\ s = m % T
  OBVIOUS
<1>3. /\ a \in Int /\ b \in Int /\ r \in 0 .. T - 1 /\ s \in 0 .. T - 1
      /\ n = a * T + r /\ m = b * T + s
      /\ gone = (r - s) % T /\ (past <=> a # b /\ r >= s)
  BY <1>1, <1>2
<1>4. gone = IF r >= s THEN r - s ELSE r - s + T
  <2>1. CASE r >= s
    <3>1. r - s \in 0 .. T - 1
      BY <1>3, <2>1
    <3> QED BY <1>3, <2>1, <3>1, NearRemainder
  <2>2. CASE ~(r >= s)
    <3>1. r - s \in -T .. -1
      BY <1>3, <2>2
    <3> QED BY <1>3, <2>2, <3>1, NearRemainder
  <2> QED BY <2>1, <2>2
<1>5. CASE a = b
  <2>1. n - m = r - s /\ r >= s
    BY <1>3, <1>5
  <2>2. gone = n - m /\ gone \in 0 .. T - 1 /\ ~past
    BY <1>3, <1>4, <1>5, <2>1
  <2> QED BY <1>3, <2>2
<1>6. CASE a = b + 1
  <2>1. (b + 1) * T = b * T + T /\ b * T \in Int
    BY <1>3
  <2>2. n - m = T + r - s
    BY <1>3, <1>6, <2>1
  <2>3. /\ gone \in 0 .. T - 1 /\ gone <= n - m
        /\ past => n - m >= T
        /\ gone = n - m \/ past
    BY <1>3, <1>4, <1>6, <2>2
  <2> QED BY <2>3
<1>7. CASE a >= b + 2
  <2>1. a * T >= (b + 2) * T /\ (b + 2) * T = b * T + 2 * T
    BY <1>3, <1>7
  <2>2. a * T \in Int /\ b * T \in Int
    BY <1>3
  <2>3. n >= (b + 2) * T /\ n - m >= 2 * T + r - s
    BY <1>3, <2>1, <2>2
  <2> QED BY <1>2, <1>3, <1>4, <2>1, <2>2, <2>3
<1>8. ~(a < b)
  <2>1. SUFFICES ASSUME a < b PROVE FALSE
    OBVIOUS
  <2>2. a * T <= (b - 1) * T /\ (b - 1) * T = b * T - T
    BY <1>3, <2>1
  <2>3. a * T \in Int /\ b * T \in Int
    BY <1>3
  <2> QED BY <1>3, <2>2, <2>3
<1> QED BY <1>3, <1>5, <1>6, <1>7, <1>8

\* Less than a turn later the count is ahead by the time that passed, or it has wrapped
\* once and is behind what it was.
LEMMA WithinOneTurn ==
    ASSUME NEW T \in Int, T > 0, NEW m \in Int, NEW n \in Int, m <= n, n < m + T
    PROVE  \/ n \div T = m \div T /\ n % T = (m % T) + (n - m)
           \/ n \div T = m \div T + 1 /\ n % T = (m % T) + (n - m) - T
<1>1. /\ n % T \in 0 .. T - 1 /\ n \div T \in Int /\ n = (n \div T) * T + (n % T)
      /\ m % T \in 0 .. T - 1 /\ m \div T \in Int /\ m = (m \div T) * T + (m % T)
  BY Division
<1>2. PICK a, b, r, s : a = n \div T /\ b = m \div T /\ r = n % T /\ s = m % T
  OBVIOUS
<1>3. /\ a \in Int /\ b \in Int /\ r \in 0 .. T - 1 /\ s \in 0 .. T - 1
      /\ n = a * T + r /\ m = b * T + s
  BY <1>1, <1>2
<1>4. CASE s + (n - m) < T
  <2>1. s + (n - m) \in 0 .. T - 1 /\ a * T + r = b * T + (s + (n - m))
    BY <1>3, <1>4
  <2>2. a = b /\ r = s + (n - m)
    BY <1>3, <2>1, OneDivision
  <2> QED BY <1>2, <2>2
<1>5. CASE ~(s + (n - m) < T)
  <2>1. s + (n - m) - T \in 0 .. T - 1 /\ b + 1 \in Int
    BY <1>3, <1>5
  <2>2. (b + 1) * T = b * T + T /\ b * T \in Int
    BY <1>3
  <2>3. a * T + r = (b + 1) * T + (s + (n - m) - T)
    BY <1>3, <2>2
  <2>4. a = b + 1 /\ r = s + (n - m) - T
    BY <1>3, <2>1, <2>3, OneDivision
  <2> QED BY <1>2, <2>4
<1> QED BY <1>4, <1>5

-----------------------------------------------------------------------------
(* Waits.                                                                  *)

WaitTypes ==
    /\ instant \in Nat /\ looked \in Nat /\ deadline \in Nat
    /\ released \in Nat /\ wakeAt \in Nat
    /\ xTicksToWait \in 0 .. Turn - 1 /\ xTimeIncrement \in Increments

\* The TimeOut_t notes when it was last set, and xTicksToWait is what was left then of a
\* wait with a limit.
TimeOutNoted ==
    /\ xTimeOnEntering = looked % Turn /\ xOverflowCount = looked \div Turn
    /\ looked <= instant
    /\ xTicksToWait \notin {0, portMAX_DELAY} => deadline = looked + xTicksToWait

\* The period that the task notes has begun if it is not delayed, and is the end of its
\* delay otherwise, unless the task came too late for its delay to be exact.
PeriodNoted ==
    /\ pxPreviousWakeTime = released % Turn
    /\ wakeAt = 0 => released <= instant
    /\ wakeAt # 0 => wakeAt = released \/ released <= instant

WaitsInv == WaitTypes /\ TimeOutNoted /\ PeriodNoted

LEMMA TurnType == Turn \in Int /\ Turn > 0 /\ Increments \subseteq 1 .. Turn - 1 /\ WaitLimits \subseteq 1 .. Turn - 1
BY WaitsAssumption

\* In a wait with a limit: the code never takes more time to have passed than has, and
\* when the task looks in time it takes it to be exactly that, or knows that it was more
\* than a turn.
LEMMA ElapsedIsExact ==
    ASSUME WaitsInv,
           NEW past, past <=> (xNumOfOverflows # xOverflowCount /\ xTickCount >= xTimeOnEntering)
    PROVE  /\ Elapsed \in 0 .. Turn - 1 /\ Elapsed <= instant - looked
           /\ past => instant - looked >= Turn
           /\ LooksInTime => Elapsed = instant - looked \/ past
<1>1. /\ instant \in Int /\ looked \in Int /\ looked <= instant
      /\ xTimeOnEntering = looked % Turn /\ xOverflowCount = looked \div Turn
  BY DEF WaitsInv, WaitTypes, TimeOutNoted
<1>2. /\ Elapsed = ((instant % Turn) - (looked % Turn)) % Turn
      /\ past <=> (instant \div Turn # looked \div Turn /\ instant % Turn >= looked % Turn)
  BY <1>1 DEF Elapsed, xTickCount, xNumOfOverflows
<1> QED BY <1>1, <1>2, TurnType, DifferenceOfCounts DEF LooksInTime

\* So the task is never told too early that its limit has come, and told when it has if it
\* looks in time; otherwise something of the limit is left.
LEMMA TimedOutIsExact ==
    ASSUME WaitsInv, xTicksToWait \notin {0, portMAX_DELAY}
    PROVE  /\ TimedOut => deadline <= instant
           /\ LooksInTime /\ deadline <= instant => TimedOut
           /\ ~TimedOut => xTicksToWait - Elapsed \in 1 .. Turn - 1
           /\ ~TimedOut /\ LooksInTime => Elapsed = instant - looked
<1>1. PICK past : past <=> (xNumOfOverflows # xOverflowCount /\ xTickCount >= xTimeOnEntering)
  OBVIOUS
<1>2. TimedOut <=> past \/ Elapsed >= xTicksToWait
  BY <1>1 DEF TimedOut
<1>3. /\ Elapsed \in 0 .. Turn - 1 /\ Elapsed <= instant - looked
      /\ past => instant - looked >= Turn
      /\ LooksInTime => Elapsed = instant - looked \/ past
  BY <1>1, ElapsedIsExact
<1>4. /\ instant \in Int /\ looked \in Int /\ xTicksToWait \in 1 .. Turn - 1 /\ Turn \in Int
      /\ deadline = looked + xTicksToWait
  BY TurnType DEF WaitsInv, WaitTypes, TimeOutNoted
<1> QED BY <1>2, <1>3, <1>4

LEMMA WaitInitInv == WaitInit => WaitsInv
<1> SUFFICES ASSUME WaitInit PROVE WaitsInv
  OBVIOUS
<1>1. instant \in 0 .. Turn - 1 /\ instant < instant + Turn
  BY TurnType DEF WaitInit
<1>2. 0 % Turn = 0 /\ 0 \div Turn = 0
  <2>1. /\ 0 % Turn \in 0 .. Turn - 1 /\ 0 \div Turn \in Int
        /\ (0 \div Turn) * Turn + (0 % Turn) = 0 * Turn + 0
    BY TurnType, Division
  <2>2. 0 \in 0 .. Turn - 1
    BY TurnType
  <2> QED BY <2>1, <2>2, TurnType, OneDivision
<1>3. WaitTypes
  BY <1>1, TurnType DEF WaitInit, WaitTypes
<1> QED BY <1>1, <1>2, <1>3 DEF WaitInit, xTickCount, WaitsInv, TimeOutNoted, PeriodNoted

LEMMA CountTickKeeps == ASSUME WaitsInv, CountTick PROVE WaitsInv'
<1>1. /\ instant' = instant + 1 /\ instant \in Nat /\ looked \in Nat /\ wakeAt \in Nat
      /\ released \in Nat
      /\ wakeAt' = IF wakeAt <= instant + 1 THEN 0 ELSE wakeAt
      /\ UNCHANGED <<xTimeOnEntering, xOverflowCount, xTicksToWait, looked, deadline>>
      /\ UNCHANGED <<pxPreviousWakeTime, xTimeIncrement, released>>
  BY DEF CountTick, timeOutVars, WaitsInv, WaitTypes
<1>2. WaitTypes'
  BY <1>1 DEF WaitsInv, WaitTypes
<1>3. TimeOutNoted'
  BY <1>1 DEF WaitsInv, TimeOutNoted, portMAX_DELAY
<1>4. PeriodNoted'
  BY <1>1 DEF WaitsInv, PeriodNoted
<1> QED BY <1>2, <1>3, <1>4 DEF WaitsInv

\* A wait begins, or goes on with what is left of its limit.
LEMMA WaitStepKeeps ==
    ASSUME WaitsInv, (\E limit \in WaitLimits : BeginWait(limit)) \/ EndWait \/ xTaskCheckForTimeOut
    PROVE  WaitsInv'
<1>1. /\ UNCHANGED <<instant, pxPreviousWakeTime, wakeAt, xTimeIncrement, released>>
      /\ instant \in Nat /\ looked \in Nat /\ looked <= instant
      /\ xTicksToWait \in 0 .. Turn - 1
  BY DEF BeginWait, EndWait, xTaskCheckForTimeOut, periodicVars, WaitsInv, WaitTypes, TimeOutNoted
<1>2. PeriodNoted'
  BY <1>1 DEF WaitsInv, PeriodNoted
<1>3. CASE \E limit \in WaitLimits : BeginWait(limit)
  <2>1. PICK limit \in WaitLimits : BeginWait(limit)
    BY <1>3
  <2>2. /\ xTicksToWait' = limit /\ deadline' = instant + limit /\ looked' = instant
        /\ xTimeOnEntering' = instant % Turn /\ xOverflowCount' = instant \div Turn
        /\ limit \in 1 .. Turn - 1
    BY <2>1, TurnType DEF BeginWait, vTaskSetTimeOutState, xTickCount, xNumOfOverflows
  <2>3. WaitTypes'
    BY <1>1, <2>2 DEF WaitsInv, WaitTypes
  <2>4. TimeOutNoted'
    BY <1>1, <2>2, TurnType DEF TimeOutNoted
  <2> QED BY <1>2, <2>3, <2>4 DEF WaitsInv
<1>4. CASE EndWait \/ (xTaskCheckForTimeOut /\ TimedOut)
  <2>1. /\ xTicksToWait' = 0
        /\ UNCHANGED <<xTimeOnEntering, xOverflowCount, looked, deadline>>
    BY <1>4 DEF EndWait, xTaskCheckForTimeOut
  <2>2. WaitTypes'
    BY <1>1, <2>1, TurnType DEF WaitsInv, WaitTypes
  <2>3. TimeOutNoted'
    BY <1>1, <2>1 DEF WaitsInv, TimeOutNoted
  <2> QED BY <1>2, <2>2, <2>3 DEF WaitsInv
<1>5. CASE xTaskCheckForTimeOut /\ ~TimedOut /\ xTicksToWait = portMAX_DELAY
  <2>1. UNCHANGED <<xTicksToWait, xTimeOnEntering, xOverflowCount, looked, deadline>>
    BY <1>5 DEF xTaskCheckForTimeOut
  <2>2. WaitTypes' /\ TimeOutNoted'
    BY <1>1, <2>1 DEF WaitsInv, WaitTypes, TimeOutNoted, portMAX_DELAY
  <2> QED BY <1>2, <2>2 DEF WaitsInv
<1>6. CASE xTaskCheckForTimeOut /\ ~TimedOut /\ xTicksToWait # portMAX_DELAY
  <2>1. /\ xTicksToWait # 0 /\ xTicksToWait' = xTicksToWait - Elapsed /\ looked' = instant
        /\ xTimeOnEntering' = instant % Turn /\ xOverflowCount' = instant \div Turn
        /\ deadline' = IF LooksInTime THEN deadline ELSE instant + xTicksToWait'
    BY <1>6 DEF xTaskCheckForTimeOut, vTaskSetTimeOutState, xTickCount, xNumOfOverflows
  <2>2. /\ xTicksToWait' \in 1 .. Turn - 1
        /\ LooksInTime => Elapsed = instant - looked
        /\ deadline = looked + xTicksToWait
    BY <1>6, <2>1, TimedOutIsExact DEF WaitsInv, TimeOutNoted
  <2>3. xTicksToWait' \in 1 .. Turn - 1 /\ deadline' = instant + xTicksToWait'
    BY <1>1, <2>1, <2>2, TurnType
  <2>4. WaitTypes'
    BY <1>1, <2>1, <2>3 DEF WaitsInv, WaitTypes
  <2>5. TimeOutNoted'
    BY <1>1, <2>1, <2>3, TurnType DEF TimeOutNoted
  <2> QED BY <1>2, <2>4, <2>5 DEF WaitsInv
<1> QED BY <1>3, <1>4, <1>5, <1>6 DEF xTaskCheckForTimeOut

\* The next wake time is that of the next period.
LEMMA WakeTimeIsExact ==
    ASSUME WaitsInv
    PROVE  WakeTime = (released + xTimeIncrement) % Turn
<1>1. PICK T, r, d, prev, next, later :
        /\ T = Turn /\ r = released /\ d = xTimeIncrement /\ prev = released % Turn
        /\ later = released + xTimeIncrement /\ next = (released + xTimeIncrement) % Turn
  OBVIOUS
<1>2. /\ T \in Int /\ T > 0 /\ r \in Nat /\ d \in 1 .. T - 1
      /\ later = r + d /\ later \in Int
      /\ pxPreviousWakeTime = prev
  BY <1>1, TurnType DEF WaitsInv, WaitTypes, PeriodNoted
<1>3. /\ prev \in 0 .. T - 1 /\ next \in 0 .. T - 1
  BY <1>1, <1>2, Division
<1>4. next = prev + d \/ next = prev + d - T
  <2>1. r <= later /\ later < r + T /\ later - r = d
    BY <1>2
  <2>2. prev = r % T /\ next = later % T
    BY <1>1
  <2>3. \/ later % T = (r % T) + (later - r)
        \/ later % T = (r % T) + (later - r) - T
    BY <1>2, <2>1, WithinOneTurn
  <2> QED BY <2>1, <2>2, <2>3
<1>5. (prev + d) % T = next
  <2>1. CASE prev + d < T
    <3>1. prev + d \in 0 .. T - 1 /\ prev + d \in Int
      BY <1>2, <1>3, <2>1
    <3>2. (prev + d) % T = prev + d
      BY <1>2, <3>1, NearRemainder
    <3>3. next = prev + d
      BY <1>2, <1>3, <1>4, <2>1
    <3> QED BY <3>2, <3>3
  <2>2. CASE ~(prev + d < T)
    <3>1. prev + d \in T .. 2 * T - 1 /\ prev + d \in Int
      BY <1>2, <1>3, <2>2
    <3>2. PICK n \in Int : n = prev + d
      BY <3>1
    <3>3. n % T = n - T
      BY <1>2, <3>1, <3>2, NearRemainder
    <3>4. next = n - T
      BY <1>2, <1>3, <1>4, <2>2, <3>2
    <3>5. (prev + d) % T = n % T
      BY <3>2
    <3> QED BY <3>3, <3>4, <3>5
  <2> QED BY <2>1, <2>2
<1> QED BY <1>1, <1>2, <1>5 DEF WakeTime

\* vTaskDelayUntil, called less than a turn after the period began, delays to its end just
\* if it is still to come.
LEMMA DelayEndIsExact ==
    ASSUME WaitsInv, wakeAt = 0, instant < released + Turn
    PROVE  DelayEnd = IF released + xTimeIncrement > instant
                      THEN released + xTimeIncrement ELSE 0
<1>1. PICK T, r, i, d, prev, now, next, later :
        /\ T = Turn /\ r = released /\ i = instant /\ d = xTimeIncrement
        /\ prev = released % Turn /\ now = instant % Turn
        /\ later = released + xTimeIncrement /\ next = (released + xTimeIncrement) % Turn
  OBVIOUS
<1>2. /\ T \in Int /\ T > 0 /\ r \in Nat /\ i \in Nat /\ d \in 1 .. T - 1
      /\ r <= i /\ i < r + T /\ later = r + d /\ later \in Int
      /\ pxPreviousWakeTime = prev
  BY <1>1, TurnType DEF WaitsInv, WaitTypes, PeriodNoted
<1>3. /\ prev \in 0 .. T - 1 /\ now \in 0 .. T - 1 /\ next \in 0 .. T - 1
  BY <1>1, <1>2, Division
<1>4. now = prev + (i - r) \/ now = prev + (i - r) - T
  BY <1>1, <1>2, WithinOneTurn
<1>5. next = prev + d \/ next = prev + d - T
  <2>1. r <= later /\ later < r + T /\ later - r = d
    BY <1>2
  <2>2. prev = r % T /\ next = later % T
    BY <1>1
  <2>3. \/ later % T = (r % T) + (later - r)
        \/ later % T = (r % T) + (later - r) - T
    BY <1>2, <2>1, WithinOneTurn
  <2> QED BY <2>1, <2>2, <2>3
<1>6. WakeTime = next /\ xTickCount = now
  BY <1>1, WakeTimeIsExact DEF xTickCount
<1>7. (IF now < prev THEN next < prev /\ next > now ELSE next < prev \/ next > now)
        <=> later > i
  <2>1. CASE now < prev
    <3>1. now = prev + (i - r) - T
      BY <1>2, <1>3, <1>4, <2>1
    <3> QED BY <1>2, <1>3, <1>5, <2>1, <3>1
  <2>2. CASE ~(now < prev)
    <3>1. now = prev + (i - r)
      BY <1>2, <1>3, <1>4, <2>2
    <3> QED BY <1>2, <1>3, <1>5, <2>2, <3>1
  <2> QED BY <2>1, <2>2
<1>8. ASSUME later > i PROVE (next - now) % T = later - i
  <2>1. later - i \in 0 .. T - 1 /\ next - now \in Int
    BY <1>2, <1>3, <1>8
  <2>2. next - now = later - i \/ next - now = later - i - T \/ next - now = later - i + T
    BY <1>2, <1>3, <1>4, <1>5
  <2>3. CASE next - now = later - i
    BY <1>2, <2>1, <2>3, NearRemainder
  <2>4. CASE next - now = later - i - T
    <3>1. next - now \in -T .. -1
      BY <1>2, <2>1, <2>4
    <3>2. (next - now) % T = (next - now) + T
      BY <1>2, <2>1, <3>1, NearRemainder
    <3> QED BY <1>2, <2>1, <2>4, <3>2
  <2>5. CASE next - now = later - i + T
    BY <1>2, <1>3, <1>8, <2>5
  <2> QED BY <2>2, <2>3, <2>4, <2>5
<1>9. /\ ShouldDelay(pxPreviousWakeTime, WakeTime) <=> later > i
      /\ later > i => instant + ((WakeTime - xTickCount) % Turn) = later
  <2>1. ShouldDelay(pxPreviousWakeTime, WakeTime) <=> later > i
    BY <1>2, <1>6, <1>7 DEF ShouldDelay
  <2>2. later > i => (next - now) % T = later - i
    BY <1>8
  <2> QED BY <1>1, <1>2, <1>6, <2>1, <2>2
<1> QED BY <1>1, <1>9 DEF DelayEnd

LEMMA WaitsInvGives == WaitsInv => WaitsAreExact
<1> SUFFICES ASSUME WaitsInv PROVE WaitsAreExact
  OBVIOUS
<1>1. ASSUME xTicksToWait # 0, TimedOut PROVE deadline <= instant
  <2>1. xTicksToWait # portMAX_DELAY
    BY <1>1 DEF TimedOut
  <2> QED BY <1>1, <2>1, TimedOutIsExact
<1>2. ASSUME xTicksToWait \notin {0, portMAX_DELAY}, LooksInTime, deadline <= instant
      PROVE  TimedOut
  BY <1>2, TimedOutIsExact
<1> QED BY <1>1, <1>2, DelayEndIsExact DEF WaitsInv, PeriodNoted, WaitsAreExact

LEMMA DelayUntilKeeps == ASSUME WaitsInv, vTaskDelayUntil PROVE WaitsInv'
<1>1. /\ wakeAt = 0 /\ wakeAt' = DelayEnd /\ pxPreviousWakeTime' = WakeTime
      /\ released' = released + xTimeIncrement
      /\ UNCHANGED <<instant, xTimeIncrement>>
      /\ UNCHANGED <<xTimeOnEntering, xOverflowCount, xTicksToWait, looked, deadline>>
  BY DEF vTaskDelayUntil, timeOutVars
<1>2. /\ instant \in Nat /\ released \in Nat /\ xTimeIncrement \in 1 .. Turn - 1
      /\ released <= instant /\ Turn \in Int /\ Turn > 0
  BY <1>1, TurnType DEF WaitsInv, WaitTypes, PeriodNoted
<1>3. DelayEnd \in Nat
  <2>1. (WakeTime - xTickCount) % Turn \in Nat
    <3>1. WakeTime \in Int /\ xTickCount \in Int
      BY <1>2, WakeTimeIsExact, Division DEF xTickCount
    <3>2. WakeTime - xTickCount \in Int
      BY <3>1
    <3> QED BY <1>2, <3>2, Division
  <2> QED BY <1>2, <2>1 DEF DelayEnd
<1>4. DelayEnd = released' \/ released' <= instant
  BY <1>1, <1>2, DelayEndIsExact
<1>5. DelayEnd = 0 => released' <= instant
  BY <1>1, <1>2, DelayEndIsExact
<1>6. WaitTypes'
  BY <1>1, <1>2, <1>3 DEF WaitsInv, WaitTypes
<1>7. TimeOutNoted'
  BY <1>1 DEF WaitsInv, TimeOutNoted, portMAX_DELAY
<1>8. PeriodNoted'
  BY <1>1, <1>4, <1>5, WakeTimeIsExact DEF PeriodNoted
<1> QED BY <1>6, <1>7, <1>8 DEF WaitsInv

LEMMA WaitNextKeeps == WaitsInv /\ [WaitNext]_waitVars => WaitsInv'
<1> SUFFICES ASSUME WaitsInv, [WaitNext]_waitVars PROVE WaitsInv'
  OBVIOUS
<1>1. CASE UNCHANGED waitVars
  BY <1>1 DEF waitVars, timeOutVars, periodicVars, WaitsInv, WaitTypes, TimeOutNoted, PeriodNoted,
              portMAX_DELAY
<1> QED BY <1>1, CountTickKeeps, WaitStepKeeps, DelayUntilKeeps DEF WaitNext

\* xTaskCheckForTimeOut and vTaskDelayUntil decide from counts that wrap, of any width,
\* what a clock that does not wrap would tell them.  However often a task is woken in vain,
\* and however late it looks, it is not told too early that its limit has come; it is told
\* when it has if it looks before the second wrap of the tick count since it last looked.
\* A period is delayed to just if it is ahead, if the task calls less than a turn after the
\* one before it.
THEOREM TimesAreExact == WaitInit /\ [][WaitNext]_waitVars => []WaitsAreExact
<1> QED BY WaitInitInv, WaitNextKeeps, WaitsInvGives, PTL
-----------------------------------------------------------------------------
(* Sums over sets of blocks.  MapThenSumSet takes the blocks one by one in *)
(* an order that is not known; that the order does not matter is shown     *)
(* for a least number of blocks for which it would.                        *)

\* The sum of sizes over s when those over smaller sets are given by sums.
Extended(sums, sizes, s) ==
    IF s = {} THEN 0 ELSE sizes[CHOOSE x \in s : TRUE] + sums[s \ {CHOOSE x \in s : TRUE}]

\* Sums over the subsets of S, as MapThenSumSet computes them.
SumsUp(sums, sizes, S) == sums = [s \in SUBSET S |-> Extended(sums, sizes, s)]

LEMMA Chosen == ASSUME NEW s, s # {} PROVE (CHOOSE x \in s : TRUE) \in s
OBVIOUS

LEMMA TotalIsSum ==
    ASSUME NEW sizes, NEW S
    PROVE  TotalSize(sizes, S) = (CHOOSE sums : SumsUp(sums, sizes, S))[S]
BY DEF TotalSize, MapThenSumSet, MapThenFoldSet, SumsUp, Extended

\* A set of natural numbers without a least element is empty.
LEMMA NoLeast ==
    ASSUME NEW B \in SUBSET Nat, \A n \in B : \E k \in B : k < n
    PROVE  B = {}
<1> SUFFICES ASSUME B # {} PROVE FALSE
  OBVIOUS
<1>1. PICK least \in B : \A y \in B : least <= y
  BY MinExists
<1>2. PICK k \in B : k < least
  BY <1>1
<1>3. least <= k /\ least \in Nat /\ k \in Nat
  BY <1>1
<1> QED BY <1>2, <1>3

\* A subset of a finite set, and what is left of it without its chosen element.
LEMMA LessChosen ==
    ASSUME NEW S, IsFiniteSet(S), NEW s \in SUBSET S
    PROVE  /\ IsFiniteSet(s) /\ Cardinality(s) \in Nat
           /\ \A y \in s : /\ s \ {y} \in SUBSET S
                           /\ Cardinality(s \ {y}) = Cardinality(s) - 1
                           /\ Cardinality(s) > 0
           /\ s # {} => (CHOOSE x \in s : TRUE) \in s
<1>1. IsFiniteSet(s)
  BY FS_Subset
<1>2. Cardinality(s) \in Nat
  BY <1>1, FS_CardinalityType
<1>3. ASSUME NEW y \in s
      PROVE  /\ s \ {y} \in SUBSET S /\ Cardinality(s \ {y}) = Cardinality(s) - 1
             /\ Cardinality(s) > 0
  <2>1. Cardinality(s \ {y}) = Cardinality(s) - 1
    BY <1>1, FS_RemoveElement
  <2>2. Cardinality(s) # 0
    BY <1>1, FS_EmptySet
  <2> QED BY <1>2, <2>1, <2>2
<1>4. s # {} => (CHOOSE x \in s : TRUE) \in s
  BY Chosen
<1> QED BY <1>1, <1>2, <1>3, <1>4

\* Two ways to compute sums agree on a set of blocks of the same sizes.
LEMMA SumsAgree ==
    ASSUME NEW S, IsFiniteSet(S), NEW T, IsFiniteSet(T), NEW U, U \subseteq S, U \subseteq T,
           NEW sizes, NEW others, \A x \in U : sizes[x] = others[x],
           NEW sums, SumsUp(sums, sizes, S), NEW sums2, SumsUp(sums2, others, T)
    PROVE  \A s \in SUBSET U : sums[s] = sums2[s]
<1> DEFINE Bad == {n \in Nat : \E s \in SUBSET U : Cardinality(s) = n /\ sums[s] # sums2[s]}
<1>1. ASSUME NEW n \in Bad PROVE \E k \in Bad : k < n
  <2>1. PICK s \in SUBSET U : Cardinality(s) = n /\ sums[s] # sums2[s]
    OBVIOUS
  <2> DEFINE x == CHOOSE y \in s : TRUE
  <2>2. s \in SUBSET S /\ s \in SUBSET T
    OBVIOUS
  <2>3. sums[s] = Extended(sums, sizes, s) /\ sums2[s] = Extended(sums2, others, s)
    BY <2>2 DEF SumsUp
  <2>4. s # {}
    BY <2>1, <2>3 DEF Extended
  <2>5. x \in s
    BY <2>4, LessChosen, <2>2
  <2>6. sizes[x] = others[x]
    BY <2>5
  <2>7. sums[s \ {x}] # sums2[s \ {x}]
    BY <2>1, <2>3, <2>4, <2>6 DEF Extended
  <2>8. Cardinality(s \ {x}) \in Nat /\ Cardinality(s \ {x}) < n /\ s \ {x} \in SUBSET U
    <3>1. Cardinality(s) \in Nat /\ Cardinality(s \ {x}) = Cardinality(s) - 1 /\ Cardinality(s) > 0
      BY <2>2, <2>5, LessChosen
    <3> HIDE DEF x
    <3> QED BY <2>1, <3>1
  <2> HIDE DEF x
  <2> QED BY <2>7, <2>8
<1>2. Bad \in SUBSET Nat
  OBVIOUS
<1>3. Bad = {}
  <2> HIDE DEF Bad
  <2> QED BY <1>1, <1>2, NoLeast
<1> TAKE s \in SUBSET U
<1>4. Cardinality(s) \in Nat
  BY LessChosen
<1> QED BY <1>3, <1>4

\* There are sums, and they are natural numbers.
LEMMA SumsExist ==
    ASSUME NEW S, IsFiniteSet(S), NEW sizes, \A x \in S : sizes[x] \in Nat
    PROVE  \E sums \in [SUBSET S -> Nat] : SumsUp(sums, sizes, S)
<1> DEFINE Upto(n) == \E sums \in [SUBSET S -> Nat] : \A s \in SUBSET S :
                         Cardinality(s) <= n => sums[s] = Extended(sums, sizes, s)
           Bad == {n \in Nat : ~Upto(n)}
<1>1. ASSUME NEW s \in SUBSET S, s # {}
      PROVE  /\ (CHOOSE x \in s : TRUE) \in s
             /\ s \ {CHOOSE x \in s : TRUE} \in SUBSET S
             /\ Cardinality(s) \in Nat /\ Cardinality(s) > 0
             /\ Cardinality(s \ {CHOOSE x \in s : TRUE}) = Cardinality(s) - 1
  BY <1>1, LessChosen
<1>2. Upto(0)
  <2>1. ASSUME NEW s \in SUBSET S, Cardinality(s) <= 0 PROVE s = {}
    <3>1. s # {} => Cardinality(s) \in Nat /\ Cardinality(s) > 0
      BY LessChosen
    <3> QED BY <2>1, <3>1
  <2>2. [s \in SUBSET S |-> 0] \in [SUBSET S -> Nat]
    OBVIOUS
  <2> QED BY <2>1, <2>2 DEF Extended
<1>3. ASSUME NEW n \in Nat, Upto(n) PROVE Upto(n + 1)
  <2>1. PICK sums \in [SUBSET S -> Nat] : \A s \in SUBSET S :
          Cardinality(s) <= n => sums[s] = Extended(sums, sizes, s)
    BY <1>3
  <2> DEFINE new == [s \in SUBSET S |-> IF Cardinality(s) <= n THEN sums[s]
                                        ELSE Extended(sums, sizes, s)]
  <2>2. ASSUME NEW s \in SUBSET S PROVE Extended(sums, sizes, s) \in Nat
    <3>1. CASE s = {}
      BY <3>1 DEF Extended
    <3>2. CASE s # {}
      <4>1. sizes[CHOOSE x \in s : TRUE] \in Nat /\ sums[s \ {CHOOSE x \in s : TRUE}] \in Nat
        BY <1>1, <3>2
      <4> QED BY <3>2, <4>1 DEF Extended
    <3> QED BY <3>1, <3>2
  <2>3. new \in [SUBSET S -> Nat]
    BY <2>2
  <2>4. ASSUME NEW s \in SUBSET S, Cardinality(s) <= n + 1
        PROVE  new[s] = Extended(new, sizes, s)
    <3>1. new[s] = Extended(sums, sizes, s)
      BY <2>1
    <3>2. CASE s = {}
      BY <3>1, <3>2 DEF Extended
    <3>3. CASE s # {}
      <4>1. Cardinality(s \ {CHOOSE x \in s : TRUE}) <= n /\ s \ {CHOOSE x \in s : TRUE} \in SUBSET S
        BY <1>1, <2>4, <3>3
      <4>2. new[s \ {CHOOSE x \in s : TRUE}] = sums[s \ {CHOOSE x \in s : TRUE}]
        BY <4>1
      <4> QED BY <3>1, <3>3, <4>2 DEF Extended
    <3> QED BY <3>2, <3>3
  <2> HIDE DEF new
  <2> QED BY <2>3, <2>4
<1>4. ASSUME NEW n \in Bad PROVE \E k \in Bad : k < n
  <2>1. n # 0
    BY <1>2
  <2>2. n - 1 \in Nat /\ n - 1 < n /\ n = (n - 1) + 1
    BY <2>1
  <2>3. ~Upto(n - 1)
    BY <1>3, <2>2
  <2> HIDE DEF Upto
  <2> QED BY <2>2, <2>3
<1>5. Bad = {}
  <2>1. Bad \in SUBSET Nat
    OBVIOUS
  <2> HIDE DEF Bad
  <2> QED BY <1>4, <2>1, NoLeast
<1>6. Cardinality(S) \in Nat
  BY LessChosen
<1>7. Upto(Cardinality(S))
  <2> HIDE DEF Upto
  <2> QED BY <1>5, <1>6
<1>8. PICK sums \in [SUBSET S -> Nat] : \A s \in SUBSET S :
        Cardinality(s) <= Cardinality(S) => sums[s] = Extended(sums, sizes, s)
  BY <1>7
<1>9. \A s \in SUBSET S : sums[s] = Extended(sums, sizes, s)
  BY <1>8, FS_Subset
<1> QED BY <1>9 DEF SumsUp

\* Whatever block is taken first.
LEMMA SumsTakeAny ==
    ASSUME NEW S, IsFiniteSet(S), NEW sizes, \A x \in S : sizes[x] \in Nat,
           NEW sums \in [SUBSET S -> Nat], SumsUp(sums, sizes, S)
    PROVE  \A s \in SUBSET S : \A y \in s : sums[s] = sizes[y] + sums[s \ {y}]
<1> DEFINE AnyFirst(s) == \A y \in s : sums[s] = sizes[y] + sums[s \ {y}]
           Bad == {n \in Nat : \E s \in SUBSET S : Cardinality(s) = n /\ ~AnyFirst(s)}
<1>1. ASSUME NEW n \in Bad PROVE \E k \in Bad : k < n
  <2>1. PICK s \in SUBSET S : Cardinality(s) = n /\ ~AnyFirst(s)
    OBVIOUS
  <2>2. PICK y \in s : sums[s] # sizes[y] + sums[s \ {y}]
    BY <2>1
  <2>3. PICK x \in s : sums[s] = sizes[x] + sums[s \ {x}]
    <3>1. s # {}
      BY <2>2
    <3>2. (CHOOSE z \in s : TRUE) \in s
      BY <3>1, LessChosen
    <3>3. sums[s] = Extended(sums, sizes, s)
      BY DEF SumsUp
    <3> QED BY <3>1, <3>2, <3>3 DEF Extended
  <2>4. x # y
    BY <2>2, <2>3
  <2> DEFINE less == s \ {x}
             other == s \ {y}
  <2>5. /\ less \in SUBSET S /\ Cardinality(less) < n /\ Cardinality(less) \in Nat /\ y \in less
        /\ other \in SUBSET S /\ Cardinality(other) < n /\ Cardinality(other) \in Nat /\ x \in other
    <3>1. /\ less \in SUBSET S /\ Cardinality(less) = n - 1
          /\ other \in SUBSET S /\ Cardinality(other) = n - 1
      BY <2>1, LessChosen
    <3>2. Cardinality(less) \in Nat /\ Cardinality(other) \in Nat
      BY <3>1, LessChosen
    <3>3. y \in less /\ x \in other
      BY <2>4
    <3> HIDE DEF less, other
    <3> QED BY <3>1, <3>2, <3>3
  <2>6. less \ {y} = other \ {x} /\ less \ {y} \in SUBSET S
    OBVIOUS
  <2>7. sizes[x] \in Nat /\ sizes[y] \in Nat /\ sums[less \ {y}] \in Nat
    BY <2>6
  <2>8. ~(AnyFirst(less) /\ AnyFirst(other))
    <3> SUFFICES ASSUME AnyFirst(less), AnyFirst(other) PROVE FALSE
      OBVIOUS
    <3>1. sums[less] = sizes[y] + sums[less \ {y}]
      BY <2>5
    <3>2. sums[other] = sizes[x] + sums[less \ {y}]
      BY <2>5, <2>6
    <3> HIDE DEF less, other, AnyFirst
    <3>3. sums[s] = sizes[x] + sums[less] /\ sums[s] # sizes[y] + sums[other]
      BY <2>2, <2>3 DEF less, other
    <3> QED BY <2>7, <3>1, <3>2, <3>3
  <2> HIDE DEF less, other, AnyFirst
  <2> QED BY <2>5, <2>8
<1>2. Bad = {}
  <2>1. Bad \in SUBSET Nat
    OBVIOUS
  <2> HIDE DEF Bad
  <2> QED BY <1>1, <2>1, NoLeast
<1> SUFFICES ASSUME NEW s \in SUBSET S PROVE AnyFirst(s)
  OBVIOUS
<1>3. Cardinality(s) \in Nat
  BY LessChosen
<1> HIDE DEF AnyFirst
<1> QED BY <1>2, <1>3

\* The sum of the sizes is computed by sums over all sets that hold the blocks.
LEMMA TotalBySums ==
    ASSUME NEW S, IsFiniteSet(S), NEW sizes, \A x \in S : sizes[x] \in Nat,
           NEW U \in SUBSET S, NEW sums, SumsUp(sums, sizes, S)
    PROVE  TotalSize(sizes, U) = sums[U]
<1>1. IsFiniteSet(U) /\ \A x \in U : sizes[x] \in Nat
  BY FS_Subset
<1>2. \E own : SumsUp(own, sizes, U)
  BY <1>1, SumsExist
<1> DEFINE own == CHOOSE f : SumsUp(f, sizes, U)
<1>3. SumsUp(own, sizes, U)
  BY <1>2
<1>4. own[U] = sums[U]
  <2> HIDE DEF own
  <2> QED BY <1>1, <1>3, SumsAgree
<1> QED BY <1>4, TotalIsSum

\* One block more.
LEMMA TotalAdds ==
    ASSUME NEW S, IsFiniteSet(S), NEW sizes, \A x \in S : sizes[x] \in Nat, NEW y \in S
    PROVE  /\ TotalSize(sizes, S) \in Nat /\ TotalSize(sizes, S \ {y}) \in Nat
           /\ TotalSize(sizes, S) = sizes[y] + TotalSize(sizes, S \ {y})
<1>1. PICK sums \in [SUBSET S -> Nat] : SumsUp(sums, sizes, S)
  BY SumsExist
<1>2. TotalSize(sizes, S) = sums[S] /\ TotalSize(sizes, S \ {y}) = sums[S \ {y}]
  BY <1>1, TotalBySums
<1>3. sums[S] = sizes[y] + sums[S \ {y}]
  BY <1>1, SumsTakeAny
<1> QED BY <1>1, <1>2, <1>3

\* The sizes of other blocks do not matter.
LEMMA TotalSame ==
    ASSUME NEW S, IsFiniteSet(S), NEW sizes, \A x \in S : sizes[x] \in Nat,
           NEW others, \A x \in S : others[x] = sizes[x]
    PROVE  TotalSize(others, S) = TotalSize(sizes, S)
<1>1. PICK sums \in [SUBSET S -> Nat] : SumsUp(sums, sizes, S)
  BY SumsExist
<1>2. PICK sums2 \in [SUBSET S -> Nat] : SumsUp(sums2, others, S)
  <2>1. \A x \in S : others[x] \in Nat
    OBVIOUS
  <2> QED BY <2>1, SumsExist
<1>3. sums[S] = sums2[S]
  BY <1>1, <1>2, SumsAgree
<1>4. TotalSize(sizes, S) = sums[S]
  BY <1>1, TotalBySums
<1>5. TotalSize(others, S) = sums2[S]
  BY <1>2, TotalBySums
<1> QED BY <1>3, <1>4, <1>5

\* One block.
LEMMA TotalOfOne ==
    ASSUME NEW sizes, NEW y, sizes[y] \in Nat
    PROVE  TotalSize(sizes, {y}) = sizes[y]
<1>1. TotalSize(sizes, {}) = 0
  <2>1. PICK S : S = {}
    OBVIOUS
  <2>2. IsFiniteSet(S) /\ S \in SUBSET S /\ \A x \in S : sizes[x] \in Nat
    BY <2>1, FS_EmptySet
  <2>3. PICK sums \in [SUBSET S -> Nat] : SumsUp(sums, sizes, S)
    BY <2>2, SumsExist
  <2>4. TotalSize(sizes, S) = sums[S]
    BY <2>2, <2>3, TotalBySums
  <2>5. sums[S] = 0
    BY <2>1, <2>2, <2>3 DEF SumsUp, Extended
  <2> QED BY <2>1, <2>4, <2>5
<1>2. PICK S : S = {y}
  OBVIOUS
<1>3. IsFiniteSet(S)
  BY <1>2, FS_Singleton
<1>4. \A x \in S : sizes[x] \in Nat
  BY <1>2
<1>5. y \in S
  BY <1>2
<1>6. TotalSize(sizes, S) = sizes[y] + TotalSize(sizes, S \ {y})
  BY <1>3, <1>4, <1>5, TotalAdds
<1>7. S \ {y} = {}
  BY <1>2
<1> QED BY <1>1, <1>2, <1>6, <1>7
-----------------------------------------------------------------------------
(* Lists of blocks in the order of their addresses.                        *)

Ascending(seq) == \A i, j \in DOMAIN seq : i < j => seq[i] < seq[j]

\* The part of a list from one place to another.
LEMMA PartAscends ==
    ASSUME NEW seq \in Seq(Nat), Ascending(seq),
           NEW m \in 1 .. Len(seq) + 1, NEW n \in 0 .. Len(seq), m <= n + 1
    PROVE  /\ SubSeq(seq, m, n) \in Seq(Nat) /\ Ascending(SubSeq(seq, m, n))
           /\ Len(SubSeq(seq, m, n)) = n - m + 1
           /\ \A i \in 1 .. n - m + 1 : SubSeq(seq, m, n)[i] = seq[m + i - 1]
           /\ ToSet(SubSeq(seq, m, n)) = {seq[i] : i \in m .. n}
<1>1. Len(seq) \in Nat /\ DOMAIN seq = 1 .. Len(seq) /\ \A i \in 1 .. Len(seq) : seq[i] \in Nat
  BY LenProperties, ElementOfSeq
<1>2. PICK part : part = SubSeq(seq, m, n)
  OBVIOUS
<1>3. PICK len : len = n - m + 1
  OBVIOUS
<1>4. len \in Nat /\ \A i \in 1 .. len : m + i - 1 \in 1 .. Len(seq) /\ m + i - 1 \in m .. n
  BY <1>1, <1>3
<1>5. /\ part \in Seq(Nat) /\ Len(part) = len /\ DOMAIN part = 1 .. len
      /\ \A i \in 1 .. len : part[i] = seq[m + i - 1]
  <2>1. \A i \in m .. n : seq[i] \in Nat
    BY <1>1
  <2>2. /\ part \in Seq(Nat) /\ Len(part) = IF m <= n THEN n - m + 1 ELSE 0
        /\ \A i \in 1 .. n - m + 1 : part[i] = seq[m + i - 1]
    BY <1>1, <1>2, <2>1, SubSeqProperties
  <2> QED BY <1>1, <1>3, <2>2, LenProperties
<1>6. Ascending(part)
  <2> SUFFICES ASSUME NEW i \in 1 .. len, NEW j \in 1 .. len, i < j PROVE part[i] < part[j]
    BY <1>5 DEF Ascending
  <2>1. m + i - 1 < m + j - 1 /\ m + i - 1 \in DOMAIN seq /\ m + j - 1 \in DOMAIN seq
    BY <1>1, <1>4
  <2>2. seq[m + i - 1] < seq[m + j - 1]
    BY <2>1 DEF Ascending
  <2> QED BY <1>5, <2>2
<1>7. ToSet(part) = {seq[i] : i \in m .. n}
  <2>1. ASSUME NEW i \in m .. n PROVE seq[i] \in ToSet(part)
    <3>1. PICK k : k = i - m + 1
      OBVIOUS
    <3>2. k \in 1 .. len /\ m + k - 1 = i
      BY <1>3, <3>1
    <3> QED BY <1>5, <3>2 DEF ToSet
  <2>2. ASSUME NEW i \in 1 .. len PROVE part[i] \in {seq[k] : k \in m .. n}
    BY <1>4, <1>5
  <2> QED BY <1>5, <2>1, <2>2 DEF ToSet
<1> QED BY <1>2, <1>3, <1>4, <1>5, <1>6, <1>7

\* One list behind another.
LEMMA JoinAscends ==
    ASSUME NEW s \in Seq(Nat), NEW t \in Seq(Nat), Ascending(s), Ascending(t),
           \A x \in ToSet(s), y \in ToSet(t) : x < y
    PROVE  s \o t \in Seq(Nat) /\ Ascending(s \o t) /\ ToSet(s \o t) = ToSet(s) \cup ToSet(t)
<1>1. PICK both : both = s \o t
  OBVIOUS
<1>2. PICK m, n : m = Len(s) /\ n = Len(t)
  OBVIOUS
<1>3. /\ m \in Nat /\ n \in Nat /\ DOMAIN s = 1 .. m /\ DOMAIN t = 1 .. n
      /\ both \in Seq(Nat) /\ DOMAIN both = 1 .. m + n
      /\ \A i \in 1 .. m : both[i] = s[i]
      /\ \A i \in 1 .. n : both[m + i] = t[i]
  BY <1>1, <1>2, LenProperties, ConcatProperties
<1>4. ASSUME NEW i \in 1 .. m + n
      PROVE  \/ i \in 1 .. m /\ both[i] = s[i]
             \/ i - m \in 1 .. n /\ both[i] = t[i - m]
  <2>1. CASE i <= m
    BY <1>3, <2>1
  <2>2. CASE i > m
    <3>1. PICK k : k = i - m
      OBVIOUS
    <3>2. k \in 1 .. n /\ m + k = i
      BY <1>3, <2>2, <3>1
    <3> QED BY <1>3, <3>1, <3>2
  <2> QED BY <1>3, <2>1, <2>2
<1>5. Ascending(both)
  <2> SUFFICES ASSUME NEW i \in 1 .. m + n, NEW j \in 1 .. m + n, i < j
               PROVE  both[i] < both[j]
    BY <1>3 DEF Ascending
  <2>1. CASE i \in 1 .. m /\ j \in 1 .. m
    BY <1>3, <2>1 DEF Ascending
  <2>2. CASE i \in 1 .. m /\ j - m \in 1 .. n
    <3>1. both[i] = s[i] /\ both[j] = t[j - m]
      BY <1>3, <1>4, <2>2
    <3> QED BY <1>3, <2>2, <3>1 DEF ToSet
  <2>3. CASE i - m \in 1 .. n /\ j - m \in 1 .. n
    <3>1. both[i] = t[i - m] /\ both[j] = t[j - m] /\ i - m < j - m
      BY <1>3, <1>4, <2>3
    <3>2. i - m \in DOMAIN t /\ j - m \in DOMAIN t
      BY <1>3, <2>3
    <3>3. t[i - m] < t[j - m]
      BY <3>1, <3>2 DEF Ascending
    <3> QED BY <3>1, <3>3
  <2> QED BY <1>3, <1>4, <2>1, <2>2, <2>3
<1>6. ToSet(both) = ToSet(s) \cup ToSet(t)
  <2>1. ASSUME NEW i \in 1 .. m PROVE s[i] \in ToSet(both)
    <3>1. i \in 1 .. m + n /\ both[i] = s[i]
      BY <1>3
    <3> QED BY <1>3, <3>1 DEF ToSet
  <2>2. ASSUME NEW i \in 1 .. n PROVE t[i] \in ToSet(both)
    <3>1. m + i \in 1 .. m + n
      BY <1>3
    <3> QED BY <1>3, <3>1 DEF ToSet
  <2>3. \A i \in 1 .. m + n : both[i] \in ToSet(s) \cup ToSet(t)
    BY <1>3, <1>4 DEF ToSet
  <2> QED BY <1>3, <2>1, <2>2, <2>3 DEF ToSet
<1> QED BY <1>1, <1>3, <1>5, <1>6

\* A block at the end.
LEMMA EndAscends ==
    ASSUME NEW s \in Seq(Nat), Ascending(s), NEW x \in Nat, \A y \in ToSet(s) : y < x
    PROVE  /\ Append(s, x) \in Seq(Nat) /\ Ascending(Append(s, x))
           /\ ToSet(Append(s, x)) = ToSet(s) \cup {x}
<1>1. PICK new : new = Append(s, x)
  OBVIOUS
<1>2. PICK m : m = Len(s)
  OBVIOUS
<1>3. /\ new \in Seq(Nat) /\ m \in Nat /\ DOMAIN s = 1 .. m /\ DOMAIN new = 1 .. m + 1
      /\ new[m + 1] = x /\ \A i \in 1 .. m : new[i] = s[i]
  BY <1>1, <1>2, AppendProperties, LenProperties
<1>4. \A i \in 1 .. m + 1 : i \in 1 .. m \/ i = m + 1
  BY <1>3
<1>5. \A i \in 1 .. m : i \in 1 .. m + 1
  BY <1>3
<1>6. m + 1 \in 1 .. m + 1
  BY <1>3
<1>7. Ascending(new)
  <2> SUFFICES ASSUME NEW i \in 1 .. m + 1, NEW j \in 1 .. m + 1, i < j PROVE new[i] < new[j]
    BY <1>3 DEF Ascending
  <2>1. i \in 1 .. m
    BY <1>3
  <2>2. CASE j = m + 1
    BY <1>3, <2>1, <2>2 DEF ToSet
  <2>3. CASE j \in 1 .. m
    BY <1>3, <2>1, <2>3 DEF Ascending
  <2> QED BY <1>4, <2>2, <2>3
<1>8. ToSet(new) = ToSet(s) \cup {x}
  BY <1>3, <1>4, <1>5, <1>6 DEF ToSet
<1> QED BY <1>1, <1>3, <1>7, <1>8

\* The blocks below and above one that is to be inserted.
LEMMA SplitAscends ==
    ASSUME NEW seq \in Seq(Nat), Ascending(seq), NEW block \in Nat, block \notin ToSet(seq)
    PROVE  /\ Before(seq, block) \in Seq(Nat) /\ Ascending(Before(seq, block))
           /\ ToSet(Before(seq, block)) = {b \in ToSet(seq) : b < block}
           /\ After(seq, block) \in Seq(Nat) /\ Ascending(After(seq, block))
           /\ ToSet(After(seq, block)) = {b \in ToSet(seq) : b > block}
<1>1. Len(seq) \in Nat /\ DOMAIN seq = 1 .. Len(seq) /\ \A i \in 1 .. Len(seq) : seq[i] \in Nat
  BY LenProperties, ElementOfSeq
<1>2. PICK S : S = {i \in 1 .. Len(seq) + 1 : i <= Len(seq) => seq[i] >= block}
  OBVIOUS
<1>3. S \in SUBSET Nat /\ Len(seq) + 1 \in S
  BY <1>1, <1>2
<1>4. PICK k : k = Stop(seq, block)
  OBVIOUS
<1>5. k \in S /\ \A i \in S : k <= i
  BY <1>2, <1>3, <1>4, MinExists DEF Stop
<1>6. k \in 1 .. Len(seq) + 1 /\ (k <= Len(seq) => seq[k] >= block)
  BY <1>2, <1>5
<1>7. ASSUME NEW i \in 1 .. k - 1 PROVE i \in 1 .. Len(seq) /\ seq[i] < block
  <2>1. i \in 1 .. Len(seq) /\ i < k
    BY <1>1, <1>6
  <2>2. i \notin S
    BY <1>5, <1>6, <2>1
  <2> QED BY <1>1, <1>2, <2>1, <2>2
<1>8. ASSUME NEW i \in k .. Len(seq) PROVE i \in 1 .. Len(seq) /\ seq[i] > block
  <2>1. i \in 1 .. Len(seq) /\ k \in 1 .. Len(seq) /\ k <= i
    BY <1>1, <1>6
  <2>2. seq[k] <= seq[i]
    BY <1>1, <2>1 DEF Ascending
  <2>3. seq[i] # block
    BY <1>1, <2>1 DEF ToSet
  <2> QED BY <1>1, <1>6, <2>1, <2>2, <2>3
<1>9. ToSet(seq) = {seq[i] : i \in 1 .. Len(seq)}
  BY <1>1 DEF ToSet
<1>10. {seq[i] : i \in 1 .. k - 1} = {b \in ToSet(seq) : b < block}
  <2>1. ASSUME NEW i \in 1 .. Len(seq), seq[i] < block PROVE i \in 1 .. k - 1
    <3>1. i \notin k .. Len(seq)
      BY <1>1, <1>8, <2>1
    <3> QED BY <1>1, <1>6, <3>1
  <2> QED BY <1>7, <1>9, <2>1
<1>11. {seq[i] : i \in k .. Len(seq)} = {b \in ToSet(seq) : b > block}
  <2>1. ASSUME NEW i \in 1 .. Len(seq), seq[i] > block PROVE i \in k .. Len(seq)
    <3>1. i \notin 1 .. k - 1
      BY <1>1, <1>7, <2>1
    <3> QED BY <1>1, <1>6, <3>1
  <2> QED BY <1>8, <1>9, <2>1
<1>12. /\ 1 \in 1 .. Len(seq) + 1 /\ k - 1 \in 0 .. Len(seq) /\ 1 <= (k - 1) + 1
       /\ Len(seq) \in 0 .. Len(seq) /\ k <= Len(seq) + 1
  BY <1>1, <1>6
<1>13. /\ Before(seq, block) \in Seq(Nat) /\ Ascending(Before(seq, block))
       /\ ToSet(Before(seq, block)) = {seq[i] : i \in 1 .. k - 1}
  BY <1>4, <1>12, PartAscends DEF Before
<1>14. /\ After(seq, block) \in Seq(Nat) /\ Ascending(After(seq, block))
       /\ ToSet(After(seq, block)) = {seq[i] : i \in k .. Len(seq)}
  BY <1>4, <1>6, <1>12, PartAscends DEF After
<1> QED BY <1>10, <1>11, <1>13, <1>14

\* The first and the last block, and the list without the first.
LEMMA EndsOfAscending ==
    ASSUME NEW s \in Seq(Nat), Ascending(s), s # <<>>
    PROVE  /\ Last(s) \in ToSet(s) /\ \A x \in ToSet(s) : x <= Last(s)
           /\ Head(s) \in ToSet(s) /\ \A x \in ToSet(s) : Head(s) <= x
           /\ Tail(s) \in Seq(Nat) /\ Ascending(Tail(s))
           /\ ToSet(Tail(s)) = ToSet(s) \ {Head(s)}
<1>1. PICK n : n = Len(s)
  OBVIOUS
<1>2. PICK t : t = Tail(s)
  OBVIOUS
<1>3. /\ n \in Nat \ {0} /\ DOMAIN s = 1 .. n /\ Head(s) = s[1]
      /\ t \in Seq(Nat) /\ DOMAIN t = 1 .. n - 1
      /\ \A i \in 1 .. n - 1 : t[i] = s[i + 1]
      /\ \A i \in 1 .. n : s[i] \in Nat
  BY <1>1, <1>2, EmptySeq, HeadTailProperties, LenProperties, ElementOfSeq
<1>4. 1 \in 1 .. n /\ n \in 1 .. n
  BY <1>3
<1>5. \A i \in 1 .. n : s[1] <= s[i] /\ s[i] <= s[n]
  <2> TAKE i \in 1 .. n
  <2>1. /\ s[i] \in Nat /\ s[1] \in Nat /\ s[n] \in Nat
        /\ i \in DOMAIN s /\ 1 \in DOMAIN s /\ n \in DOMAIN s
    BY <1>3, <1>4
  <2>2. (i = 1 \/ 1 < i) /\ (i = n \/ i < n)
    BY <1>3
  <2>3. (1 < i => s[1] < s[i]) /\ (i < n => s[i] < s[n])
    BY <2>1 DEF Ascending
  <2> QED BY <2>1, <2>2, <2>3
<1>6. Ascending(t)
  <2> SUFFICES ASSUME NEW i \in 1 .. n - 1, NEW j \in 1 .. n - 1, i < j PROVE t[i] < t[j]
    BY <1>3 DEF Ascending
  <2>1. i + 1 \in DOMAIN s /\ j + 1 \in DOMAIN s /\ i + 1 < j + 1
    BY <1>3
  <2>2. s[i + 1] < s[j + 1]
    BY <2>1 DEF Ascending
  <2> QED BY <1>3, <2>2
<1>7. ToSet(t) = ToSet(s) \ {s[1]}
  <2>1. ASSUME NEW i \in 1 .. n - 1 PROVE t[i] \in ToSet(s) \ {s[1]}
    <3>1. i + 1 \in 1 .. n /\ 1 < i + 1
      BY <1>3
    <3>2. s[1] < s[i + 1]
      <4>1. 1 \in DOMAIN s /\ i + 1 \in DOMAIN s
        BY <1>3, <1>4, <3>1
      <4> QED BY <3>1, <4>1 DEF Ascending
    <3>3. s[i + 1] \in Nat /\ s[1] \in Nat
      BY <1>3, <1>4, <3>1
    <3>4. t[i] = s[i + 1]
      BY <1>3
    <3>5. s[i + 1] # s[1]
      BY <3>2, <3>3
    <3>6. s[i + 1] \in ToSet(s)
      BY <1>3, <3>1 DEF ToSet
    <3> QED BY <3>4, <3>5, <3>6
  <2>2. ASSUME NEW i \in 1 .. n, s[i] # s[1] PROVE s[i] \in ToSet(t)
    <3>1. PICK k : k = i - 1
      OBVIOUS
    <3>2. k \in 1 .. n - 1 /\ k + 1 = i
      BY <1>3, <2>2, <3>1
    <3> QED BY <1>3, <3>2 DEF ToSet
  <2> QED BY <1>3, <2>1, <2>2 DEF ToSet
<1>8. Last(s) = s[n]
  BY <1>1 DEF Last
<1>9. ToSet(s) = {s[i] : i \in 1 .. n}
  BY <1>3 DEF ToSet
<1>10. Last(s) \in ToSet(s) /\ \A x \in ToSet(s) : x <= Last(s)
  BY <1>4, <1>5, <1>8, <1>9
<1>11. Head(s) \in ToSet(s) /\ \A x \in ToSet(s) : Head(s) <= x
  BY <1>3, <1>4, <1>5, <1>9
<1>12. ToSet(t) = ToSet(s) \ {Head(s)}
  BY <1>3, <1>7
<1> QED BY <1>2, <1>3, <1>6, <1>10, <1>11, <1>12

\* A list without one of its blocks.
LEMMA RemovedAscends ==
    ASSUME NEW seq \in Seq(Nat), Ascending(seq), NEW k \in 1 .. Len(seq)
    PROVE  /\ RemoveAt(seq, k) \in Seq(Nat) /\ Ascending(RemoveAt(seq, k))
           /\ ToSet(RemoveAt(seq, k)) = ToSet(seq) \ {seq[k]}
<1>1. Len(seq) \in Nat /\ DOMAIN seq = 1 .. Len(seq) /\ \A i \in 1 .. Len(seq) : seq[i] \in Nat
  BY LenProperties, ElementOfSeq
<1>2. PICK s, t : s = SubSeq(seq, 1, k - 1) /\ t = SubSeq(seq, k + 1, Len(seq))
  OBVIOUS
<1>3. /\ 1 \in 1 .. Len(seq) + 1 /\ k - 1 \in 0 .. Len(seq) /\ 1 <= (k - 1) + 1
      /\ k + 1 \in 1 .. Len(seq) + 1 /\ Len(seq) \in 0 .. Len(seq) /\ k + 1 <= Len(seq) + 1
  BY <1>1
<1>4. s \in Seq(Nat) /\ Ascending(s) /\ ToSet(s) = {seq[i] : i \in 1 .. k - 1}
  BY <1>2, <1>3, PartAscends
<1>5. t \in Seq(Nat) /\ Ascending(t) /\ ToSet(t) = {seq[i] : i \in k + 1 .. Len(seq)}
  BY <1>2, <1>3, PartAscends
<1>6. \A i \in 1 .. k - 1 : i \in 1 .. Len(seq) /\ i < k
  BY <1>1
<1>7. \A i \in k + 1 .. Len(seq) : i \in 1 .. Len(seq) /\ k < i
  BY <1>1
<1>8. \A i \in 1 .. Len(seq) : i \in 1 .. k - 1 \/ i = k \/ i \in k + 1 .. Len(seq)
  BY <1>1
<1>9. \A x \in ToSet(s), y \in ToSet(t) : x < y
  <2> SUFFICES ASSUME NEW i \in 1 .. k - 1, NEW j \in k + 1 .. Len(seq) PROVE seq[i] < seq[j]
    BY <1>4, <1>5
  <2>1. i \in DOMAIN seq /\ j \in DOMAIN seq /\ i < j
    BY <1>1
  <2> QED BY <2>1 DEF Ascending
<1>10. s \o t \in Seq(Nat) /\ Ascending(s \o t) /\ ToSet(s \o t) = ToSet(s) \cup ToSet(t)
  BY <1>4, <1>5, <1>9, JoinAscends
<1>11. \A i \in 1 .. k - 1 : seq[i] # seq[k]
  <2> TAKE i \in 1 .. k - 1
  <2>1. seq[i] < seq[k] /\ seq[i] \in Nat /\ seq[k] \in Nat
    BY <1>1, <1>6 DEF Ascending
  <2> QED BY <2>1
<1>12. \A i \in k + 1 .. Len(seq) : seq[i] # seq[k]
  <2> TAKE i \in k + 1 .. Len(seq)
  <2>1. seq[k] < seq[i] /\ seq[i] \in Nat /\ seq[k] \in Nat
    BY <1>1, <1>7 DEF Ascending
  <2> QED BY <2>1
<1>13. ToSet(s) \cup ToSet(t) = ToSet(seq) \ {seq[k]}
  BY <1>1, <1>4, <1>5, <1>6, <1>7, <1>8, <1>11, <1>12 DEF ToSet
<1> QED BY <1>2, <1>10, <1>13 DEF RemoveAt
-----------------------------------------------------------------------------
(* Blocks that fill the heap.                                              *)

\* The blocks fill the heap from end to end without a gap or an overlap.
Tiled(sizes) ==
    /\ IsFiniteSet(DOMAIN sizes) /\ DOMAIN sizes \subseteq Nat /\ 0 \in DOMAIN sizes
    /\ \A b \in DOMAIN sizes : /\ sizes[b] \in Nat \ {0}
                               /\ b + sizes[b] \in DOMAIN sizes \cup {HeapEnd}
                               /\ b + sizes[b] <= HeapEnd
    /\ \A b, c \in DOMAIN sizes : b < c => b + sizes[b] <= c

\* No two of the free blocks touch.
Apart(sizes, free) == \A b, c \in free : b < c => b + sizes[b] < c

\* No two blocks end at the same address.
LEMMA EndsDiffer ==
    ASSUME NEW sizes, Tiled(sizes), NEW b \in DOMAIN sizes, NEW c \in DOMAIN sizes,
           b + sizes[b] = c + sizes[c]
    PROVE  b = c
<1>1. b \in Nat /\ c \in Nat /\ sizes[b] \in Nat \ {0} /\ sizes[c] \in Nat \ {0}
  BY DEF Tiled
<1>2. (b < c => b + sizes[b] <= c) /\ (c < b => c + sizes[c] <= b)
  BY DEF Tiled
<1> QED BY <1>1, <1>2

\* The free block low touches the block from below when left, high from above when right.
Touching(sizes, free, block, left, low, right, high) ==
    /\ left => low \in free /\ low < block /\ low + sizes[low] = block
    /\ ~left => \A b \in free : b < block => b + sizes[b] < block
    /\ right => high \in free /\ high = block + sizes[block]
    /\ ~right => \A c \in free : block < c => block + sizes[block] < c

\* The first of the blocks that are merged, the others, and the sizes afterwards.
FirstOf(block, left, low) == IF left THEN low ELSE block
GoneWith(block, left, right, high) ==
    (IF left THEN {block} ELSE {}) \cup (IF right THEN {high} ELSE {})
Merged(sizes, block, left, low, right, high) ==
    LET total == sizes[block] + (IF left THEN sizes[FirstOf(block, left, low)] ELSE 0)
                              + (IF right THEN sizes[high] ELSE 0)
    IN  [b \in DOMAIN sizes \ GoneWith(block, left, right, high) |->
            IF b = FirstOf(block, left, low) THEN total ELSE sizes[b]]

\* A block is merged with the free blocks that touch it.
LEMMA MergeKeepsPartition ==
    ASSUME NEW sizes, Tiled(sizes), NEW free \in SUBSET DOMAIN sizes, Apart(sizes, free),
           NEW block \in DOMAIN sizes, block \notin free,
           NEW left \in BOOLEAN, NEW right \in BOOLEAN, NEW low, NEW high,
           Touching(sizes, free, block, left, low, right, high),
           NEW merged, merged = Merged(sizes, block, left, low, right, high),
           NEW now, now = (free \ GoneWith(block, left, right, high)) \cup {FirstOf(block, left, low)}
    PROVE  /\ Tiled(merged) /\ Apart(merged, now) /\ now \subseteq DOMAIN merged
           /\ DOMAIN merged \ now = DOMAIN sizes \ (free \cup {block})
           /\ \A b \in DOMAIN merged \ now : merged[b] = sizes[b]
           /\ TotalSize(merged, now) = TotalSize(sizes, free) + sizes[block]
<1>1. PICK first : first = (IF left THEN low ELSE block)
  OBVIOUS
<1>2. PICK gone : gone = (IF left THEN {block} ELSE {}) \cup (IF right THEN {high} ELSE {})
  OBVIOUS
<1>3. PICK total : total = sizes[block] + (IF left THEN sizes[first] ELSE 0)
                                        + (IF right THEN sizes[high] ELSE 0)
  OBVIOUS
<1>4. /\ left => low \in free /\ low < block /\ low + sizes[low] = block
      /\ ~left => \A b \in free : b < block => b + sizes[b] < block
      /\ right => high \in free /\ high = block + sizes[block]
      /\ ~right => \A c \in free : block < c => block + sizes[block] < c
  BY DEF Touching
<1>5. /\ merged = [b \in DOMAIN sizes \ gone |-> IF b = first THEN total ELSE sizes[b]]
      /\ now = (free \ gone) \cup {first}
  BY <1>1, <1>2, <1>3 DEF FirstOf, GoneWith, Merged
<1> USE <1>1, <1>2, <1>3, <1>4, <1>5
<1>6. /\ \A b \in DOMAIN sizes : b \in Nat /\ sizes[b] \in Nat /\ sizes[b] > 0
      /\ \A b \in DOMAIN sizes : b + sizes[b] \in DOMAIN sizes \cup {HeapEnd}
      /\ \A b \in DOMAIN sizes : b + sizes[b] <= HeapEnd
      /\ \A b, c \in DOMAIN sizes : b < c => b + sizes[b] <= c
      /\ 0 \in DOMAIN sizes /\ HeapEnd \in Nat
  BY Heap4Assumption DEF Tiled
<1>7. PICK end : end = first + total
  OBVIOUS
<1>8. \A b \in free : b \in DOMAIN sizes
  OBVIOUS
<1>9. /\ first \in DOMAIN sizes /\ first \notin gone /\ gone \subseteq DOMAIN sizes
      /\ total \in Nat /\ total > 0 /\ first <= block
      /\ end = IF right THEN high + sizes[high] ELSE block + sizes[block]
      /\ end \in DOMAIN sizes \cup {HeapEnd} /\ end <= HeapEnd
      /\ \A b \in gone : first < b /\ b < end
  <2>1. block \in Nat /\ sizes[block] \in Nat /\ sizes[block] > 0
    BY <1>6
  <2>2. CASE left /\ right
    <3>1. /\ low \in DOMAIN sizes /\ high \in DOMAIN sizes /\ low \in Nat /\ high \in Nat
          /\ sizes[low] \in Nat /\ sizes[high] \in Nat /\ sizes[low] > 0 /\ sizes[high] > 0
          /\ low + sizes[low] = block /\ block + sizes[block] = high
          /\ high + sizes[high] \in DOMAIN sizes \cup {HeapEnd} /\ high + sizes[high] <= HeapEnd
      BY <1>6, <1>8, <2>2
    <3>2. first = low /\ gone = {block, high} /\ total = sizes[block] + sizes[low] + sizes[high]
      BY <2>2
    <3>3. end = high + sizes[high] /\ low < block /\ block < high /\ high < end
      BY <1>7, <2>1, <3>1, <3>2
    <3>4. total \in Nat /\ total > 0 /\ low < high /\ block < end
      BY <2>1, <3>1, <3>2, <3>3
    <3> QED BY <2>1, <2>2, <3>1, <3>2, <3>3, <3>4
  <2>3. CASE left /\ ~right
    <3>1. /\ low \in DOMAIN sizes /\ low \in Nat /\ sizes[low] \in Nat /\ sizes[low] > 0
          /\ low + sizes[low] = block
          /\ block + sizes[block] \in DOMAIN sizes \cup {HeapEnd} /\ block + sizes[block] <= HeapEnd
      BY <1>6, <1>8, <2>3
    <3>2. first = low /\ gone = {block} /\ total = sizes[block] + sizes[low] + 0
      BY <2>3
    <3>3. end = block + sizes[block] /\ low < block /\ block < end /\ total \in Nat /\ total > 0
      BY <1>7, <2>1, <3>1, <3>2
    <3> QED BY <2>1, <2>3, <3>1, <3>2, <3>3
  <2>4. CASE ~left /\ right
    <3>1. /\ high \in DOMAIN sizes /\ high \in Nat /\ sizes[high] \in Nat /\ sizes[high] > 0
          /\ block + sizes[block] = high
          /\ high + sizes[high] \in DOMAIN sizes \cup {HeapEnd} /\ high + sizes[high] <= HeapEnd
      BY <1>6, <1>8, <2>4
    <3>2. first = block /\ gone = {high} /\ total = sizes[block] + 0 + sizes[high]
      BY <2>4
    <3>3. end = high + sizes[high] /\ block < high /\ high < end /\ total \in Nat /\ total > 0
      BY <1>7, <2>1, <3>1, <3>2
    <3> QED BY <2>1, <2>4, <3>1, <3>2, <3>3
  <2>5. CASE ~left /\ ~right
    <3>1. first = block /\ gone = {} /\ total = sizes[block] + 0 + 0
      BY <2>5
    <3>2. total = sizes[block] /\ end = block + sizes[block]
      BY <1>7, <2>1, <3>1
    <3> QED BY <1>6, <2>1, <2>5, <3>1, <3>2
  <2> QED BY <2>2, <2>3, <2>4, <2>5
<1>10. end \in Nat /\ end \notin gone
  BY <1>6, <1>7, <1>9
<1>11. ASSUME NEW b \in DOMAIN sizes, b \notin gone, b # first
       PROVE  (b < first /\ b + sizes[b] <= first) \/ end <= b
  <2>1. b \in Nat /\ first \in Nat /\ block \in Nat
    BY <1>6, <1>9
  <2>2. CASE b < first
    BY <1>6, <1>9, <2>2
  <2>3. CASE first < b
    <3>1. block < b
      <4>1. CASE left
        <5>1. low < b /\ low \in DOMAIN sizes /\ low + sizes[low] = block /\ b # block
          BY <1>8, <1>11, <2>3, <4>1
        <5>2. block <= b
          BY <1>6, <5>1
        <5> QED BY <2>1, <5>1, <5>2
      <4>2. CASE ~left
        BY <2>3, <4>2
      <4> QED BY <4>1, <4>2
    <3>2. block + sizes[block] <= b
      BY <1>6, <3>1
    <3>3. CASE right
      <4>1. high \in DOMAIN sizes /\ high <= b /\ high # b /\ high \in Nat
        BY <1>6, <1>8, <1>11, <3>2, <3>3
      <4>2. high < b
        BY <2>1, <4>1
      <4>3. high + sizes[high] <= b
        BY <1>6, <4>1, <4>2
      <4> QED BY <1>9, <3>3, <4>3
    <3>4. CASE ~right
      BY <1>9, <3>2, <3>4
    <3> QED BY <3>3, <3>4
  <2> QED BY <1>11, <2>1, <2>2, <2>3
<1>12. ASSUME NEW b \in DOMAIN sizes, b \notin gone, b # first
       PROVE  b + sizes[b] \notin gone
  <2>1. CASE left /\ b + sizes[b] = block
    BY <1>8, <1>12, <2>1, EndsDiffer
  <2>2. CASE right /\ b + sizes[b] = high
    <3>1. b = block
      BY <2>2, EndsDiffer
    <3> QED BY <1>12, <3>1
  <2> QED BY <2>1, <2>2
<1>13. /\ DOMAIN merged = DOMAIN sizes \ gone /\ merged[first] = total
       /\ \A b \in DOMAIN sizes \ gone : b # first => merged[b] = sizes[b]
  BY <1>9
<1> HIDE DEF Apart
<1>14. Tiled(merged)
  <2>1. IsFiniteSet(DOMAIN merged) /\ DOMAIN merged \subseteq Nat
    BY <1>6, <1>13, FS_Subset DEF Tiled
  <2>2. 0 \in DOMAIN merged
    <3>1. \A b \in gone : b # 0
      BY <1>6, <1>9
    <3> QED BY <1>6, <1>13, <3>1
  <2>3. ASSUME NEW b \in DOMAIN merged
        PROVE  /\ merged[b] \in Nat \ {0} /\ b + merged[b] <= HeapEnd
               /\ b + merged[b] \in DOMAIN merged \cup {HeapEnd}
    <3>1. CASE b = first
      BY <1>7, <1>9, <1>10, <1>13, <3>1
    <3>2. CASE b # first
      <4>1. b \in DOMAIN sizes /\ b \notin gone /\ merged[b] = sizes[b]
        BY <1>13, <3>2
      <4>2. /\ sizes[b] \in Nat /\ sizes[b] > 0 /\ b + sizes[b] <= HeapEnd
            /\ b + sizes[b] \in DOMAIN sizes \cup {HeapEnd}
        BY <1>6, <4>1
      <4>3. b + sizes[b] \notin gone
        BY <1>12, <3>2, <4>1
      <4> QED BY <1>13, <4>1, <4>2, <4>3
    <3> QED BY <3>1, <3>2
  <2>4. ASSUME NEW b \in DOMAIN merged, NEW c \in DOMAIN merged, b < c PROVE b + merged[b] <= c
    <3>1. b \in DOMAIN sizes /\ b \notin gone /\ c \in DOMAIN sizes /\ c \notin gone
      BY <1>13
    <3>2. b \in Nat /\ c \in Nat /\ sizes[b] \in Nat
      BY <1>6, <3>1
    <3>3. CASE b = first
      <4>1. c # first /\ ~(c < first)
        BY <2>4, <3>2, <3>3
      <4> QED BY <1>7, <1>11, <1>13, <3>1, <3>3, <4>1
    <3>4. CASE b # first
      <4>1. merged[b] = sizes[b]
        BY <1>13, <3>4
      <4> QED BY <1>6, <2>4, <3>1, <4>1
    <3> QED BY <3>3, <3>4
  <2> QED BY <2>1, <2>2, <2>3, <2>4 DEF Tiled
<1>15. ASSUME NEW b \in now, NEW c \in now, b < c PROVE b + merged[b] < c
  <2>1. /\ b \in DOMAIN sizes /\ b \notin gone /\ c \in DOMAIN sizes /\ c \notin gone
        /\ (b # first => b \in free) /\ (c # first => c \in free)
    BY <1>9
  <2>2. b \in Nat /\ c \in Nat /\ sizes[b] \in Nat /\ block \in Nat
    BY <1>6, <2>1
  <2>3. CASE b # first /\ c # first
    BY <1>13, <1>15, <2>1, <2>3 DEF Apart
  <2>4. CASE b # first /\ c = first
    <3>1. merged[b] = sizes[b] /\ b \in free
      BY <1>13, <2>1, <2>4
    <3>2. CASE left
      BY <1>15, <2>4, <3>1, <3>2 DEF Apart
    <3>3. CASE ~left
      BY <1>15, <2>4, <3>1, <3>3
    <3> QED BY <3>2, <3>3
  <2>5. CASE b = first
    <3>1. c # first /\ ~(c < first) /\ c \in free
      BY <1>15, <2>1, <2>2, <2>5
    <3>2. end <= c /\ b + merged[b] = end
      BY <1>7, <1>11, <1>13, <2>1, <2>5, <3>1
    <3>3. CASE right
      <4>1. high < c /\ high \in free
        <5>1. high \in gone
          BY <3>3
        <5>2. high < end /\ high \in Nat
          BY <1>6, <1>9, <5>1
        <5> QED BY <1>10, <2>2, <3>2, <3>3, <5>2
      <4>2. high + sizes[high] < c
        BY <3>1, <4>1 DEF Apart
      <4> QED BY <1>9, <3>2, <3>3, <4>2
    <3>4. CASE ~right
      <4>1. end = block + sizes[block] /\ sizes[block] \in Nat /\ sizes[block] > 0
        BY <1>6, <1>9, <3>4
      <4>2. block < c
        BY <2>2, <3>2, <4>1
      <4> QED BY <3>1, <3>2, <3>4, <4>1, <4>2
    <3> QED BY <3>3, <3>4
  <2> QED BY <2>3, <2>4, <2>5
<1>16. Apart(merged, now)
  BY <1>15 DEF Apart
<1>17. now \subseteq DOMAIN merged
  BY <1>9, <1>13
<1>18. DOMAIN merged \ now = DOMAIN sizes \ (free \cup {block})
  BY <1>9, <1>13
<1>19. \A b \in DOMAIN merged \ now : merged[b] = sizes[b]
  BY <1>13
<1>20. TotalSize(merged, now) = TotalSize(sizes, free) + sizes[block]
  <2> DEFINE rest == now \ {first}
  <2>1. IsFiniteSet(now) /\ IsFiniteSet(rest) /\ IsFiniteSet(free)
    BY <1>14, <1>17, FS_Subset DEF Tiled
  <2>2. /\ \A b \in now : merged[b] \in Nat
        /\ \A b \in free : sizes[b] \in Nat
        /\ \A b \in rest : merged[b] = sizes[b] /\ sizes[b] \in Nat
    BY <1>6, <1>8, <1>9, <1>13
  <2>3. /\ TotalSize(merged, now) = total + TotalSize(merged, rest)
        /\ TotalSize(merged, rest) \in Nat
    <3>1. first \in now /\ merged[first] = total
      BY <1>13
    <3>2. PICK S, f : S = now /\ f = merged
      OBVIOUS
    <3>3. IsFiniteSet(S) /\ first \in S /\ \A b \in S : f[b] \in Nat
      BY <2>1, <2>2, <3>1, <3>2
    <3>4. /\ TotalSize(f, S) = f[first] + TotalSize(f, S \ {first})
          /\ TotalSize(f, S \ {first}) \in Nat
      BY <3>3, TotalAdds
    <3> QED BY <3>1, <3>2, <3>4
  <2>4. TotalSize(merged, rest) = TotalSize(sizes, rest)
    BY <2>1, <2>2, TotalSame
  <2>5. sizes[block] \in Nat
    BY <1>6
  <2>6. CASE left /\ right
    <3>1. /\ low \in free /\ high \in free \ {low} /\ rest = (free \ {low}) \ {high}
          /\ total = sizes[block] + sizes[low] + sizes[high]
      <4>1. first = low /\ gone = {block, high} /\ low \in free /\ high \in free /\ low # high
        BY <1>9, <2>6
      <4>2. total = sizes[block] + sizes[low] + sizes[high]
        BY <2>6, <4>1
      <4> QED BY <4>1, <4>2
    <3>2. TotalSize(sizes, free) = sizes[low] + TotalSize(sizes, free \ {low})
      BY <2>1, <2>2, <3>1, TotalAdds
    <3>3. /\ TotalSize(sizes, free \ {low}) = sizes[high] + TotalSize(sizes, rest)
          /\ TotalSize(sizes, rest) \in Nat
      <4>1. IsFiniteSet(free \ {low}) /\ \A b \in free \ {low} : sizes[b] \in Nat
        BY <2>1, <2>2, FS_RemoveElement
      <4>2. /\ TotalSize(sizes, free \ {low}) = sizes[high] + TotalSize(sizes, (free \ {low}) \ {high})
            /\ TotalSize(sizes, (free \ {low}) \ {high}) \in Nat
        BY <3>1, <4>1, TotalAdds
      <4> QED BY <3>1, <4>2
    <3>4. sizes[low] \in Nat /\ sizes[high] \in Nat
      BY <2>2, <3>1
    <3> HIDE DEF rest
    <3> QED BY <2>3, <2>4, <2>5, <3>1, <3>2, <3>3, <3>4
  <2>7. CASE left /\ ~right
    <3>1. low \in free /\ rest = free \ {low} /\ total = sizes[block] + sizes[low] + 0
      <4>1. first = low /\ gone = {block} /\ low \in free
        BY <2>7
      <4>2. rest = free \ {low}
        BY <4>1
      <4>3. total = sizes[block] + sizes[low] + 0
        BY <2>7, <4>1
      <4> QED BY <4>1, <4>2, <4>3
    <3>2. /\ TotalSize(sizes, free) = sizes[low] + TotalSize(sizes, rest)
          /\ TotalSize(sizes, rest) \in Nat
      BY <2>1, <2>2, <3>1, TotalAdds
    <3>3. sizes[low] \in Nat
      BY <2>2, <3>1
    <3> HIDE DEF rest
    <3> QED BY <2>3, <2>4, <2>5, <3>1, <3>2, <3>3
  <2>8. CASE ~left /\ right
    <3>1. high \in free /\ rest = free \ {high} /\ total = sizes[block] + 0 + sizes[high]
      <4>1. first = block /\ gone = {high} /\ high \in free
        BY <2>8
      <4>2. rest = free \ {high}
        BY <4>1
      <4>3. total = sizes[block] + 0 + sizes[high]
        BY <2>8, <4>1
      <4> QED BY <4>1, <4>2, <4>3
    <3>2. /\ TotalSize(sizes, free) = sizes[high] + TotalSize(sizes, rest)
          /\ TotalSize(sizes, rest) \in Nat
      BY <2>1, <2>2, <3>1, TotalAdds
    <3>3. sizes[high] \in Nat
      BY <2>2, <3>1
    <3> HIDE DEF rest
    <3> QED BY <2>3, <2>4, <2>5, <3>1, <3>2, <3>3
  <2>9. CASE ~left /\ ~right
    <3>1. rest = free /\ total = sizes[block] + 0 + 0
      BY <2>9
    <3> HIDE DEF rest
    <3> QED BY <2>3, <2>4, <2>5, <3>1
  <2> QED BY <2>6, <2>7, <2>8, <2>9
<1> QED BY <1>14, <1>16, <1>17, <1>18, <1>19, <1>20

\* Putting a block into the free list keeps the list in the order of the addresses and the
\* heap filled, joins what touches, and frees as many bytes as the block has.
LEMMA InsertKeepsPartition ==
    ASSUME NEW list \in Seq(Nat), Ascending(list), NEW sizes, Tiled(sizes),
           ToSet(list) \subseteq DOMAIN sizes, Apart(sizes, ToSet(list)),
           NEW block \in DOMAIN sizes, block \notin ToSet(list),
           NEW after, after = prvInsertBlockIntoFreeList(list, sizes, block)
    PROVE  /\ after.list \in Seq(Nat) /\ Ascending(after.list)
           /\ Tiled(after.sizes) /\ Apart(after.sizes, ToSet(after.list))
           /\ ToSet(after.list) \subseteq DOMAIN after.sizes
           /\ DOMAIN after.sizes \ ToSet(after.list) = DOMAIN sizes \ (ToSet(list) \cup {block})
           /\ \A b \in DOMAIN after.sizes \ ToSet(after.list) : after.sizes[b] = sizes[b]
           /\ TotalSize(after.sizes, ToSet(after.list)) = TotalSize(sizes, ToSet(list)) + sizes[block]
<1>1. PICK below, above, free : /\ below = Before(list, block) /\ above = After(list, block)
                                /\ free = ToSet(list)
  OBVIOUS
<1>2. block \in Nat /\ free \subseteq Nat /\ sizes[block] \in Nat /\ sizes[block] > 0
  BY <1>1 DEF Tiled
<1>3. /\ below \in Seq(Nat) /\ Ascending(below) /\ ToSet(below) = {b \in free : b < block}
      /\ above \in Seq(Nat) /\ Ascending(above) /\ ToSet(above) = {b \in free : b > block}
  BY <1>1, <1>2, SplitAscends
<1>4. PICK left \in BOOLEAN : left = (below # <<>> /\ Last(below) + sizes[Last(below)] = block)
  OBVIOUS
<1>5. PICK right \in BOOLEAN : right = (above # <<>> /\ block + sizes[block] = Head(above))
  OBVIOUS
<1>6. PICK low, high : low = Last(below) /\ high = Head(above)
  OBVIOUS
<1>7. PICK first : first = FirstOf(block, left, low)
  OBVIOUS
<1>8. PICK gone : gone = GoneWith(block, left, right, high)
  OBVIOUS
<1>9. PICK merged : merged = Merged(sizes, block, left, low, right, high)
  OBVIOUS
<1>10. PICK joined : joined = (IF left THEN below ELSE Append(below, block))
                              \o (IF right THEN Tail(above) ELSE above)
  OBVIOUS
<1>11. PICK now : now = (free \ gone) \cup {first}
  OBVIOUS
<1>12. after = [list |-> joined, sizes |-> merged]
  BY <1>1, <1>4, <1>5, <1>6, <1>9, <1>10
     DEF prvInsertBlockIntoFreeList, Merged, FirstOf, GoneWith
<1>13. below # <<>> => /\ low \in free /\ low < block
                       /\ \A b \in free : b < block => b <= low
  BY <1>3, <1>6, EndsOfAscending
<1>14. below = <<>> => \A b \in free : ~(b < block)
  <2>1. ToSet(<<>>) = {}
    BY DEF ToSet
  <2> QED BY <1>3, <2>1
<1>15. above # <<>> => /\ high \in free /\ block < high
                       /\ \A c \in free : block < c => high <= c
                       /\ Tail(above) \in Seq(Nat) /\ Ascending(Tail(above))
                       /\ ToSet(Tail(above)) = ToSet(above) \ {high}
  BY <1>2, <1>3, <1>6, EndsOfAscending
<1>16. above = <<>> => \A c \in free : ~(block < c)
  <2>1. ToSet(<<>>) = {}
    BY DEF ToSet
  <2> QED BY <1>2, <1>3, <2>1
<1>17. left => low \in free /\ low < block /\ low + sizes[low] = block
  BY <1>4, <1>6, <1>13
<1>18. ~left => \A b \in free : b < block => b + sizes[b] < block
  <2> SUFFICES ASSUME ~left, NEW b \in free, b < block PROVE b + sizes[b] < block
    OBVIOUS
  <2>1. below # <<>> /\ low \in free /\ b <= low /\ low < block /\ low + sizes[low] # block
    BY <1>4, <1>6, <1>13, <1>14
  <2>2. b \in Nat /\ low \in Nat /\ sizes[b] \in Nat /\ sizes[low] \in Nat
    BY <1>1, <1>2, <2>1 DEF Tiled
  <2>3. low + sizes[low] <= block
    BY <1>1, <2>1 DEF Tiled
  <2>4. b < low => b + sizes[b] < low
    BY <1>1, <2>1 DEF Apart
  <2>5. CASE b = low
    <3>1. PICK e : e = b + sizes[b]
      OBVIOUS
    <3>2. e \in Nat /\ e <= block /\ e # block
      BY <2>1, <2>2, <2>3, <2>5, <3>1
    <3> QED BY <1>2, <3>1, <3>2
  <2>6. CASE b < low
    <3>1. b + sizes[b] < low /\ low < block
      BY <2>1, <2>4, <2>6
    <3> QED BY <1>2, <2>2, <3>1
  <2> QED BY <2>1, <2>2, <2>5, <2>6
<1>19. right => high \in free /\ high = block + sizes[block]
  BY <1>5, <1>6, <1>15
<1>20. ~right => \A c \in free : block < c => block + sizes[block] < c
  <2> SUFFICES ASSUME ~right, NEW c \in free, block < c PROVE block + sizes[block] < c
    OBVIOUS
  <2>1. above # <<>> /\ high \in free /\ high <= c /\ block < high /\ block + sizes[block] # high
    BY <1>5, <1>6, <1>15, <1>16
  <2>2. c \in Nat /\ high \in Nat
    BY <1>2, <2>1
  <2>3. block + sizes[block] <= high
    BY <1>1, <2>1 DEF Tiled
  <2>4. PICK e : e = block + sizes[block]
    OBVIOUS
  <2>5. e \in Nat /\ e <= high /\ e # high
    BY <1>2, <2>1, <2>3, <2>4
  <2> QED BY <2>1, <2>2, <2>4, <2>5
<1>21. /\ joined \in Seq(Nat) /\ Ascending(joined) /\ ToSet(joined) = (free \ gone) \cup {first}
  <2>1. PICK s, t : /\ s = IF left THEN below ELSE Append(below, block)
                    /\ t = IF right THEN Tail(above) ELSE above
    OBVIOUS
  <2>2. /\ s \in Seq(Nat) /\ Ascending(s)
        /\ ToSet(s) = {b \in free : b < block} \cup (IF left THEN {} ELSE {block})
    <3>1. CASE left
      BY <1>3, <2>1, <3>1
    <3>2. CASE ~left
      <4>1. \A y \in ToSet(below) : y < block
        BY <1>3
      <4>2. /\ Append(below, block) \in Seq(Nat) /\ Ascending(Append(below, block))
            /\ ToSet(Append(below, block)) = ToSet(below) \cup {block}
        BY <1>2, <1>3, <4>1, EndAscends
      <4> QED BY <1>3, <2>1, <3>2, <4>2
    <3> QED BY <3>1, <3>2
  <2>3. /\ t \in Seq(Nat) /\ Ascending(t)
        /\ ToSet(t) = {b \in free : b > block} \ (IF right THEN {high} ELSE {})
    <3>1. CASE right
      BY <1>3, <1>5, <1>15, <2>1, <3>1
    <3>2. CASE ~right
      BY <1>3, <2>1, <3>2
    <3> QED BY <3>1, <3>2
  <2>4. \A x \in ToSet(s), y \in ToSet(t) : x < y
    <3> TAKE x \in ToSet(s), y \in ToSet(t)
    <3>1. x \in Nat /\ x <= block
      <4>1. CASE x \in free /\ x < block
        BY <1>2, <4>1
      <4>2. CASE x = block
        BY <1>2, <4>2
      <4> QED BY <2>2, <4>1, <4>2
    <3>2. y \in Nat /\ block < y
      BY <1>2, <2>3
    <3> QED BY <1>2, <3>1, <3>2
  <2>5. s \o t \in Seq(Nat) /\ Ascending(s \o t) /\ ToSet(s \o t) = ToSet(s) \cup ToSet(t)
    BY <2>2, <2>3, <2>4, JoinAscends
  <2>6. \A b \in free : b < block \/ b > block
    <3> TAKE b \in free
    <3>1. b \in Nat /\ block \in Nat /\ b # block
      BY <1>1, <1>2
    <3> QED BY <3>1
  <2>7. high \notin {b \in free : b < block} \/ ~right
    <3>1. right => block < high /\ high \in Nat
      BY <1>2, <1>5, <1>15
    <3> QED BY <1>2, <3>1
  <2>8. ToSet(s) \cup ToSet(t) = (free \ gone) \cup {first}
    BY <1>1, <1>7, <1>8, <1>17, <2>2, <2>3, <2>6, <2>7 DEF FirstOf, GoneWith
  <2> QED BY <1>10, <2>1, <2>5, <2>8
<1>22. Touching(sizes, free, block, left, low, right, high)
  BY <1>17, <1>18, <1>19, <1>20 DEF Touching
<1>23. free \in SUBSET DOMAIN sizes /\ Apart(sizes, free) /\ block \notin free
  BY <1>1
<1>24. /\ Tiled(merged) /\ Apart(merged, now) /\ now \subseteq DOMAIN merged
       /\ DOMAIN merged \ now = DOMAIN sizes \ (free \cup {block})
       /\ \A b \in DOMAIN merged \ now : merged[b] = sizes[b]
       /\ TotalSize(merged, now) = TotalSize(sizes, free) + sizes[block]
  BY <1>7, <1>8, <1>9, <1>11, <1>22, <1>23, MergeKeepsPartition
<1>25. after.list = joined /\ after.sizes = merged /\ ToSet(joined) = now
  BY <1>11, <1>12, <1>21
<1> QED BY <1>1, <1>21, <1>24, <1>25
-----------------------------------------------------------------------------
(* The allocator.                                                          *)

\* The free blocks are listed by address, every other block is allocated and holds what was
\* asked for, and the counters are those of the free blocks.
HeapInv ==
    /\ Tiled(xBlockSize)
    /\ freeList \in Seq(Nat) /\ Ascending(freeList)
    /\ ToSet(freeList) \subseteq DOMAIN xBlockSize /\ Apart(xBlockSize, ToSet(freeList))
    /\ DOMAIN requested = DOMAIN xBlockSize \ ToSet(freeList)
    /\ \A b \in DOMAIN requested : /\ requested[b] \in Nat
                                   /\ requested[b] + xHeapStructSize <= xBlockSize[b]
    /\ xFreeBytesRemaining = TotalSize(xBlockSize, ToSet(freeList))
    /\ xMinimumEverFreeBytesRemaining \in Nat
    /\ xMinimumEverFreeBytesRemaining <= xFreeBytesRemaining

\* The bytes of some blocks are a number.
LEMMA TotalIsNat ==
    ASSUME NEW S, IsFiniteSet(S), NEW sizes, \A x \in S : sizes[x] \in Nat
    PROVE  TotalSize(sizes, S) \in Nat
<1>1. PICK sums \in [SUBSET S -> Nat] : SumsUp(sums, sizes, S)
  BY SumsExist
<1>2. TotalSize(sizes, S) = sums[S]
  BY <1>1, TotalBySums
<1> QED BY <1>2

\* The bytes of the free blocks are a number.
LEMMA FreeIsNat ==
    ASSUME NEW sizes, Tiled(sizes), NEW free, free \subseteq DOMAIN sizes
    PROVE  TotalSize(sizes, free) \in Nat
<1>1. IsFiniteSet(free) /\ \A b \in free : sizes[b] \in Nat
  BY FS_Subset DEF Tiled
<1> QED BY <1>1, TotalIsNat

\* A request is rounded up.
LEMMA RoundedUp ==
    ASSUME NEW size \in Nat
    PROVE  Rounded(size) \in Nat /\ Rounded(size) >= size + xHeapStructSize
           /\ xHeapStructSize \in Nat \ {0}
<1>1. Alignment \in Nat \ {0} /\ xHeapStructSize \in Nat \ {0}
  BY Heap4Assumption
<1>2. PICK wanted \in Nat : wanted = size + xHeapStructSize
  BY <1>1
<1>3. wanted % Alignment \in 0 .. Alignment - 1
  BY <1>1
<1>4. PICK missing \in Int : missing = Alignment - (wanted % Alignment)
  BY <1>1, <1>3
<1>5. missing % Alignment \in 0 .. Alignment - 1
  BY <1>1
<1>6. Rounded(size) = wanted + (missing % Alignment)
  BY <1>2, <1>4 DEF Rounded
<1> QED BY <1>1, <1>2, <1>5, <1>6

\* The lowest level so far.
LEMMA LowerOfTwo ==
    ASSUME NEW a \in Nat, NEW b \in Nat
    PROVE  Min({a, b}) \in Nat /\ Min({a, b}) <= a /\ Min({a, b}) <= b
<1>1. {a, b} \in SUBSET Nat /\ {a, b} # {}
  OBVIOUS
<1> QED BY <1>1, MinExists

LEMMA HeapInvInit == HeapInit => HeapInv
<1> SUFFICES ASSUME HeapInit PROVE HeapInv
  OBVIOUS
<1>1. HeapEnd \in Nat /\ HeapEnd > 0
  BY Heap4Assumption
<1>2. /\ DOMAIN xBlockSize = {0} /\ xBlockSize[0] = HeapEnd /\ freeList = <<0>>
      /\ DOMAIN requested = {}
  BY DEF HeapInit
<1>3. IsFiniteSet({0})
  BY FS_Singleton
<1>4. Tiled(xBlockSize)
  BY <1>1, <1>2, <1>3 DEF Tiled
<1>5. /\ freeList \in Seq(Nat) /\ DOMAIN freeList = {1} /\ freeList[1] = 0
  BY <1>2
<1>6. Ascending(freeList) /\ ToSet(freeList) = {0}
  BY <1>5 DEF Ascending, ToSet
<1>7. Apart(xBlockSize, {0})
  BY DEF Apart
<1>8. TotalSize(xBlockSize, {0}) = HeapEnd
  BY <1>1, <1>2, TotalOfOne
<1> QED BY <1>1, <1>2, <1>4, <1>5, <1>6, <1>7, <1>8 DEF HeapInv, HeapInit

LEMMA HeapInvFree ==
    ASSUME HeapInv, NEW block \in DOMAIN requested, vPortFree(block)
    PROVE  HeapInv'
<1>1. PICK free : free = ToSet(freeList)
  OBVIOUS
<1>2. PICK after : after = prvInsertBlockIntoFreeList(freeList, xBlockSize, block)
  OBVIOUS
<1>3. block \in DOMAIN xBlockSize /\ block \notin free /\ xBlockSize[block] \in Nat
  BY <1>1 DEF HeapInv, Tiled
<1>4. /\ after.list \in Seq(Nat) /\ Ascending(after.list)
      /\ Tiled(after.sizes) /\ Apart(after.sizes, ToSet(after.list))
      /\ ToSet(after.list) \subseteq DOMAIN after.sizes
      /\ DOMAIN after.sizes \ ToSet(after.list) = DOMAIN xBlockSize \ (free \cup {block})
      /\ \A b \in DOMAIN after.sizes \ ToSet(after.list) : after.sizes[b] = xBlockSize[b]
      /\ TotalSize(after.sizes, ToSet(after.list)) = TotalSize(xBlockSize, free) + xBlockSize[block]
  BY <1>1, <1>2, <1>3, InsertKeepsPartition DEF HeapInv
<1>5. /\ freeList' = after.list /\ xBlockSize' = after.sizes
      /\ xFreeBytesRemaining' = xFreeBytesRemaining + xBlockSize[block]
      /\ DOMAIN requested' = DOMAIN requested \ {block}
      /\ \A b \in DOMAIN requested' : requested'[b] = requested[b]
      /\ xMinimumEverFreeBytesRemaining' = xMinimumEverFreeBytesRemaining
  BY <1>2 DEF vPortFree, Restrict
<1>6. DOMAIN requested' = DOMAIN xBlockSize' \ ToSet(freeList')
  BY <1>1, <1>4, <1>5 DEF HeapInv
<1>7. \A b \in DOMAIN requested' : /\ requested'[b] \in Nat
                                   /\ requested'[b] + xHeapStructSize <= xBlockSize'[b]
  BY <1>4, <1>5, <1>6 DEF HeapInv
<1>8. /\ xFreeBytesRemaining' = TotalSize(xBlockSize', ToSet(freeList'))
      /\ xMinimumEverFreeBytesRemaining' \in Nat
      /\ xMinimumEverFreeBytesRemaining' <= xFreeBytesRemaining'
  <2>1. xFreeBytesRemaining = TotalSize(xBlockSize, free) /\ TotalSize(xBlockSize, free) \in Nat
    BY <1>1, FreeIsNat DEF HeapInv
  <2> QED BY <1>3, <1>4, <1>5, <2>1 DEF HeapInv
<1> QED BY <1>4, <1>5, <1>6, <1>7, <1>8 DEF HeapInv

\* What is too much is split off a block.
LEMMA SplitKeepsPartition ==
    ASSUME NEW sizes, Tiled(sizes), NEW block \in DOMAIN sizes,
           NEW wanted \in Nat, wanted > 0, wanted < sizes[block],
           NEW new, new = block + wanted, NEW rest, rest = sizes[block] - wanted,
           NEW cut, cut = Cut(sizes, block, wanted)
    PROVE  /\ Tiled(cut) /\ new \notin DOMAIN sizes /\ new \in DOMAIN cut
           /\ cut[new] = rest /\ cut[block] = wanted
           /\ \A b \in DOMAIN sizes \ {block} : cut[b] = sizes[b]
           /\ DOMAIN cut = DOMAIN sizes \cup {new}
<1>1. /\ \A b \in DOMAIN sizes : b \in Nat /\ sizes[b] \in Nat /\ sizes[b] > 0
      /\ \A b \in DOMAIN sizes : b + sizes[b] \in DOMAIN sizes \cup {HeapEnd} /\ b + sizes[b] <= HeapEnd
      /\ \A b, c \in DOMAIN sizes : b < c => b + sizes[b] <= c
      /\ 0 \in DOMAIN sizes /\ IsFiniteSet(DOMAIN sizes)
  BY DEF Tiled
<1>2. /\ block \in Nat /\ new \in Nat /\ rest \in Nat /\ rest > 0 /\ block < new
      /\ new + rest = block + sizes[block] /\ new < block + sizes[block] /\ wanted > 0
  BY <1>1
<1>3. \A c \in DOMAIN sizes : c <= block \/ new + rest <= c
  <2> TAKE c \in DOMAIN sizes
  <2>1. c \in Nat /\ (block < c => block + sizes[block] <= c)
    BY <1>1
  <2> QED BY <1>2, <2>1
<1>4. new \notin DOMAIN sizes
  BY <1>2, <1>3
<1>5. /\ DOMAIN cut = DOMAIN sizes \cup {new} /\ cut[block] = wanted /\ cut[new] = rest
      /\ \A b \in DOMAIN sizes \ {block} : cut[b] = sizes[b]
  BY <1>2, <1>4 DEF Cut
<1>6. IsFiniteSet(DOMAIN cut) /\ DOMAIN cut \subseteq Nat /\ 0 \in DOMAIN cut
  BY <1>1, <1>2, <1>5, FS_AddElement
<1>7. ASSUME NEW b \in DOMAIN cut
      PROVE  /\ cut[b] \in Nat \ {0} /\ b + cut[b] \in DOMAIN cut \cup {HeapEnd}
             /\ b + cut[b] <= HeapEnd
  <2>1. /\ block + sizes[block] \in DOMAIN sizes \cup {HeapEnd}
        /\ block + sizes[block] <= HeapEnd /\ HeapEnd \in Nat
    BY <1>1, Heap4Assumption
  <2>2. CASE b = block
    BY <1>2, <1>5, <2>1, <2>2
  <2>3. CASE b = new
    BY <1>2, <1>5, <2>1, <2>3
  <2>4. CASE b \in DOMAIN sizes \ {block}
    BY <1>1, <1>5, <2>4
  <2> QED BY <1>5, <2>2, <2>3, <2>4
<1>8. ASSUME NEW b \in DOMAIN cut, NEW c \in DOMAIN cut, b < c PROVE b + cut[b] <= c
  <2>1. CASE b = block
    <3>1. c \in Nat /\ (c = new \/ new + rest <= c)
      BY <1>2, <1>3, <1>5, <1>6, <1>8, <2>1
    <3> QED BY <1>2, <1>5, <2>1, <3>1
  <2>2. CASE b = new
    <3>1. c \in DOMAIN sizes /\ c \in Nat
      BY <1>2, <1>5, <1>6, <1>8, <2>2
    <3> QED BY <1>2, <1>3, <1>5, <1>8, <2>2, <3>1
  <2>3. CASE b \in DOMAIN sizes \ {block}
    <3>1. b \in Nat /\ sizes[b] \in Nat /\ sizes[b] > 0 /\ cut[b] = sizes[b] /\ c \in Nat
      BY <1>1, <1>5, <1>6, <2>3
    <3>2. CASE c \in DOMAIN sizes
      BY <1>1, <1>8, <2>3, <3>1, <3>2
    <3>3. CASE c = new
      <4>1. b <= block /\ b # block
        BY <1>2, <1>3, <1>8, <2>3, <3>1, <3>3
      <4>2. b < block
        BY <1>2, <3>1, <4>1
      <4>3. b + sizes[b] <= block
        BY <1>1, <2>3, <4>2
      <4> QED BY <1>2, <3>1, <3>3, <4>3
    <3> QED BY <1>5, <3>2, <3>3
  <2> QED BY <1>5, <2>1, <2>2, <2>3
<1>9. Tiled(cut)
  BY <1>6, <1>7, <1>8 DEF Tiled
<1> QED BY <1>4, <1>5, <1>9

LEMMA HeapInvMalloc ==
    ASSUME HeapInv, pvPortMalloc
    PROVE  HeapInv'
<1>1. PICK size \in Requests \ {0} :
        LET wanted == Rounded(size)
            fits == {i \in DOMAIN freeList : xBlockSize[freeList[i]] >= wanted}
        IN  /\ wanted <= xFreeBytesRemaining /\ fits # {}
            /\ LET block == freeList[Min(fits)]
                   others == RemoveAt(freeList, Min(fits))
                   split == xBlockSize[block] - wanted > heapMINIMUM_BLOCK_SIZE
                   taken == IF split THEN wanted ELSE xBlockSize[block]
                   after == prvInsertBlockIntoFreeList(others, Cut(xBlockSize, block, wanted), block + wanted)
               IN  /\ freeList' = IF split THEN after.list ELSE others
                   /\ xBlockSize' = IF split THEN after.sizes ELSE xBlockSize
                   /\ requested' = [b \in DOMAIN requested \union {block} |->
                                        IF b = block THEN size ELSE requested[b]]
                   /\ xFreeBytesRemaining' = xFreeBytesRemaining - taken
                   /\ xMinimumEverFreeBytesRemaining' =
                        Min({xMinimumEverFreeBytesRemaining, xFreeBytesRemaining'})
  BY DEF pvPortMalloc
<1>2. PICK wanted : wanted = Rounded(size)
  OBVIOUS
<1>3. PICK place : place = Min({i \in DOMAIN freeList : xBlockSize[freeList[i]] >= wanted})
  OBVIOUS
<1>4. PICK block, others, rest : /\ block = freeList[place] /\ others = RemoveAt(freeList, place)
                                 /\ rest = xBlockSize[block] - wanted
  OBVIOUS
<1>5. PICK sizes, new : sizes = Cut(xBlockSize, block, wanted) /\ new = block + wanted
  OBVIOUS
<1>6. PICK after : after = prvInsertBlockIntoFreeList(others, sizes, new)
  OBVIOUS
<1>7. PICK split \in BOOLEAN : split <=> rest > heapMINIMUM_BLOCK_SIZE
  <2>1. CASE rest > heapMINIMUM_BLOCK_SIZE
    BY <2>1
  <2>2. CASE ~(rest > heapMINIMUM_BLOCK_SIZE)
    BY <2>2
  <2> QED BY <2>1, <2>2
<1>8. /\ {i \in DOMAIN freeList : xBlockSize[freeList[i]] >= wanted} # {}
      /\ freeList' = IF split THEN after.list ELSE others
      /\ xBlockSize' = IF split THEN after.sizes ELSE xBlockSize
      /\ requested' = [b \in DOMAIN requested \union {block} |-> IF b = block THEN size ELSE requested[b]]
      /\ xFreeBytesRemaining' = xFreeBytesRemaining - (IF split THEN wanted ELSE xBlockSize[block])
      /\ xMinimumEverFreeBytesRemaining' = Min({xMinimumEverFreeBytesRemaining, xFreeBytesRemaining'})
  <2>1. CASE split
    BY <1>1, <1>2, <1>3, <1>4, <1>5, <1>6, <1>7, <2>1
  <2>2. CASE ~split
    BY <1>1, <1>2, <1>3, <1>4, <1>5, <1>6, <1>7, <2>2
  <2> QED BY <2>1, <2>2
<1>9. /\ size \in Nat /\ wanted \in Nat \ {0} /\ wanted >= size + xHeapStructSize
      /\ xHeapStructSize \in Nat \ {0}
  <2>1. size \in Nat
    BY Heap4Assumption
  <2>2. /\ Rounded(size) \in Nat /\ Rounded(size) >= size + xHeapStructSize
        /\ xHeapStructSize \in Nat \ {0}
    BY <2>1, RoundedUp
  <2> QED BY <1>2, <2>1, <2>2
<1>10. place \in DOMAIN freeList /\ xBlockSize[block] >= wanted
  <2>1. freeList \in Seq(Nat)
    BY DEF HeapInv
  <2>2. {i \in DOMAIN freeList : xBlockSize[freeList[i]] >= wanted} \in SUBSET Nat
    BY <2>1, LenProperties
  <2> QED BY <1>3, <1>4, <1>8, <2>2, MinExists
<1>11. PICK free : free = ToSet(freeList)
  OBVIOUS
<1>12. /\ others \in Seq(Nat) /\ Ascending(others) /\ ToSet(others) = free \ {block}
       /\ block \in free
  <2>1. freeList \in Seq(Nat) /\ Ascending(freeList)
    BY DEF HeapInv
  <2>2. place \in 1 .. Len(freeList)
    BY <1>10, <2>1, LenProperties
  <2>3. block \in free
    BY <1>4, <1>10, <1>11 DEF ToSet
  <2> QED BY <1>4, <1>11, <2>1, <2>2, <2>3, RemovedAscends
<1>13. /\ free \subseteq DOMAIN xBlockSize /\ block \in DOMAIN xBlockSize
       /\ Tiled(xBlockSize) /\ Apart(xBlockSize, free \ {block})
       /\ block \in Nat /\ xBlockSize[block] \in Nat /\ block \notin DOMAIN requested
       /\ IsFiniteSet(free) /\ \A b \in free : xBlockSize[b] \in Nat
  <2>1. free \subseteq DOMAIN xBlockSize /\ block \in DOMAIN xBlockSize /\ block \notin DOMAIN requested
    BY <1>11, <1>12 DEF HeapInv
  <2>2. Tiled(xBlockSize)
    BY DEF HeapInv
  <2>3. Apart(xBlockSize, free \ {block})
    BY <1>11 DEF HeapInv, Apart
  <2>4. block \in Nat /\ xBlockSize[block] \in Nat /\ \A b \in free : xBlockSize[b] \in Nat
    BY <2>1, <2>2 DEF Tiled
  <2>5. IsFiniteSet(free)
    BY <2>1, <2>2, FS_Subset DEF Tiled
  <2> QED BY <2>1, <2>2, <2>3, <2>4, <2>5
<1>14. PICK kept : kept = TotalSize(xBlockSize, free \ {block})
  OBVIOUS
<1>15. xFreeBytesRemaining = xBlockSize[block] + kept /\ kept \in Nat
  <2>1. /\ TotalSize(xBlockSize, free) = xBlockSize[block] + TotalSize(xBlockSize, free \ {block})
        /\ TotalSize(xBlockSize, free \ {block}) \in Nat
    BY <1>12, <1>13, TotalAdds
  <2> QED BY <1>11, <1>14, <2>1 DEF HeapInv
<1>16. /\ DOMAIN requested' = DOMAIN requested \cup {block} /\ requested'[block] = size
       /\ \A b \in DOMAIN requested : requested'[b] = requested[b]
  BY <1>8, <1>13
<1>17. /\ Tiled(xBlockSize') /\ freeList' \in Seq(Nat) /\ Ascending(freeList')
       /\ ToSet(freeList') \subseteq DOMAIN xBlockSize' /\ Apart(xBlockSize', ToSet(freeList'))
       /\ DOMAIN xBlockSize' \ ToSet(freeList') = DOMAIN requested'
       /\ \A b \in DOMAIN requested : xBlockSize'[b] = xBlockSize[b]
       /\ xBlockSize'[block] >= wanted /\ xBlockSize'[block] \in Nat
       /\ xFreeBytesRemaining' = TotalSize(xBlockSize', ToSet(freeList'))
  <2>1. CASE ~split
    <3>1. /\ freeList' = others /\ xBlockSize' = xBlockSize
          /\ xFreeBytesRemaining' = xFreeBytesRemaining - xBlockSize[block]
      BY <1>8, <2>1
    <3>2. xFreeBytesRemaining' = kept
      BY <1>13, <1>15, <3>1
    <3>3. DOMAIN xBlockSize \ (free \ {block}) = DOMAIN requested \cup {block}
      BY <1>11, <1>13 DEF HeapInv
    <3> QED BY <1>10, <1>12, <1>13, <1>14, <1>16, <3>1, <3>2, <3>3
  <2>2. CASE split
    <3>1. rest > 0 /\ rest \in Nat /\ wanted < xBlockSize[block]
      <4>1. heapMINIMUM_BLOCK_SIZE \in Nat /\ rest > heapMINIMUM_BLOCK_SIZE
        BY <1>7, <1>9, <2>2 DEF heapMINIMUM_BLOCK_SIZE
      <4>2. rest = xBlockSize[block] - wanted /\ rest \in Int
        BY <1>4, <1>9, <1>13
      <4> QED BY <1>9, <1>13, <4>1, <4>2
    <3>2. /\ Tiled(sizes) /\ new \notin DOMAIN xBlockSize /\ new \in DOMAIN sizes
          /\ sizes[new] = rest
          /\ \A b \in DOMAIN xBlockSize \ {block} : sizes[b] = xBlockSize[b]
          /\ sizes[block] = wanted /\ DOMAIN sizes = DOMAIN xBlockSize \cup {new}
      <4>1. /\ Tiled(xBlockSize) /\ block \in DOMAIN xBlockSize /\ wanted \in Nat /\ wanted > 0
            /\ wanted < xBlockSize[block] /\ sizes = Cut(xBlockSize, block, wanted)
        BY <1>5, <1>9, <1>13, <3>1
      <4> QED BY <1>4, <1>5, <4>1, SplitKeepsPartition
    <3>3. /\ ToSet(others) \subseteq DOMAIN sizes /\ new \notin ToSet(others)
          /\ \A b \in ToSet(others) : sizes[b] = xBlockSize[b] /\ xBlockSize[b] \in Nat
      BY <1>12, <1>13, <3>2
    <3>4. Apart(sizes, ToSet(others))
      BY <1>12, <1>13, <3>3 DEF Apart
    <3>5. /\ after.list \in Seq(Nat) /\ Ascending(after.list)
          /\ Tiled(after.sizes) /\ Apart(after.sizes, ToSet(after.list))
          /\ ToSet(after.list) \subseteq DOMAIN after.sizes
          /\ DOMAIN after.sizes \ ToSet(after.list) = DOMAIN sizes \ (ToSet(others) \cup {new})
          /\ \A b \in DOMAIN after.sizes \ ToSet(after.list) : after.sizes[b] = sizes[b]
          /\ TotalSize(after.sizes, ToSet(after.list)) = TotalSize(sizes, ToSet(others)) + sizes[new]
      <4>1. others \in Seq(Nat) /\ Ascending(others) /\ Tiled(sizes) /\ new \in DOMAIN sizes
        BY <1>12, <3>2
      <4>2. ToSet(others) \subseteq DOMAIN sizes /\ new \notin ToSet(others)
        BY <3>3
      <4> QED BY <1>6, <3>4, <4>1, <4>2, InsertKeepsPartition
    <3>6. TotalSize(sizes, ToSet(others)) = kept
      <4>1. IsFiniteSet(ToSet(others))
        BY <1>12, <1>13, FS_RemoveElement
      <4>2. TotalSize(sizes, ToSet(others)) = TotalSize(xBlockSize, ToSet(others))
        BY <3>3, <4>1, TotalSame
      <4> QED BY <1>12, <1>14, <4>2
    <3>7. /\ freeList' = after.list /\ xBlockSize' = after.sizes
          /\ xFreeBytesRemaining' = xFreeBytesRemaining - wanted
      BY <1>8, <2>2
    <3>8. xFreeBytesRemaining' = kept + rest
      BY <1>4, <1>9, <1>13, <1>15, <3>7
    <3>9. DOMAIN sizes \ (ToSet(others) \cup {new}) = DOMAIN requested \cup {block}
      BY <1>11, <1>12, <1>13, <3>2 DEF HeapInv
    <3>10. \A b \in DOMAIN requested \cup {block} : after.sizes[b] = sizes[b]
      BY <3>5, <3>9
    <3>11. \A b \in DOMAIN requested : sizes[b] = xBlockSize[b]
      BY <1>13, <3>2 DEF HeapInv
    <3> QED BY <1>9, <1>16, <3>2, <3>5, <3>6, <3>7, <3>8, <3>9, <3>10, <3>11
  <2> QED BY <2>1, <2>2
<1>18. \A b \in DOMAIN requested' : /\ requested'[b] \in Nat
                                    /\ requested'[b] + xHeapStructSize <= xBlockSize'[b]
  <2> TAKE b \in DOMAIN requested'
  <2>1. CASE b = block
    BY <1>9, <1>16, <1>17, <2>1
  <2>2. CASE b \in DOMAIN requested
    BY <1>16, <1>17, <2>2 DEF HeapInv
  <2> QED BY <1>16, <2>1, <2>2
<1>19. xFreeBytesRemaining' \in Nat
  BY <1>17, FreeIsNat
<1>20. /\ xMinimumEverFreeBytesRemaining' \in Nat
       /\ xMinimumEverFreeBytesRemaining' <= xFreeBytesRemaining'
  BY <1>8, <1>19, LowerOfTwo DEF HeapInv
<1> QED BY <1>17, <1>18, <1>20 DEF HeapInv

\* The invariant says that the heap is partitioned.
LEMMA HeapInvImplies == HeapInv /\ BlocksAligned => HeapPartition
<1> SUFFICES ASSUME HeapInv, BlocksAligned PROVE HeapPartition
  OBVIOUS
<1>1. /\ 0 \in Block /\ \A b \in Block : EndOf(b) \in Block \union {HeapEnd}
      /\ \A b, c \in Block : b < c => EndOf(b) <= c
  BY DEF HeapInv, Tiled, Block, EndOf
<1>2. /\ Block = ToSet(freeList) \union DOMAIN requested
      /\ ToSet(freeList) \intersect DOMAIN requested = {}
  BY DEF HeapInv, Block
<1>3. \A i, j \in DOMAIN freeList : i < j => EndOf(freeList[i]) < freeList[j]
  <2> SUFFICES ASSUME NEW i \in DOMAIN freeList, NEW j \in DOMAIN freeList, i < j
               PROVE  EndOf(freeList[i]) < freeList[j]
    OBVIOUS
  <2>1. freeList[i] \in ToSet(freeList) /\ freeList[j] \in ToSet(freeList)
    BY DEF ToSet
  <2>2. freeList[i] < freeList[j]
    BY DEF HeapInv, Ascending
  <2> QED BY <2>1, <2>2 DEF HeapInv, Apart, EndOf
<1>4. \A b \in DOMAIN requested : requested[b] + xHeapStructSize <= xBlockSize[b]
  BY DEF HeapInv
<1>5. /\ xFreeBytesRemaining = TotalSize(xBlockSize, ToSet(freeList))
      /\ xMinimumEverFreeBytesRemaining <= xFreeBytesRemaining
  BY DEF HeapInv
<1> QED BY <1>1, <1>2, <1>3, <1>4, <1>5 DEF HeapPartition

(* The inductive invariant of the heap.                                    *)
THEOREM HeapInvariant == HeapInit /\ [][HeapNext]_heapVars => []HeapInv
<1>1. ASSUME HeapInv, [HeapNext]_heapVars PROVE HeapInv'
  <2>1. CASE pvPortMalloc
    BY <1>1, <2>1, HeapInvMalloc
  <2>2. ASSUME NEW block \in DOMAIN requested, vPortFree(block) PROVE HeapInv'
    BY <1>1, <2>2, HeapInvFree
  <2>3. CASE UNCHANGED heapVars
    BY <1>1, <2>3 DEF HeapInv, heapVars
  <2> QED BY <1>1, <2>1, <2>2, <2>3 DEF HeapNext
<1>2. HeapInit => HeapInv
  BY HeapInvInit
<1> QED BY <1>1, <1>2, PTL

\* Aligned distances add up to aligned ones, and what malloc cuts off is one.
LEMMA AlignedSums ==
    ASSUME NEW T \in Int, T > 0, NEW a \in Int, NEW b \in Int, a % T = 0, b % T = 0
    PROVE  (a + b) % T = 0
<1>1. PICK c \in Int, d \in Int : a = c * T + 0 /\ b = d * T + 0
  <2>1. a \div T \in Int /\ b \div T \in Int /\ a = (a \div T) * T + (a % T)
        /\ b = (b \div T) * T + (b % T)
    BY Division
  <2>2. a = (a \div T) * T + 0 /\ b = (b \div T) * T + 0
    BY <2>1, ZenonT(20)
  <2> QED BY <2>1, <2>2, ZenonT(20)
<1>2. PICK sum \in Int : sum = a + b
  OBVIOUS
<1>3. PICK q \in Int, r \in 0 .. T - 1 : r = sum % T /\ sum = q * T + r
  <2>1. sum % T \in 0 .. T - 1 /\ sum \div T \in Int /\ sum = (sum \div T) * T + (sum % T)
    BY Division
  <2> QED BY <2>1, ZenonT(20)
<1>4. (c + d) \in Int /\ 0 \in 0 .. T - 1 /\ (c + d) * T + 0 = q * T + r
  BY <1>1, <1>2, <1>3
<1>5. r = 0
  BY <1>4, OneDivision
<1> QED BY <1>2, <1>3, <1>5

\* What malloc takes is a multiple of the alignment.
LEMMA RoundedIsAligned ==
    ASSUME NEW size \in Nat
    PROVE  Rounded(size) % Alignment = 0
<1>1. Alignment \in Nat \ {0} /\ xHeapStructSize \in Nat
  BY Heap4Assumption
<1>2. PICK wanted \in Nat : wanted = size + xHeapStructSize
  BY <1>1
<1>3. PICK over \in 0 .. Alignment - 1, turns \in Int :
          over = wanted % Alignment /\ wanted = turns * Alignment + over
  <2>1. /\ wanted % Alignment \in 0 .. Alignment - 1 /\ wanted \div Alignment \in Int
        /\ wanted = (wanted \div Alignment) * Alignment + (wanted % Alignment)
    BY <1>1, Division
  <2> QED BY <2>1, ZenonT(20)
<1>4. CASE over = 0
  <2>1. (Alignment - over) % Alignment = 0
    BY <1>1, <1>4, NearRemainder
  <2> QED BY <1>2, <1>3, <1>4, <2>1 DEF Rounded
<1>5. CASE over # 0
  <2>1. (Alignment - over) % Alignment = Alignment - over
    BY <1>1, <1>5, NearRemainder
  <2>2. Rounded(size) = wanted + (Alignment - over)
    BY <1>2, <1>3, <2>1 DEF Rounded
  <2>3. turns + 1 \in Int /\ Rounded(size) = (turns + 1) * Alignment + 0
    BY <1>1, <1>3, <2>2
  <2>4. /\ Rounded(size) % Alignment \in 0 .. Alignment - 1 /\ Rounded(size) \div Alignment \in Int
        /\ Rounded(size) = (Rounded(size) \div Alignment) * Alignment + (Rounded(size) % Alignment)
    BY <1>1, <2>3, Division
  <2> QED BY <1>1, <2>3, <2>4, OneDivision
<1> QED BY <1>4, <1>5

(* Every block is aligned.  Merging makes no new one, and cutting makes    *)
(* one at an aligned distance.  (pvPortMalloc, vPortFree)                  *)
THEOREM BlocksStayAligned == HeapInit /\ [][HeapNext]_heapVars => []BlocksAligned
<1>1. HeapInit => BlocksAligned
  <2>1. 0 % Alignment = 0
    BY Heap4Assumption, NearRemainder
  <2> QED BY <2>1 DEF HeapInit, BlocksAligned, Block
<1>2. ASSUME HeapInv, BlocksAligned, [HeapNext]_heapVars PROVE BlocksAligned'
  <2>1. ASSUME NEW list, NEW sizes, NEW block
        PROVE  DOMAIN prvInsertBlockIntoFreeList(list, sizes, block).sizes \subseteq DOMAIN sizes
    BY DEF prvInsertBlockIntoFreeList
  <2>2. CASE pvPortMalloc
    <3>1. PICK size \in Requests \ {0} :
             LET wanted == Rounded(size)
                 fits == {i \in DOMAIN freeList : xBlockSize[freeList[i]] >= wanted}
                 block == freeList[Min(fits)]
                 others == RemoveAt(freeList, Min(fits))
             IN  /\ fits # {}
                 /\ \/ xBlockSize' = xBlockSize
                    \/ xBlockSize' = prvInsertBlockIntoFreeList(others, Cut(xBlockSize, block, wanted),
                                                                block + wanted).sizes
      BY <2>2 DEF pvPortMalloc
    <3>2. PICK wanted, place, block :
             /\ wanted = Rounded(size) /\ block = freeList[place]
             /\ place = Min({i \in DOMAIN freeList : xBlockSize[freeList[i]] >= wanted})
      OBVIOUS
    <3>3. wanted \in Nat /\ wanted % Alignment = 0
      BY <3>2, Heap4Assumption, RoundedUp, RoundedIsAligned
    <3>4. place \in DOMAIN freeList
      <4>1. {i \in DOMAIN freeList : xBlockSize[freeList[i]] >= wanted} \in SUBSET Nat
        BY <1>2, LenProperties DEF HeapInv
      <4> QED BY <3>1, <3>2, <4>1, MinExists
    <3>5. block \in Block /\ block \in Nat
      <4>1. block \in ToSet(freeList)
        BY <3>2, <3>4 DEF ToSet
      <4>2. ToSet(freeList) \subseteq DOMAIN xBlockSize /\ DOMAIN xBlockSize \subseteq Nat
        BY <1>2 DEF HeapInv, Tiled
      <4> QED BY <4>1, <4>2 DEF Block
    <3>6. (block + wanted) % Alignment = 0
      <4>1. block % Alignment = 0 /\ Alignment \in Int /\ Alignment > 0
        BY <1>2, <3>5, Heap4Assumption DEF BlocksAligned
      <4>2. wanted \in Int /\ block \in Int
        BY <3>3, <3>5
      <4> QED BY <3>3, <4>1, <4>2, AlignedSums
    <3>7. DOMAIN xBlockSize' \subseteq DOMAIN xBlockSize \union {block + wanted}
      <4>1. DOMAIN Cut(xBlockSize, block, wanted) = DOMAIN xBlockSize \union {block + wanted}
        BY DEF Cut
      <4> QED BY <2>1, <3>1, <3>2, <4>1
    <3> QED BY <1>2, <3>6, <3>7 DEF BlocksAligned, Block
  <2>3. ASSUME NEW block \in DOMAIN requested, vPortFree(block) PROVE BlocksAligned'
    <3>1. DOMAIN xBlockSize' \subseteq DOMAIN xBlockSize
      BY <2>1, <2>3 DEF vPortFree
    <3> QED BY <1>2, <3>1 DEF BlocksAligned, Block
  <2>4. CASE UNCHANGED heapVars
    BY <1>2, <2>4 DEF BlocksAligned, Block, heapVars
  <2> QED BY <1>2, <2>2, <2>3, <2>4 DEF HeapNext
<1> QED BY <1>1, <1>2, HeapInvariant, PTL

\* After any calls of pvPortMalloc and vPortFree the blocks fill the heap without a gap or an
\* overlap, every block is aligned, no two free blocks touch, and xFreeBytesRemaining is the
\* sum of the free blocks, whatever the size of the heap, the alignment and the requests.
THEOREM HeapStaysPartitioned == HeapInit /\ [][HeapNext]_heapVars => []HeapPartition
<1>1. HeapInv /\ BlocksAligned => HeapPartition
  BY HeapInvImplies
<1> QED BY <1>1, HeapInvariant, BlocksStayAligned, PTL

-----------------------------------------------------------------------------
(* The times of the timers, modulo TickModulus.                            *)

\* Periods are positive, and end with time to spare before the tick count comes round.
LEMMA PeriodType ==
    /\ TickModulus \in Int /\ TickModulus > 0 /\ Lateness \in Nat
    /\ \A p \in Period : p \in Nat \ {0} /\ p + Lateness + 1 < TickModulus
<1>1. Period \subseteq Nat \ {0}
  BY TimersAssumption DEF Period
<1> QED BY <1>1, TimersAssumption

LEMMA LatenessShort == ASSUME NEW t \in Timer PROVE Lateness < TickModulus
<1>1. InitialPeriod[t] \in Period
  BY DEF Period
<1>2. PICK p \in Period : p = InitialPeriod[t]
  BY <1>1
<1> QED BY PeriodType

\* A full time has an epoch and a tick count.
LEMMA EpochAndTicks ==
    ASSUME NEW n \in Int
    PROVE  /\ Ticks(n) \in 0 .. TickModulus - 1 /\ Epoch(n) \in Int
           /\ n = Epoch(n) * TickModulus + Ticks(n)
BY Division, PeriodType DEF Ticks, Epoch

\* Within a turn, the tick count went on or has wrapped once.
LEMMA SameOrNextEpoch ==
    ASSUME NEW m \in Int, NEW n \in Int, m <= n, n - m < TickModulus
    PROVE  \/ Epoch(n) = Epoch(m) /\ Ticks(n) = Ticks(m) + (n - m)
           \/ Epoch(n) = Epoch(m) + 1 /\ Ticks(n) = Ticks(m) + (n - m) - TickModulus
<1>1. n < m + TickModulus
  BY PeriodType
<1> QED BY <1>1, WithinOneTurn, PeriodType DEF Ticks, Epoch

\* A later time is in no earlier epoch.
LEMMA EpochsInOrder ==
    ASSUME NEW m \in Int, NEW n \in Int
    PROVE  /\ m <= n => Epoch(m) <= Epoch(n)
           /\ Epoch(m) < Epoch(n) => m < n
           /\ Epoch(m) = Epoch(n) => (m <= n <=> Ticks(m) <= Ticks(n))
<1>1. PICK a, b, r, s : a = Epoch(m) /\ b = Epoch(n) /\ r = Ticks(m) /\ s = Ticks(n)
  OBVIOUS
<1>2. /\ a \in Int /\ b \in Int /\ r \in 0 .. TickModulus - 1 /\ s \in 0 .. TickModulus - 1
      /\ m = a * TickModulus + r /\ n = b * TickModulus + s
  BY <1>1, EpochAndTicks
<1>3. ASSUME a < b PROVE m < n
  <2>1. PICK d \in Nat : b = a + 1 + d
    <3>1. b - a - 1 \in Nat /\ b = a + 1 + (b - a - 1)
      BY <1>2, <1>3
    <3> QED BY <3>1
  <2>2. b * TickModulus = a * TickModulus + TickModulus + d * TickModulus
    BY <1>2, <2>1, PeriodType
  <2>3. d * TickModulus >= 0 /\ d * TickModulus \in Int /\ a * TickModulus \in Int
    BY <1>2, PeriodType, SMTT(30)
  <2> QED BY <1>2, <2>2, <2>3, PeriodType
<1>4. ASSUME b < a PROVE n < m
  <2>1. PICK d \in Nat : a = b + 1 + d
    <3>1. a - b - 1 \in Nat /\ a = b + 1 + (a - b - 1)
      BY <1>2, <1>4
    <3> QED BY <3>1
  <2>2. a * TickModulus = b * TickModulus + TickModulus + d * TickModulus
    BY <1>2, <2>1, PeriodType
  <2>3. d * TickModulus >= 0 /\ d * TickModulus \in Int /\ b * TickModulus \in Int
    BY <1>2, PeriodType, SMTT(30)
  <2> QED BY <1>2, <2>2, <2>3, PeriodType
<1>5. ASSUME a = b PROVE m <= n <=> r <= s
  BY <1>2, <1>5, PeriodType
<1> QED BY <1>1, <1>2, <1>3, <1>4, <1>5

\* The tick count of a sum, and of a difference of less than a turn.
LEMMA TicksOfSum ==
    ASSUME NEW m \in Int, NEW n \in Int
    PROVE  /\ Ticks(Ticks(m) + n) = Ticks(m + n)
           /\ m <= n /\ n - m < TickModulus => /\ Ticks(n - Ticks(m)) = n - m
                                               /\ Ticks(Ticks(n) - Ticks(m)) = n - m
<1>1. PICK a, r : a = Epoch(m) /\ r = Ticks(m)
  OBVIOUS
<1>2. a \in Int /\ r \in 0 .. TickModulus - 1 /\ m = a * TickModulus + r
  BY <1>1, EpochAndTicks
<1>3. ASSUME NEW x \in Int, NEW y \in Int, NEW k \in Int, x = y + k * TickModulus
      PROVE  Ticks(x) = Ticks(y)
  <2>1. PICK b, s, c, t : b = Epoch(x) /\ s = Ticks(x) /\ c = Epoch(y) /\ t = Ticks(y)
    OBVIOUS
  <2>2. /\ b \in Int /\ s \in 0 .. TickModulus - 1 /\ x = b * TickModulus + s
        /\ c \in Int /\ t \in 0 .. TickModulus - 1 /\ y = c * TickModulus + t
    BY <2>1, EpochAndTicks
  <2>3. c + k \in Int /\ (c + k) * TickModulus = c * TickModulus + k * TickModulus
    BY <2>2, PeriodType
  <2>4. b * TickModulus + s = (c + k) * TickModulus + t
    <3>1. c * TickModulus \in Int /\ k * TickModulus \in Int
      BY <2>2, PeriodType
    <3> QED BY <1>3, <2>2, <2>3, <3>1
  <2>5. s = t
    BY <2>2, <2>3, <2>4, OneDivision, PeriodType
  <2> QED BY <2>1, <2>5
<1>4. Ticks(r + n) = Ticks(m + n)
  <2>1. m + n = (r + n) + a * TickModulus /\ a * TickModulus \in Int /\ r + n \in Int
    BY <1>2, PeriodType
  <2> QED BY <1>2, <1>3, <2>1
<1>5. ASSUME m <= n, n - m < TickModulus PROVE Ticks(n - r) = n - m
  <2>1. n - r = (n - m) + a * TickModulus /\ n - r \in Int /\ n - m \in Int
    BY <1>2, PeriodType
  <2>2. Ticks(n - r) = Ticks(n - m)
    BY <1>2, <1>3, <2>1
  <2>3. Ticks(n - m) = n - m
    BY <1>5, PeriodType, NearRemainder DEF Ticks
  <2> QED BY <2>2, <2>3
<1>6. ASSUME m <= n, n - m < TickModulus PROVE Ticks(Ticks(n) - r) = n - m
  <2>1. PICK b, s : b = Epoch(n) /\ s = Ticks(n)
    OBVIOUS
  <2>2. b \in Int /\ s \in Int /\ n = b * TickModulus + s
    BY <2>1, EpochAndTicks
  <2>3. n - r = (s - r) + b * TickModulus /\ n - r \in Int /\ s - r \in Int
    <3>1. b * TickModulus \in Int
      BY <2>2, PeriodType
    <3> QED BY <1>2, <2>2, <3>1, PeriodType
  <2>4. Ticks(n - r) = Ticks(s - r)
    BY <2>2, <1>3, <2>3
  <2> QED BY <1>5, <1>6, <2>1, <2>4
<1> QED BY <1>1, <1>4, <1>5, <1>6

\* prvInsertTimerInActiveList: of a command that is processed within a turn, the code tells
\* whether the period is over, and if it is not, whether it ends before the next wrap.
LEMMA InsertedByTime ==
    ASSUME NEW at \in Int, NEW now \in Int, at <= now, now - at < TickModulus,
           NEW p \in Period
    PROVE  /\ ProcessTimerNow(Ticks(at + p), Ticks(now), Ticks(at), p) <=> at + p <= now
           /\ at + p > now =>
                /\ Ticks(at + p) > Ticks(now) => Epoch(at + p) = Epoch(now)
                /\ Ticks(at + p) <= Ticks(now) => Epoch(at + p) = Epoch(now) + 1
<1>1. p \in Nat \ {0} /\ p < TickModulus /\ TickModulus \in Int /\ at + p \in Int
  BY PeriodType
<1>2. PICK end : end = at + p
  OBVIOUS
<1>3. PICK e, r, f, s, g, u : /\ e = Epoch(at) /\ r = Ticks(at) /\ f = Epoch(now) /\ s = Ticks(now)
                              /\ g = Epoch(end) /\ u = Ticks(end)
  OBVIOUS
<1>4. /\ e \in Int /\ f \in Int /\ g \in Int
      /\ r \in 0 .. TickModulus - 1 /\ s \in 0 .. TickModulus - 1 /\ u \in 0 .. TickModulus - 1
  BY <1>1, <1>2, <1>3, EpochAndTicks
<1>5. \/ f = e /\ s = r + (now - at)
      \/ f = e + 1 /\ s = r + (now - at) - TickModulus
  BY <1>3, SameOrNextEpoch
<1>6. \/ g = e /\ u = r + p
      \/ g = e + 1 /\ u = r + p - TickModulus
  <2>1. end - at = p /\ at <= end
    BY <1>1, <1>2
  <2> QED BY <1>1, <1>2, <1>3, <2>1, SameOrNextEpoch
<1>7. Ticks(s - r) = now - at
  BY <1>3, TicksOfSum
<1>8. ProcessTimerNow(u, s, r, p)
        <=> IF u <= s THEN now - at >= p ELSE s < r /\ u >= r
  BY <1>7 DEF ProcessTimerNow
<1>9. (IF u <= s THEN now - at >= p ELSE s < r /\ u >= r) <=> end <= now
  BY <1>1, <1>2, <1>4, <1>5, <1>6
<1>10. end > now => (u > s => g = f) /\ (u <= s => g = f + 1)
  BY <1>1, <1>2, <1>4, <1>5, <1>6
<1> QED BY <1>2, <1>3, <1>8, <1>9, <1>10

\* The last time with a given tick count is less than a turn ago.
LEMMA TimeAtType ==
    ASSUME NEW v \in 0 .. TickModulus - 1, clock \in Nat
    PROVE  /\ TimeAt(v) \in Int /\ TimeAt(v) <= clock /\ clock - TimeAt(v) < TickModulus
           /\ \A n \in Nat : n <= clock /\ v <= Ticks(n) => TimeAt(v) >= 0
           /\ TickModulus <= clock => TimeAt(v) >= 0
<1>1. PICK d : d = Ticks(clock - v)
  OBVIOUS
<1>2. d \in 0 .. TickModulus - 1 /\ TimeAt(v) = clock - d /\ TickModulus \in Int
  BY <1>1, PeriodType, EpochAndTicks DEF TimeAt
<1>3. ASSUME NEW n \in Nat, n <= clock, v <= Ticks(n) PROVE clock - d >= 0
  <2>1. CASE v <= clock
    <3>1. CASE clock - v < TickModulus
      <4>1. d = clock - v
        BY <1>1, <2>1, <3>1, PeriodType, NearRemainder DEF Ticks
      <4> QED BY <2>1, <4>1
    <3>2. CASE ~(clock - v < TickModulus)
      BY <1>2, <3>2
    <3> QED BY <3>1, <3>2
  <2>2. CASE ~(v <= clock)
    <3>1. n \in 0 .. TickModulus - 1
      BY <1>3, <2>2, PeriodType
    <3>2. Ticks(n) = n
      BY <3>1, PeriodType, NearRemainder DEF Ticks
    <3> QED BY <1>3, <2>2, <3>2
  <2> QED BY <2>1, <2>2
<1>4. TickModulus <= clock => clock - d >= 0
  BY <1>2
<1> QED BY <1>2, <1>3, <1>4

\* If that of d is not longer ago, it is d.
LEMMA TimeAtExact ==
    ASSUME clock \in Nat, NEW d \in Int, d <= clock, clock - d < TickModulus
    PROVE  TimeAt(Ticks(d)) = d
<1>1. Ticks(clock - Ticks(d)) = clock - d
  BY TicksOfSum
<1> QED BY <1>1 DEF TimeAt

\* The timer task finds a wrap only if there was one, and every one within a turn.
LEMMA WrapFound ==
    ASSUME clock \in Nat, lastTime \in Nat, lastTime <= clock
    PROVE  /\ SwitchDue => TickModulus <= clock
           /\ clock - lastTime < TickModulus =>
                 Epoch(clock) = IF SwitchDue THEN Epoch(lastTime) + 1 ELSE Epoch(lastTime)
<1>1. PICK r, s : r = Ticks(lastTime) /\ s = Ticks(clock)
  OBVIOUS
<1>2. r \in 0 .. TickModulus - 1 /\ s \in 0 .. TickModulus - 1
  BY <1>1, EpochAndTicks
<1>3. ASSUME s < r PROVE TickModulus <= clock
  <2>1. SUFFICES ASSUME clock < TickModulus PROVE FALSE
    BY PeriodType
  <2>2. clock \in 0 .. TickModulus - 1 /\ lastTime \in 0 .. TickModulus - 1
    BY <2>1, PeriodType
  <2>3. s = clock /\ r = lastTime
    BY <1>1, <2>2, PeriodType, NearRemainder DEF Ticks
  <2> QED BY <1>3, <2>3
<1>4. ASSUME clock - lastTime < TickModulus
      PROVE  Epoch(clock) = IF s < r THEN Epoch(lastTime) + 1 ELSE Epoch(lastTime)
  <2>1. \/ Epoch(clock) = Epoch(lastTime) /\ s = r + (clock - lastTime)
        \/ Epoch(clock) = Epoch(lastTime) + 1 /\ s = r + (clock - lastTime) - TickModulus
    BY <1>1, <1>4, SameOrNextEpoch
  <2> QED BY <1>2, <1>4, <2>1, PeriodType
<1> QED BY <1>1, <1>3, <1>4 DEF SwitchDue

-----------------------------------------------------------------------------
(* The two lists of timers, and the queue.                                 *)

\* A timer is in one place of one of the lists.
TwoLists(current, overflow) ==
    /\ current \in Seq(Timer) /\ overflow \in Seq(Timer)
    /\ IsInjective(current) /\ IsInjective(overflow)
    /\ \A t \in Timer : Contains(current, t) => ~Contains(overflow, t)

LEMMA InsertedInOneList ==
    ASSUME NEW current, NEW overflow, TwoLists(current, overflow),
           NEW t \in Timer, ~Contains(current, t), ~Contains(overflow, t),
           NEW expiry \in Int, NEW now \in Int, NEW at, NEW p, NEW late \in BOOLEAN,
           late <=> ProcessTimerNow(expiry, now, at, p),
           prvInsertTimerInActiveList(current, overflow, t, expiry, now, at, p)
    PROVE  /\ TwoLists(pxCurrentTimerList', pxOverflowTimerList')
           /\ \A u : Contains(pxCurrentTimerList', u)
                       <=> Contains(current, u) \/ (u = t /\ ~late /\ expiry > now)
           /\ \A u : Contains(pxOverflowTimerList', u)
                       <=> Contains(overflow, u) \/ (u = t /\ ~late /\ expiry <= now)
<1>1. /\ pxCurrentTimerList' = IF ~late /\ expiry > now THEN vListInsert(current, t, expiry)
                                                        ELSE current
      /\ pxOverflowTimerList' = IF ~late /\ expiry <= now THEN vListInsert(overflow, t, expiry)
                                                          ELSE overflow
  BY DEF prvInsertTimerInActiveList
<1>2. ASSUME NEW list \in Seq(Timer), IsInjective(list), ~Contains(list, t)
      PROVE  /\ vListInsert(list, t, expiry) \in Seq(Timer)
             /\ IsInjective(vListInsert(list, t, expiry))
             /\ \A u : Contains(vListInsert(list, t, expiry), u) <=> u = t \/ Contains(list, u)
  BY <1>2, InsertSortedProperties, InsertSortedExact DEF vListInsert
<1>3. /\ vListInsert(current, t, expiry) \in Seq(Timer)
      /\ IsInjective(vListInsert(current, t, expiry))
      /\ \A u : Contains(vListInsert(current, t, expiry), u) <=> u = t \/ Contains(current, u)
      /\ vListInsert(overflow, t, expiry) \in Seq(Timer)
      /\ IsInjective(vListInsert(overflow, t, expiry))
      /\ \A u : Contains(vListInsert(overflow, t, expiry), u) <=> u = t \/ Contains(overflow, u)
  BY <1>2 DEF TwoLists
<1>4. PICK c, o : c = vListInsert(current, t, expiry) /\ o = vListInsert(overflow, t, expiry)
  OBVIOUS
<1>5. expiry > now <=> ~(expiry <= now)
  OBVIOUS
<1> QED BY <1>1, <1>3, <1>4, <1>5 DEF TwoLists

LEMMA LeftBoth ==
    ASSUME NEW current, NEW overflow, TwoLists(current, overflow), NEW t
    PROVE  /\ TwoLists(Without(current, t), Without(overflow, t))
           /\ \A u : Contains(Without(current, t), u) <=> Contains(current, u) /\ u # t
           /\ \A u : Contains(Without(overflow, t), u) <=> Contains(overflow, u) /\ u # t
BY WithoutProperties, WithoutExact DEF TwoLists

LEMMA HeadLeft ==
    ASSUME NEW current, NEW overflow, TwoLists(current, overflow), current # <<>>
    PROVE  /\ Head(current) \in Timer /\ Contains(current, Head(current))
           /\ TwoLists(Tail(current), overflow)
           /\ \A u : Contains(Tail(current), u) <=> Contains(current, u) /\ u # Head(current)
BY TailExact DEF TwoLists

\* Places in a queue after something was put at its back.
LEMMA Appended ==
    ASSUME NEW S, NEW queue \in Seq(S), NEW m \in S, NEW new, new = Append(queue, m)
    PROVE  /\ new \in Seq(S) /\ Len(new) = Len(queue) + 1
           /\ \A i \in DOMAIN new : \/ i \in DOMAIN queue /\ new[i] = queue[i]
                                    \/ i = Len(queue) + 1 /\ new[i] = m
           /\ \A i \in DOMAIN queue : i \in DOMAIN new /\ new[i] = queue[i]
           /\ Len(queue) + 1 \in DOMAIN new /\ Len(queue) + 1 \notin DOMAIN queue
<1>1. /\ new \in Seq(S) /\ Len(new) = Len(queue) + 1 /\ new[Len(queue) + 1] = m
      /\ \A k \in 1 .. Len(queue) : new[k] = queue[k]
      /\ Len(queue) \in Nat /\ DOMAIN new = 1 .. Len(queue) + 1 /\ DOMAIN queue = 1 .. Len(queue)
  BY AppendProperties, LenProperties
<1> QED BY <1>1

\* And after the first was taken out.
LEMMA Shifted ==
    ASSUME NEW S, NEW queue \in Seq(S), queue # <<>>
    PROVE  /\ Tail(queue) \in Seq(S) /\ Len(Tail(queue)) = Len(queue) - 1
           /\ Head(queue) \in S /\ 1 \in DOMAIN queue /\ queue[1] = Head(queue)
           /\ \A i \in DOMAIN Tail(queue) : i + 1 \in DOMAIN queue /\ Tail(queue)[i] = queue[i + 1]
           /\ \A i \in DOMAIN queue : i # 1 => \E j \in DOMAIN Tail(queue) : i = j + 1
           /\ DOMAIN Tail(queue) \subseteq Nat /\ DOMAIN queue \subseteq Nat
<1>1. /\ Head(queue) \in S /\ Head(queue) = queue[1] /\ Len(queue) \in Nat \ {0}
      /\ DOMAIN queue = 1 .. Len(queue)
      /\ Tail(queue) \in Seq(S) /\ Len(Tail(queue)) = Len(queue) - 1
      /\ DOMAIN Tail(queue) = 1 .. Len(queue) - 1
      /\ \A a \in 1 .. Len(queue) - 1 : Tail(queue)[a] = queue[a + 1]
  BY EmptySeq, HeadTailProperties, LenProperties
<1>2. ASSUME NEW i \in 1 .. Len(queue), i # 1
      PROVE  \E j \in 1 .. Len(queue) - 1 : i = j + 1
  <2>1. i - 1 \in 1 .. Len(queue) - 1 /\ i = (i - 1) + 1
    BY <1>1, <1>2
  <2> QED BY <2>1
<1>3. PICK tail, n : tail = Tail(queue) /\ n = Len(queue)
  OBVIOUS
<1>4. /\ \A i \in 1 .. n - 1 : i + 1 \in 1 .. n
      /\ 1 .. n - 1 \subseteq Nat /\ 1 .. n \subseteq Nat /\ 1 \in 1 .. n
  BY <1>1, <1>3
<1> QED BY <1>1, <1>2, <1>3, <1>4, Zenon

-----------------------------------------------------------------------------
(* The invariant of the timers.                                            *)

ListTypes ==
    /\ xItemValue \in [Timer -> 0..(TickModulus - 1)]
    /\ TwoLists(pxCurrentTimerList, pxOverflowTimerList)
    /\ \A t \in Timer : Listed(t) => t # command.timer /\ t \notin freed

TaskTypes ==
    /\ clock \in FirstTick..MaxClock /\ lastTime \in 0..clock
    /\ command \in Message \union {NoCommand}
    /\ pc \in {"look", "blocked", "expire", "switch", "reload", "commands", "sample", "act",
               "call", "restart"}
    /\ suspended \in BOOLEAN /\ (suspended => pc \in {"switch", "reload"})
    /\ fault \in {"none", "configASSERT", "freed memory"}
    /\ wakeTime \in Nat \union {Never}
    /\ reload \in (Timer \union {NoTimer}) \X Nat

DataTypes ==
    /\ xTimerPeriodInTicks \in [Timer -> Period]
    /\ xTimerQueue \in Seq(Message \union {Callback}) /\ Len(xTimerQueue) <= QueueLength
    /\ freed \subseteq deleting /\ deleting \subseteq Timer /\ overtaken \subseteq Timer
    /\ due \in [Timer -> Nat \union {Stopped}]

LEMMA TypesAre == TypeOK <=> ListTypes /\ TaskTypes /\ DataTypes
BY DEF TypeOK, ListTypes, TaskTypes, DataTypes, TwoLists

\* A time that has come, less than a turn ago.
Recent(time) == time <= clock /\ clock - time < TickModulus

\* A command reached the queue, or was taken from it, in time, and says what it needs to.
Valid(m) ==
    /\ Recent(m.at)
    /\ m.id = "CHANGE_PERIOD" => m.period \in Period
    /\ m.id = "DELETE" => m.timer \in deleting

\* The timer task has read the tick count for the command it is processing.
ActedOn == pc \in {"act", "call"} \/ (pc \in {"switch", "reload"} /\ ~suspended)

QueueValid == \A i \in DOMAIN xTimerQueue : xTimerQueue[i].timer # NoTimer => Valid(xTimerQueue[i])

CommandValid ==
    /\ command # NoCommand => Valid(command)
    /\ command # NoCommand <=> pc = "sample" \/ ActedOn
    /\ command # NoCommand /\ fault = "none" => command.timer \notin freed
    /\ ActedOn => command.at <= lastTime /\ (clock = lastTime \/ clock <= command.at + Lateness)
    /\ pc = "call" => /\ command.id \in StartCommands
                      /\ command.at + xTimerPeriodInTicks[command.timer] <= lastTime

\* What the timer task holds at each place of its program.
StageKept ==
    /\ reload[1] # NoTimer <=> pc \in {"reload", "restart"}
    /\ reload[1] # NoTimer => /\ Recent(reload[2]) /\ ~Listed(reload[1])
                              /\ reload[1] # command.timer
    /\ pc = "expire" => pxCurrentTimerList # <<>> /\ prvGetNextExpireTime <= Ticks(lastTime)
    /\ pc \in {"switch", "reload"} => TickModulus <= lastTime

\* The turn of the tick count whose times are in the current list.
ListsEpoch == IF pc \in {"switch", "reload"} THEN Epoch(lastTime) - 1 ELSE Epoch(lastTime)

\* A timer in a list is there with the time at which it is due.
ListedRight(t) ==
    Listed(t) =>
        /\ due[t] # Stopped /\ xItemValue[t] = Ticks(due[t])
        /\ due[t] <= lastTime + xTimerPeriodInTicks[t] /\ clock <= due[t] + Lateness
        /\ Epoch(due[t]) = IF Contains(pxCurrentTimerList, t) THEN ListsEpoch ELSE ListsEpoch + 1

\* One that is to be started again is due a period after the time noted for that, and is
\* noted once.
AfterReload(t, at) == due[t] = at + xTimerPeriodInTicks[t]
IsReload(i, t) == xTimerQueue[i].timer = t /\ xTimerQueue[i].id = "START_DONT_TRACE"

QueuedRight(t) ==
    \A i \in DOMAIN xTimerQueue : IsReload(i, t) =>
        /\ AfterReload(t, xTimerQueue[i].at)
        /\ ~Listed(t) /\ command.timer # t /\ reload[1] # t
        /\ \A j \in DOMAIN xTimerQueue : IsReload(j, t) => j = i

HeldRight(t) ==
    /\ command.timer = t /\ (command.id = "START_DONT_TRACE" \/ pc = "call")
           => AfterReload(t, command.at)
    /\ reload[1] = t => AfterReload(t, reload[2])

\* And one that is nowhere is not due.
ElseStopped(t) ==
    ~Listed(t) /\ ~ReloadQueued(t) /\ command.timer # t /\ reload[1] # t /\ fault = "none"
        => due[t] = Stopped

Standing(t) == ListedRight(t) /\ QueuedRight(t) /\ HeldRight(t) /\ ElseStopped(t)

TimersInv ==
    /\ ListTypes /\ TaskTypes /\ DataTypes
    /\ QueueValid /\ CommandValid /\ StageKept
    /\ \A t \in Timer \ overtaken : Standing(t)

-----------------------------------------------------------------------------
(* The steps of the invariant.                                             *)

LEMMA MessageTypes ==
    ASSUME NEW m \in Message \union {Callback, NoCommand}
    PROVE  /\ m.timer = NoTimer <=> m \in {Callback, NoCommand}
           /\ m \in Message => m.timer \in Timer /\ m.at \in Nat /\ m.period \in Period \union {0}
           /\ m = NoCommand => m.id = "none" /\ m.timer = NoTimer
           /\ m = Callback => m.timer = NoTimer
           /\ m \in Message => m # NoCommand /\ m # Callback
BY TimersAssumption DEF Message, Callback, NoCommand

LEMMA QueuedMessage ==
    ASSUME DataTypes, NEW i \in DOMAIN xTimerQueue
    PROVE  /\ xTimerQueue[i] \in Message \union {Callback}
           /\ xTimerQueue[i].timer # NoTimer =>
                 /\ xTimerQueue[i] \in Message /\ xTimerQueue[i].at \in Nat
                 /\ xTimerQueue[i].timer \in Timer /\ xTimerQueue[i].period \in Period \union {0}
<1>1. xTimerQueue[i] \in Message \union {Callback}
  BY DEF DataTypes
<1> QED BY <1>1, MessageTypes

LEMMA TimersInvInit == Init => TimersInv
<1> SUFFICES ASSUME Init PROVE TimersInv
  OBVIOUS
<1>1. /\ <<>> \in Seq(Timer) /\ IsInjective(<<>>)
      /\ \A t : ~Contains(<<>>, t)
  BY DEF Contains, IsInjective
<1>2. ListTypes
  <2>1. 0 \in 0 .. TickModulus - 1
    BY PeriodType
  <2> QED BY <1>1, <2>1, EmptySeq DEF Init, ListTypes, TwoLists, Listed, IsInjective, Contains
<1>3. TaskTypes
  <2>1. FirstTick \in FirstTick .. MaxClock /\ 0 \in 0 .. FirstTick /\ 0 \in Nat
    BY TimersAssumption
  <2> QED BY <2>1 DEF Init, TaskTypes
<1>4. DataTypes
  <2>1. xTimerPeriodInTicks \in [Timer -> Period]
    BY TimersAssumption DEF Init, Period
  <2>2. xTimerQueue \in Seq(Message \union {Callback}) /\ Len(xTimerQueue) <= QueueLength
    BY TimersAssumption DEF Init
  <2> QED BY <2>1, <2>2 DEF Init, DataTypes
<1>5. QueueValid
  BY DEF Init, QueueValid
<1>6. CommandValid
  BY DEF Init, CommandValid, ActedOn
<1>7. StageKept
  BY DEF Init, StageKept
<1>8. ASSUME NEW t \in Timer PROVE Standing(t)
  <2>1. NoTimer # t
    BY TimersAssumption
  <2> QED BY <2>1 DEF Init, Standing, ListedRight, QueuedRight, HeldRight, ElseStopped, Listed, Contains,
           NoCommand
<1> QED BY <1>2, <1>3, <1>4, <1>5, <1>6, <1>7, <1>8 DEF TimersInv

LEMMA TimeTypes ==
    ASSUME TaskTypes
    PROVE  /\ clock \in Nat /\ lastTime \in Nat /\ lastTime <= clock
           /\ FirstTick \in Nat /\ MaxClock \in Nat /\ FirstTick <= clock /\ clock <= MaxClock
<1>1. FirstTick \in Nat /\ MaxClock \in Nat
  BY TimersAssumption
<1>2. clock \in FirstTick..MaxClock /\ lastTime \in 0..clock
  BY DEF TaskTypes
<1> QED BY <1>1, <1>2

LEMMA HeldTypes ==
    ASSUME TaskTypes
    PROVE  /\ command \in Message \union {NoCommand}
           /\ command = NoCommand <=> command.timer = NoTimer
           /\ command # NoCommand => /\ command \in Message /\ command.at \in Nat
                                     /\ command.timer \in Timer /\ command.timer # NoTimer
                                     /\ command.period \in Period \union {0}
           /\ reload = <<reload[1], reload[2]>> /\ reload[1] \in Timer \union {NoTimer} /\ reload[2] \in Nat
           /\ NoTimer \notin Timer
<1>1. command \in Message \union {NoCommand} /\ reload \in (Timer \union {NoTimer}) \X Nat
  BY DEF TaskTypes
<1>2. command \in Message => command.timer \in Timer /\ command # NoCommand /\ command.at \in Nat
                             /\ command.period \in Period \union {0}
  BY MessageTypes
<1>3. NoTimer \notin Timer /\ NoCommand.timer = NoTimer
  BY TimersAssumption DEF NoCommand
<1> QED BY <1>1, <1>2, <1>3

LEMMA TickKeepsTimers == ASSUME TimersInv, xTaskIncrementTick PROVE TimersInv'
<1>0. /\ ListTypes /\ TaskTypes /\ DataTypes /\ QueueValid /\ CommandValid /\ StageKept
      /\ \A t \in Timer \ overtaken : Standing(t)
  BY DEF TimersInv
<1>1. /\ clock \in Nat /\ lastTime \in Nat /\ lastTime <= clock
      /\ Lateness \in Nat /\ TickModulus \in Int
  BY <1>0, TimeTypes, PeriodType
<1>2. /\ clock' = clock + 1 /\ clock < MaxClock /\ ~suspended
      /\ pc' = IF pc = "blocked" /\ wakeTime # Never /\ wakeTime <= clock + 1 THEN "commands" ELSE pc
      /\ UNCHANGED <<lists, xTimerPeriodInTicks, xTimerQueue, freed, suspended, lastTime, wakeTime,
                     command, reload, fault, deleting, promise>>
  BY DEF xTaskIncrementTick
<1>3. UNCHANGED <<pxCurrentTimerList, pxOverflowTimerList, xItemValue, due, overtaken>>
  BY <1>2 DEF lists, promise
<1>late. InTime(clock + 1)
  BY DEF xTaskIncrementTick
<1>4. /\ \A stage \in {"expire", "switch", "reload", "sample", "act", "call", "restart"} :
              pc' = stage <=> pc = stage
  BY <1>2
<1>5. ListTypes'
  BY <1>0, <1>2, <1>3 DEF ListTypes, Listed, TwoLists
<1>6. TaskTypes'
  <2>1. clock' \in FirstTick .. MaxClock /\ lastTime' \in 0 .. clock'
    BY <1>0, <1>1, <1>2, TimeTypes
  <2> QED BY <1>0, <1>2, <2>1 DEF TaskTypes
<1>7. DataTypes'
  BY <1>0, <1>2, <1>3 DEF DataTypes
<1>8. ASSUME NEW time \in Int, NEW t \in Timer, Recent(time), clock + 1 - time <= Lateness
      PROVE  Recent(time)'
  BY <1>1, <1>2, <1>8, LatenessShort DEF Recent
<1>9. QueueValid'
  <2> SUFFICES ASSUME NEW i \in DOMAIN xTimerQueue, xTimerQueue[i].timer # NoTimer
               PROVE  Valid(xTimerQueue[i])'
    BY <1>2 DEF QueueValid
  <2>1. Valid(xTimerQueue[i]) /\ xTimerQueue[i].at \in Int /\ xTimerQueue[i].timer \in Timer
    BY <1>0, QueuedMessage DEF QueueValid
  <2>2. clock + 1 - xTimerQueue[i].at <= Lateness
    BY <1>1, <1>late, <2>1 DEF InTime
  <2> QED BY <1>2, <1>8, <2>1, <2>2 DEF Valid
<1>10. command # NoCommand => /\ command.at \in Int /\ command.timer \in Timer
                              /\ clock + 1 - command.at <= Lateness
  <2>1. command # NoCommand => command.at \in Int /\ command.timer \in Timer /\ command.timer # NoTimer
    BY <1>0, HeldTypes
  <2> QED BY <1>1, <1>late, <2>1 DEF InTime
<1>11. CommandValid'
  <2>1. command # NoCommand => Valid(command)'
    BY <1>0, <1>2, <1>8, <1>10 DEF CommandValid, Valid
  <2>2. ActedOn' <=> ActedOn
    BY <1>2, <1>4 DEF ActedOn
  <2>3. ActedOn => clock' <= command.at + Lateness
    BY <1>0, <1>1, <1>2, <1>10 DEF CommandValid
  <2> QED BY <1>0, <1>2, <1>3, <1>4, <2>1, <2>2, <2>3 DEF CommandValid
<1>12. StageKept'
  <2>1. reload[1] # NoTimer => Recent(reload[2])'
    <3>1. reload[1] # NoTimer => reload[1] \in Timer /\ reload[2] \in Int /\ Recent(reload[2])
      BY <1>0, HeldTypes DEF StageKept
    <3>2. reload[1] # NoTimer => clock + 1 - reload[2] <= Lateness
      BY <1>1, <1>late, <3>1 DEF InTime
    <3> QED BY <1>2, <1>8, <3>1, <3>2
  <2> QED BY <1>0, <1>2, <1>3, <1>4, <2>1 DEF StageKept, Listed, prvGetNextExpireTime
<1>13. ASSUME NEW t \in Timer \ overtaken PROVE Standing(t)'
  <2>1. Standing(t)
    BY <1>0, <1>13
  <2>2. ListsEpoch' = ListsEpoch
    BY <1>2, <1>4 DEF ListsEpoch
  <2>3. ListedRight(t)'
    <3>1. due[t] # Stopped => due[t] \in Nat /\ clock' <= due[t] + Lateness
      BY <1>0, <1>1, <1>2, <1>late DEF InTime, DataTypes
    <3> QED BY <1>2, <1>3, <2>1, <2>2, <3>1 DEF Standing, ListedRight, Listed
  <2>4. QueuedRight(t)' /\ ElseStopped(t)'
    BY <1>2, <1>3, <2>1 DEF Standing, QueuedRight, ElseStopped, Listed, IsReload, AfterReload, ReloadQueued
  <2>5. HeldRight(t)'
    BY <1>2, <1>3, <1>4, <2>1 DEF Standing, HeldRight, AfterReload
  <2> QED BY <2>3, <2>4, <2>5 DEF Standing
<1> QED BY <1>3, <1>5, <1>6, <1>7, <1>9, <1>11, <1>12, <1>13 DEF TimersInv

\* A post puts a message at the back of the queue that is valid, and no START_DONT_TRACE.
LEMMA PostKeepsTimers ==
    ASSUME TimersInv, NEW m \in Message \union {Callback}, xTimerGenericCommand(m),
           m # Callback => Valid(m)' /\ m.id # "START_DONT_TRACE",
           deleting \subseteq deleting', deleting' \subseteq Timer
    PROVE  TimersInv'
<1>0. /\ ListTypes /\ TaskTypes /\ DataTypes /\ QueueValid /\ CommandValid /\ StageKept
      /\ \A t \in Timer \ overtaken : Standing(t)
  BY DEF TimersInv
<1>1. /\ xTimerQueue' = Append(xTimerQueue, m) /\ Len(xTimerQueue) < QueueLength
      /\ pc' = IF pc = "blocked" THEN "commands" ELSE pc
      /\ UNCHANGED <<clock, xTimerPeriodInTicks, freed, suspended, lastTime, wakeTime, command,
                     reload, fault>>
      /\ UNCHANGED <<pxCurrentTimerList, pxOverflowTimerList, xItemValue, due, overtaken>>
  BY DEF xTimerGenericCommand, lists, promise
<1>2. \A stage \in {"expire", "switch", "reload", "sample", "act", "call", "restart"} :
         pc' = stage <=> pc = stage
  BY <1>1
<1>3. /\ xTimerQueue' \in Seq(Message \union {Callback}) /\ Len(xTimerQueue') = Len(xTimerQueue) + 1
      /\ \A i \in DOMAIN xTimerQueue' : \/ i \in DOMAIN xTimerQueue /\ xTimerQueue'[i] = xTimerQueue[i]
                                        \/ i = Len(xTimerQueue) + 1 /\ xTimerQueue'[i] = m
      /\ \A i \in DOMAIN xTimerQueue : i \in DOMAIN xTimerQueue' /\ xTimerQueue'[i] = xTimerQueue[i]
  BY <1>0, <1>1, Appended DEF DataTypes
<1>4. ListTypes'
  BY <1>0, <1>1 DEF ListTypes, Listed, TwoLists
<1>5. TaskTypes'
  BY <1>0, <1>1 DEF TaskTypes
<1>6. DataTypes'
  <2>1. Len(xTimerQueue') <= QueueLength
    <3>1. QueueLength \in Nat /\ Len(xTimerQueue) \in Nat
      BY <1>0, TimersAssumption, LenProperties DEF DataTypes
    <3> QED BY <1>1, <1>3, <3>1
  <2> QED BY <1>0, <1>1, <1>3, <2>1 DEF DataTypes
<1>7. ASSUME NEW x, Valid(x) PROVE Valid(x)'
  BY <1>1, <1>7 DEF Valid, Recent
<1>8. QueueValid'
  <2> SUFFICES ASSUME NEW i \in DOMAIN xTimerQueue', xTimerQueue'[i].timer # NoTimer
               PROVE  Valid(xTimerQueue[i])'
    BY DEF QueueValid
  <2>1. CASE i \in DOMAIN xTimerQueue /\ xTimerQueue'[i] = xTimerQueue[i]
    <3>1. Valid(xTimerQueue[i])
      BY <1>0, <2>1 DEF QueueValid
    <3> QED BY <1>1, <2>1, <3>1 DEF Valid, Recent
  <2>2. CASE xTimerQueue'[i] = m
    <3>1. m # Callback
      BY <2>2 DEF Callback
    <3> QED BY <2>2, <3>1 DEF Valid, Recent
  <2> QED BY <1>3, <2>1, <2>2
<1>9. CommandValid'
  <2>1. ActedOn' <=> ActedOn
    BY <1>1, <1>2 DEF ActedOn
  <2>2. command # NoCommand => Valid(command)'
    BY <1>0, <1>1 DEF CommandValid, Valid, Recent
  <2> QED BY <1>0, <1>1, <1>2, <2>1, <2>2 DEF CommandValid
<1>10. StageKept'
  BY <1>0, <1>1, <1>2 DEF StageKept, Listed, prvGetNextExpireTime, Recent
<1>11. ASSUME NEW t \in Timer \ overtaken PROVE Standing(t)'
  <2>1. Standing(t)
    BY <1>0, <1>11
  <2>2. \A i \in DOMAIN xTimerQueue' : IsReload(i, t)' <=> i \in DOMAIN xTimerQueue /\ IsReload(i, t)
    <3> SUFFICES ASSUME NEW i \in DOMAIN xTimerQueue'
                 PROVE  IsReload(i, t)' <=> i \in DOMAIN xTimerQueue /\ IsReload(i, t)
      OBVIOUS
    <3>1. CASE i \in DOMAIN xTimerQueue /\ xTimerQueue'[i] = xTimerQueue[i]
      BY <3>1 DEF IsReload
    <3>2. CASE i = Len(xTimerQueue) + 1 /\ xTimerQueue'[i] = m
      <4>1. ~IsReload(i, t)' /\ i \notin DOMAIN xTimerQueue
        <5>1. i \notin DOMAIN xTimerQueue
          BY <1>0, <3>2, LenProperties DEF DataTypes
        <5>2. m.id # "START_DONT_TRACE"
          BY DEF Callback
        <5> QED BY <3>2, <5>1, <5>2 DEF IsReload
      <4> QED BY <4>1
    <3> QED BY <1>3, <3>1, <3>2
  <2>3. ListsEpoch' = ListsEpoch
    BY <1>1, <1>2 DEF ListsEpoch
  <2>4. ListedRight(t)'
    BY <1>1, <2>1, <2>3 DEF Standing, ListedRight, Listed
  <2>5. QueuedRight(t)'
    BY <1>1, <1>3, <2>1, <2>2 DEF Standing, QueuedRight, Listed, AfterReload
  <2>6. HeldRight(t)'
    BY <1>1, <1>2, <2>1 DEF Standing, HeldRight, AfterReload
  <2>7. ElseStopped(t)'
    <3>1. ReloadQueued(t) => ReloadQueued(t)'
      BY <1>3 DEF ReloadQueued
    <3> QED BY <1>1, <2>1, <3>1 DEF Standing, ElseStopped, Listed
  <2> QED BY <2>4, <2>5, <2>6, <2>7 DEF Standing
<1> QED BY <1>1, <1>4, <1>5, <1>6, <1>8, <1>9, <1>10, <1>11 DEF TimersInv

LEMMA PostsKeepTimers == ASSUME TimersInv, Post PROVE TimersInv'
<1>0. TaskTypes /\ DataTypes
  BY DEF TimersInv
<1>1. /\ clock \in Nat /\ clock <= MaxClock /\ FirstTick \in Nat /\ FirstTick <= clock
      /\ MaxClock \in Nat /\ CallDelay \in Nat /\ CallDelay <= FirstTick /\ CallDelay < TickModulus
      /\ TickModulus \in Nat
  <2>1. /\ CallDelay \in Nat /\ CallDelay <= FirstTick /\ FirstTick < TickModulus
        /\ TickModulus \in Nat
    BY TimersAssumption
  <2> QED BY <1>0, <2>1, TimeTypes
<1>2. deleting \subseteq Timer
  BY <1>0 DEF DataTypes
<1>3. ASSUME NEW t \in Timer, NEW id \in {"START", "STOP", "CHANGE_PERIOD", "DELETE"},
             NEW delay \in 0..CallDelay, NEW p \in Period \union {0}, NEW m,
             m = Command(id, t, clock - delay, p),
             id = "CHANGE_PERIOD" => p \in Period, id = "DELETE" => t \in deleting',
             xTimerGenericCommand(m), deleting \subseteq deleting', deleting' \subseteq Timer
      PROVE  TimersInv'
  <2>1. clock' = clock
    BY <1>3 DEF xTimerGenericCommand
  <2>2. clock - delay \in 0..MaxClock /\ clock - delay <= clock /\ clock - (clock - delay) < TickModulus
    BY <1>1
  <2>3. /\ m \in Message /\ m.at = clock - delay /\ m.id = id /\ m.timer = t /\ m.period = p
    BY <1>3, <2>2 DEF Message, Command, StartCommands
  <2>4. Valid(m)'
    BY <1>3, <2>1, <2>2, <2>3 DEF Valid, Recent
  <2> QED BY <1>3, <2>3, <2>4, PostKeepsTimers
<1>4. ASSUME NEW t \in Timer, xTimerStart(t) PROVE TimersInv'
  <2>1. PICK delay \in 0..CallDelay :
          /\ xTimerGenericCommand(Command("START", t, clock - delay, 0)) /\ UNCHANGED deleting
    BY <1>4 DEF xTimerStart
  <2> QED BY <1>2, <1>3, <2>1
<1>5. clock = clock - 0 /\ 0 \in 0..CallDelay
  BY <1>1
<1>6. ASSUME NEW t \in Timer, xTimerStop(t) PROVE TimersInv'
  <2>1. xTimerGenericCommand(Command("STOP", t, clock - 0, 0)) /\ UNCHANGED deleting
    BY <1>5, <1>6 DEF xTimerStop
  <2> QED BY <1>2, <1>3, <1>5, <2>1
<1>7. ASSUME NEW t \in Timer, xTimerChangePeriod(t) PROVE TimersInv'
  <2>1. PICK p \in NewPeriods[t] :
          xTimerGenericCommand(Command("CHANGE_PERIOD", t, clock - 0, p)) /\ UNCHANGED deleting
    BY <1>5, <1>7 DEF xTimerChangePeriod
  <2>2. p \in Period
    BY DEF Period
  <2> QED BY <1>2, <1>3, <1>5, <2>1, <2>2
<1>8. ASSUME NEW t \in Timer, xTimerDelete(t) PROVE TimersInv'
  <2>1. /\ xTimerGenericCommand(Command("DELETE", t, clock - 0, 0))
        /\ deleting' = deleting \union {t}
    BY <1>5, <1>8 DEF xTimerDelete
  <2>2. deleting \subseteq deleting' /\ deleting' \subseteq Timer /\ t \in deleting'
    BY <1>2, <2>1
  <2> QED BY <1>3, <1>5, <2>1, <2>2
<1>9. ASSUME xTimerPendFunctionCall PROVE TimersInv'
  BY <1>2, <1>9, PostKeepsTimers DEF xTimerPendFunctionCall
<1> QED BY <1>4, <1>6, <1>7, <1>8, <1>9 DEF Post

\* A sample of the tick count comes less than a turn after the last one, as far as a timer
\* in the lists can tell.
LEMMA SampledInTime ==
    ASSUME TaskTypes, DataTypes, NEW t \in Timer, Listed(t), ListedRight(t)
    PROVE  /\ due[t] \in Nat /\ xTimerPeriodInTicks[t] \in Period
           /\ clock - lastTime < TickModulus /\ clock - due[t] < TickModulus
           /\ due[t] <= clock + xTimerPeriodInTicks[t]
<1>1. /\ clock \in Nat /\ lastTime \in Nat /\ lastTime <= clock /\ Lateness \in Nat
      /\ TickModulus \in Int
  BY TimeTypes, PeriodType
<1>2. due[t] \in Nat /\ xTimerPeriodInTicks[t] \in Period
  BY DEF DataTypes, ListedRight
<1>3. PICK p : p = xTimerPeriodInTicks[t]
  OBVIOUS
<1>4. p \in Nat /\ p + Lateness + 1 < TickModulus
  BY <1>2, <1>3, PeriodType
<1>5. due[t] <= lastTime + p /\ clock <= due[t] + Lateness
  BY <1>3 DEF ListedRight
<1> QED BY <1>1, <1>2, <1>3, <1>4, <1>5

LEMMA SampleKeepsTimers ==
    ASSUME TimersInv, pc \in {"look", "sample"}, lastTime' = clock,
           UNCHANGED <<clock, lists, xTimerPeriodInTicks, xTimerQueue, freed, command, reload,
                       fault, deleting, promise>>,
           pc = "look" => pc' \in {"switch", "expire", "blocked", "commands"},
           pc = "sample" => pc' \in {"switch", "act"},
           SwitchDue <=> pc' = "switch",
           suspended' \in BOOLEAN, suspended' <=> pc = "look" /\ pc' = "switch",
           pc' = "expire" => pxCurrentTimerList # <<>> /\ prvGetNextExpireTime <= Ticks(clock),
           wakeTime' \in Nat \union {Never}
    PROVE  TimersInv'
<1>0. /\ ListTypes /\ TaskTypes /\ DataTypes /\ QueueValid /\ CommandValid /\ StageKept
      /\ \A t \in Timer \ overtaken : Standing(t)
  BY DEF TimersInv
<1>1. UNCHANGED <<pxCurrentTimerList, pxOverflowTimerList, xItemValue, due, overtaken>>
  BY DEF lists, promise
<1>2. clock \in Nat /\ lastTime \in Nat /\ lastTime <= clock
  BY <1>0, TimeTypes
<1>3. ListTypes'
  BY <1>0, <1>1 DEF ListTypes, Listed, TwoLists
<1>4. TaskTypes'
  <2>1. clock' \in FirstTick .. MaxClock /\ lastTime' \in 0 .. clock'
    <3>1. clock \in 0 .. clock
      BY <1>2
    <3> QED BY <1>0, <3>1 DEF TaskTypes
  <2> QED BY <1>0, <2>1 DEF TaskTypes
<1>5. DataTypes'
  BY <1>0, <1>1 DEF DataTypes
<1>6. QueueValid'
  BY <1>0 DEF QueueValid, Valid, Recent
<1>7. CommandValid'
  <2>1. CASE pc = "look"
    <3>1. ~ActedOn /\ ~ActedOn' /\ pc' # "sample" /\ pc' # "call"
      BY <2>1 DEF ActedOn
    <3>2. command = NoCommand
      BY <1>0, <2>1, <3>1 DEF CommandValid
    <3> QED BY <3>1, <3>2 DEF CommandValid
  <2>2. CASE pc = "sample"
    <3>1. /\ command # NoCommand /\ Valid(command)
      BY <1>0, <2>2 DEF CommandValid
    <3>2. Valid(command)' /\ command.at <= clock
      BY <3>1 DEF Valid, Recent
    <3>3. pc' # "sample" /\ pc' # "call" /\ ActedOn'
      BY <2>2 DEF ActedOn
    <3> QED BY <1>0, <3>1, <3>2, <3>3 DEF CommandValid
  <2> QED BY <2>1, <2>2
<1>8. StageKept'
  <2>1. reload[1] = NoTimer
    BY <1>0 DEF StageKept
  <2>2. SwitchDue => TickModulus <= clock
    BY <1>2, WrapFound
  <2> QED BY <1>1, <2>1, <2>2 DEF StageKept, prvGetNextExpireTime
<1>9. ASSUME NEW t \in Timer \ overtaken PROVE Standing(t)'
  <2>1. Standing(t)
    BY <1>0, <1>9
  <2>2. ASSUME Listed(t) PROVE ListsEpoch' = ListsEpoch /\ due[t] <= clock + xTimerPeriodInTicks[t]
    <3>1. clock - lastTime < TickModulus /\ due[t] <= clock + xTimerPeriodInTicks[t]
      BY <1>0, <2>1, <2>2, SampledInTime DEF Standing
    <3>2. Epoch(clock) = IF SwitchDue THEN Epoch(lastTime) + 1 ELSE Epoch(lastTime)
      BY <1>2, <3>1, WrapFound
    <3>3. ListsEpoch = Epoch(lastTime)
      BY DEF ListsEpoch
    <3>4. ListsEpoch' = IF SwitchDue THEN Epoch(clock) - 1 ELSE Epoch(clock)
      <4>1. pc' # "reload"
        OBVIOUS
      <4>2. Epoch(lastTime)' = Epoch(clock)
        BY DEF Epoch
      <4> QED BY <4>1, <4>2 DEF ListsEpoch
    <3>5. Epoch(lastTime) \in Int
      BY <1>2, EpochAndTicks
    <3> QED BY <3>1, <3>2, <3>3, <3>4, <3>5
  <2>3. ListedRight(t)'
    BY <1>1, <2>1, <2>2 DEF Standing, ListedRight, Listed
  <2>4. QueuedRight(t)' /\ ElseStopped(t)'
    BY <1>1, <2>1 DEF Standing, QueuedRight, ElseStopped, Listed, IsReload, AfterReload, ReloadQueued
  <2>5. HeldRight(t)'
    BY <1>1, <2>1 DEF Standing, HeldRight, AfterReload
  <2> QED BY <2>3, <2>4, <2>5 DEF Standing
<1> QED BY <1>1, <1>3, <1>4, <1>5, <1>6, <1>7, <1>8, <1>9 DEF TimersInv

LEMMA LooksKeepTimers ==
    ASSUME TimersInv, FindWrap \/ FindExpired \/ vQueueWaitForMessageRestricted
    PROVE  TimersInv'
<1>0. TaskTypes /\ ListTypes
  BY DEF TimersInv
<1>1. CASE FindWrap
  BY <1>0, <1>1, SampleKeepsTimers DEF FindWrap, At
<1>2. ASSUME pc = "look" PROVE suspended = FALSE
  BY <1>0, <1>2 DEF TaskTypes
<1>3. CASE FindExpired
  <2>1. suspended' \in BOOLEAN /\ suspended' = FALSE /\ pc = "look" /\ ~SwitchDue
    BY <1>2, <1>3 DEF FindExpired, At
  <2> QED BY <1>0, <1>3, <2>1, SampleKeepsTimers DEF FindExpired, At, FirstExpired
<1>4. CASE vQueueWaitForMessageRestricted
  <2>1. suspended' \in BOOLEAN /\ suspended' = FALSE /\ pc = "look" /\ ~SwitchDue
    BY <1>2, <1>4 DEF vQueueWaitForMessageRestricted, At
  <2>2. TimeToExpire \in Nat \union {Never}
    <3>1. prvGetNextExpireTime \in Int
      <4>1. ASSUME pxCurrentTimerList # <<>> PROVE Head(pxCurrentTimerList) \in Timer
        BY <1>0, <4>1, HeadLeft DEF ListTypes
      <4> QED BY <1>0, <4>1 DEF prvGetNextExpireTime, ListTypes
    <3>2. clock \in Nat
      BY <1>0, TimeTypes
    <3>3. Ticks(prvGetNextExpireTime - clock) \in Nat
      BY <3>1, <3>2, EpochAndTicks, PeriodType
    <3> QED BY <3>2, <3>3 DEF TimeToExpire
  <2>3. pc' \in {"blocked", "commands"} /\ wakeTime' \in Nat \union {Never}
    BY <1>4, <2>2 DEF vQueueWaitForMessageRestricted
  <2> QED BY <1>0, <1>4, <2>1, <2>3, SampleKeepsTimers DEF vQueueWaitForMessageRestricted, At
<1> QED BY <1>1, <1>3, <1>4

LEMMA SampleNowKeepsTimers == ASSUME TimersInv, prvSampleTimeNow PROVE TimersInv'
<1>1. pc = "sample" /\ suspended = FALSE /\ wakeTime \in Nat \union {Never}
  BY DEF TimersInv, TaskTypes, prvSampleTimeNow, At
<1> QED BY <1>1, SampleKeepsTimers DEF prvSampleTimeNow

LEMMA SwitchListsKeepsTimers == ASSUME TimersInv, SwitchLists PROVE TimersInv'
<1>0. /\ ListTypes /\ TaskTypes /\ DataTypes /\ QueueValid /\ CommandValid /\ StageKept
      /\ \A t \in Timer \ overtaken : Standing(t)
  BY DEF TimersInv
<1>1. /\ pc = "switch" /\ pxCurrentTimerList = <<>>
      /\ pxCurrentTimerList' = pxOverflowTimerList /\ pxOverflowTimerList' = <<>>
      /\ pc' = IF suspended THEN "commands" ELSE "act"
      /\ suspended' = FALSE
      /\ UNCHANGED <<clock, xItemValue, xTimerPeriodInTicks, xTimerQueue, freed, lastTime, wakeTime,
                     command, reload, fault, deleting, due, overtaken>>
  BY DEF SwitchLists, promise, At
<1>2. \A t : ~Contains(<<>>, t)
  BY DEF Contains
<1>3. \A t : Listed(t)' <=> Listed(t)
  BY <1>1, <1>2 DEF Listed
<1>4. ListTypes'
  <2>1. TwoLists(pxCurrentTimerList', pxOverflowTimerList')
    BY <1>0, <1>1, <1>2 DEF ListTypes, TwoLists
  <2> QED BY <1>0, <1>1, <1>3, <2>1 DEF ListTypes
<1>5. TaskTypes'
  BY <1>0, <1>1 DEF TaskTypes
<1>6. DataTypes'
  BY <1>0, <1>1 DEF DataTypes
<1>7. QueueValid'
  BY <1>0, <1>1 DEF QueueValid, Valid, Recent
<1>8. CommandValid'
  <2>1. /\ ActedOn <=> ~suspended
        /\ ActedOn' <=> ~suspended
        /\ pc' # "sample" /\ pc' # "call" /\ pc # "sample"
    BY <1>0, <1>1 DEF ActedOn, TaskTypes
  <2>2. Valid(command) => Valid(command)'
    BY <1>1 DEF Valid, Recent
  <2> QED BY <1>0, <1>1, <2>1, <2>2 DEF CommandValid
<1>9. StageKept'
  BY <1>0, <1>1 DEF StageKept
<1>10. ASSUME NEW t \in Timer \ overtaken PROVE Standing(t)'
  <2>1. Standing(t)
    BY <1>0, <1>10
  <2>2. ListsEpoch' = ListsEpoch + 1
    <3>1. Epoch(lastTime) \in Int
      BY <1>0, TimeTypes, EpochAndTicks
    <3>2. Epoch(lastTime)' = Epoch(lastTime)
      BY <1>1 DEF Epoch
    <3> QED BY <1>1, <3>1, <3>2 DEF ListsEpoch
  <2>3. ListedRight(t)'
    <3>1. ASSUME Listed(t) PROVE ~Contains(pxCurrentTimerList, t) /\ Contains(pxCurrentTimerList', t)
      BY <1>1, <1>2, <3>1 DEF Listed
    <3> QED BY <1>1, <1>3, <2>1, <2>2, <3>1 DEF Standing, ListedRight
  <2>4. QueuedRight(t)' /\ ElseStopped(t)'
    BY <1>1, <1>3, <2>1 DEF Standing, QueuedRight, ElseStopped, IsReload, AfterReload, ReloadQueued
  <2>5. HeldRight(t)'
    BY <1>1, <2>1 DEF Standing, HeldRight, AfterReload
  <2> QED BY <2>3, <2>4, <2>5 DEF Standing
<1> QED BY <1>1, <1>4, <1>5, <1>6, <1>7, <1>8, <1>9, <1>10 DEF TimersInv

\* The queue without its first message.
LEMMA QueueShifts ==
    ASSUME DataTypes, QueueValid, xTimerQueue # <<>>, xTimerQueue' = Tail(xTimerQueue),
           clock' = clock, deleting' = deleting
    PROVE  /\ xTimerQueue' \in Seq(Message \union {Callback}) /\ Len(xTimerQueue') <= QueueLength
           /\ QueueValid'
           /\ 1 \in DOMAIN xTimerQueue /\ xTimerQueue[1] = Head(xTimerQueue)
           /\ \A i \in DOMAIN xTimerQueue' :
                 /\ i + 1 \in DOMAIN xTimerQueue /\ xTimerQueue'[i] = xTimerQueue[i + 1] /\ i + 1 # 1
                 /\ \A j \in DOMAIN xTimerQueue' : i + 1 = j + 1 => i = j
           /\ \A i \in DOMAIN xTimerQueue : i # 1 => \E j \in DOMAIN xTimerQueue' :
                 xTimerQueue'[j] = xTimerQueue[i]
<1>1. PICK queue, tail : queue = xTimerQueue /\ tail = Tail(xTimerQueue)
  OBVIOUS
<1>2. /\ queue \in Seq(Message \union {Callback}) /\ queue # <<>> /\ Len(queue) <= QueueLength
      /\ tail = Tail(queue)
  BY <1>1 DEF DataTypes
<1>3. /\ tail \in Seq(Message \union {Callback}) /\ Len(tail) = Len(queue) - 1
      /\ 1 \in DOMAIN queue /\ queue[1] = Head(queue)
      /\ \A i \in DOMAIN tail : i + 1 \in DOMAIN queue /\ tail[i] = queue[i + 1]
      /\ \A i \in DOMAIN queue : i # 1 => \E j \in DOMAIN tail : i = j + 1
      /\ DOMAIN tail = 1 .. Len(tail) /\ Len(tail) \in Nat
  BY <1>2, Shifted, LenProperties
<1>4. Len(tail) <= QueueLength
  <2>1. Len(queue) \in Nat /\ QueueLength \in Nat
    BY <1>2, LenProperties, TimersAssumption
  <2> QED BY <1>2, <1>3, <2>1
<1>5. \A i \in DOMAIN tail : i + 1 # 1 /\ \A j \in DOMAIN tail : i + 1 = j + 1 => i = j
  BY <1>3
<1>6. \A i \in DOMAIN queue : i # 1 => \E j \in DOMAIN tail : tail[j] = queue[i]
  BY <1>3
<1>7. QueueValid'
  <2> SUFFICES ASSUME NEW i \in DOMAIN tail, tail[i].timer # NoTimer PROVE Valid(tail[i])'
    BY <1>1 DEF QueueValid
  <2>1. i + 1 \in DOMAIN xTimerQueue /\ tail[i] = xTimerQueue[i + 1]
    BY <1>1, <1>3
  <2>2. Valid(xTimerQueue[i + 1])
    BY <2>1 DEF QueueValid
  <2> QED BY <1>1, <2>1, <2>2 DEF Valid, Recent
<1> QED BY <1>1, <1>3, <1>4, <1>5, <1>6, <1>7

LEMMA ReceiveKeepsTimers == ASSUME TimersInv, Receive PROVE TimersInv'
<1>0. /\ ListTypes /\ TaskTypes /\ DataTypes /\ QueueValid /\ CommandValid /\ StageKept
      /\ \A t \in Timer \ overtaken : Standing(t)
  BY DEF TimersInv
<1>1. /\ pc = "commands" /\ fault = "none"
      /\ UNCHANGED <<clock, xItemValue, xTimerPeriodInTicks, freed, suspended, lastTime, wakeTime,
                     reload, deleting, due>>
  BY DEF Receive, At
<1>2. /\ command = NoCommand /\ reload[1] = NoTimer /\ command.timer = NoTimer /\ ~suspended
      /\ NoTimer \notin Timer
  BY <1>0, <1>1, HeldTypes DEF CommandValid, StageKept, ActedOn, TaskTypes
<1>3. pc' \in {"look", "commands", "sample"} => ListsEpoch' = ListsEpoch
  BY <1>1 DEF ListsEpoch, Epoch
<1>4. CASE UNCHANGED <<pxCurrentTimerList, pxOverflowTimerList, command, fault, overtaken>>
           /\ \/ xTimerQueue = <<>> /\ pc' = "look" /\ UNCHANGED xTimerQueue
              \/ xTimerQueue # <<>> /\ Head(xTimerQueue) = Callback /\ pc' = pc
                 /\ xTimerQueue' = Tail(xTimerQueue)
  <2>1. pc' \in {"look", "commands"}
    BY <1>1, <1>4
  <2>2. /\ xTimerQueue' \in Seq(Message \union {Callback}) /\ Len(xTimerQueue') <= QueueLength
        /\ QueueValid'
    <3>1. CASE UNCHANGED xTimerQueue
      BY <1>0, <1>1, <3>1 DEF DataTypes, QueueValid, Valid, Recent
    <3>2. CASE xTimerQueue # <<>> /\ xTimerQueue' = Tail(xTimerQueue)
      BY <1>0, <1>1, <3>2, QueueShifts
    <3> QED BY <1>4, <3>1, <3>2
  <2>3. ListTypes'
    BY <1>0, <1>1, <1>4 DEF ListTypes, Listed, TwoLists
  <2>4. TaskTypes'
    BY <1>0, <1>1, <1>4, <2>1 DEF TaskTypes
  <2>5. DataTypes'
    BY <1>0, <1>1, <1>4, <2>2 DEF DataTypes
  <2>6. CommandValid'
    BY <1>1, <1>2, <1>4, <2>1 DEF CommandValid, ActedOn
  <2>7. StageKept'
    BY <1>1, <1>2, <2>1 DEF StageKept
  <2>8. ASSUME NEW t \in Timer \ overtaken PROVE Standing(t)'
    <3>1. Standing(t)
      BY <1>0, <2>8
    <3>2. ListedRight(t)'
      BY <1>1, <1>3, <1>4, <2>1, <3>1 DEF Standing, ListedRight, Listed
    <3>3. HeldRight(t)'
      BY <1>1, <1>2, <1>4, <2>8 DEF HeldRight
    <3>4. QueuedRight(t)' /\ (ReloadQueued(t) => ReloadQueued(t)')
      <4>1. CASE UNCHANGED xTimerQueue
        BY <1>1, <1>4, <3>1, <4>1 DEF Standing, QueuedRight, Listed, IsReload, AfterReload, ReloadQueued
      <4>2. CASE xTimerQueue # <<>> /\ Head(xTimerQueue) = Callback /\ xTimerQueue' = Tail(xTimerQueue)
        <5>1. /\ xTimerQueue[1] = Callback /\ 1 \in DOMAIN xTimerQueue
              /\ \A i \in DOMAIN xTimerQueue' :
                   /\ i + 1 \in DOMAIN xTimerQueue /\ xTimerQueue'[i] = xTimerQueue[i + 1]
                   /\ \A j \in DOMAIN xTimerQueue' : i + 1 = j + 1 => i = j
              /\ \A i \in DOMAIN xTimerQueue : i # 1 => \E j \in DOMAIN xTimerQueue' :
                   xTimerQueue'[j] = xTimerQueue[i]
          BY <1>0, <1>1, <4>2, QueueShifts
        <5>2. ReloadQueued(t) => ReloadQueued(t)'
          <6>1. ~IsReload(1, t)
            BY <5>1 DEF IsReload, Callback
          <6> QED BY <5>1, <6>1 DEF ReloadQueued, IsReload
        <5>3. \A i \in DOMAIN xTimerQueue' : IsReload(i, t)' <=> IsReload(i + 1, t)
          BY <5>1 DEF IsReload
        <5> QED BY <1>1, <1>4, <3>1, <5>1, <5>2, <5>3 DEF Standing, QueuedRight, Listed, AfterReload
      <4> QED BY <1>4, <4>1, <4>2
    <3>5. ElseStopped(t)'
      BY <1>1, <1>4, <3>1, <3>4 DEF Standing, ElseStopped, Listed
    <3> QED BY <3>2, <3>3, <3>4, <3>5 DEF Standing
  <2> QED BY <1>4, <2>2, <2>3, <2>4, <2>5, <2>6, <2>7, <2>8 DEF TimersInv
<1>5. ASSUME xTimerQueue # <<>>, Head(xTimerQueue) # Callback,
             NEW m, m = Head(xTimerQueue), NEW u, u = m.timer,
             LeaveList(u), command' = m,
             fault' = IF u \in freed THEN "freed memory" ELSE fault,
             overtaken' = IF m.id # "START_DONT_TRACE" /\ ReloadQueued(u)
                          THEN overtaken \union {u} ELSE overtaken,
             xTimerQueue' = Tail(xTimerQueue), pc' = "sample"
      PROVE  TimersInv'
  <2>1. /\ xTimerQueue' \in Seq(Message \union {Callback}) /\ Len(xTimerQueue') <= QueueLength
        /\ QueueValid'
        /\ 1 \in DOMAIN xTimerQueue /\ xTimerQueue[1] = m
        /\ \A i \in DOMAIN xTimerQueue' :
             /\ i + 1 \in DOMAIN xTimerQueue /\ xTimerQueue'[i] = xTimerQueue[i + 1] /\ i + 1 # 1
             /\ \A j \in DOMAIN xTimerQueue' : i + 1 = j + 1 => i = j
        /\ \A i \in DOMAIN xTimerQueue : i # 1 => \E j \in DOMAIN xTimerQueue' :
             xTimerQueue'[j] = xTimerQueue[i]
    BY <1>0, <1>1, <1>5, QueueShifts
  <2>2. m \in Message /\ u \in Timer /\ Valid(m) /\ m # NoCommand
    <3>1. m \in Message
      BY <1>0, <1>5, <2>1, QueuedMessage
    <3>2. u \in Timer /\ m # NoCommand
      BY <1>5, <3>1, MessageTypes
    <3> QED BY <1>0, <1>2, <1>5, <2>1, <3>1, <3>2 DEF QueueValid
  <2>3. /\ TwoLists(pxCurrentTimerList', pxOverflowTimerList')
        /\ \A x : Contains(pxCurrentTimerList', x) <=> Contains(pxCurrentTimerList, x) /\ x # u
        /\ \A x : Contains(pxOverflowTimerList', x) <=> Contains(pxOverflowTimerList, x) /\ x # u
    BY <1>0, <1>5, LeftBoth DEF ListTypes, LeaveList
  <2>4. \A x : Listed(x)' <=> Listed(x) /\ x # u
    BY <2>3 DEF Listed
  <2>5. ListTypes'
    BY <1>0, <1>1, <1>5, <2>3, <2>4 DEF ListTypes
  <2>6. TaskTypes'
    BY <1>0, <1>1, <1>2, <1>5, <2>2 DEF TaskTypes
  <2>7. DataTypes'
    BY <1>0, <1>1, <1>5, <2>1, <2>2 DEF DataTypes
  <2>8. CommandValid'
    <3>1. ~ActedOn' /\ pc' = "sample"
      BY <1>1, <1>5 DEF ActedOn
    <3>2. Valid(command)'
      BY <1>1, <1>5, <2>2 DEF Valid, Recent
    <3>3. fault' = "none" => u \notin freed'
      BY <1>1, <1>5
    <3> QED BY <1>5, <2>2, <3>1, <3>2, <3>3 DEF CommandValid
  <2>9. StageKept'
    BY <1>1, <1>2, <1>5 DEF StageKept
  <2>10. ASSUME NEW t \in Timer \ overtaken' PROVE Standing(t)'
    <3>1. t \notin overtaken /\ Standing(t)
      <4>1. overtaken \subseteq overtaken'
        BY <1>5
      <4> QED BY <1>0, <2>10, <4>1
    <3>2. ListedRight(t)'
      BY <1>1, <1>3, <1>5, <2>3, <2>4, <3>1 DEF Standing, ListedRight
    <3>3. \A i \in DOMAIN xTimerQueue' : IsReload(i, t)' <=> IsReload(i + 1, t)
      BY <2>1 DEF IsReload
    <3>4. IsReload(1, t) <=> t = u /\ m.id = "START_DONT_TRACE"
      BY <1>5, <2>1 DEF IsReload
    <3>5. t = u => \A i \in DOMAIN xTimerQueue' : ~IsReload(i, t)'
      <4> SUFFICES ASSUME t = u, NEW i \in DOMAIN xTimerQueue', IsReload(i + 1, t) PROVE FALSE
        BY <3>3
      <4>1. i + 1 \in DOMAIN xTimerQueue /\ i + 1 # 1 /\ 1 \in DOMAIN xTimerQueue
        BY <2>1
      <4>2. m.id = "START_DONT_TRACE"
        <5>1. ReloadQueued(u)
          BY <4>1 DEF ReloadQueued, IsReload
        <5> QED BY <1>5, <2>10, <5>1
      <4>3. IsReload(1, t)
        BY <3>4, <4>2
      <4> QED BY <3>1, <4>1, <4>3 DEF Standing, QueuedRight
    <3>6. QueuedRight(t)'
      <4>1. CASE t = u
        BY <3>5, <4>1 DEF QueuedRight
      <4>2. CASE t # u
        <5> SUFFICES ASSUME NEW i \in DOMAIN xTimerQueue', IsReload(i, t)'
                     PROVE  /\ AfterReload(t, xTimerQueue[i].at)'
                            /\ ~Listed(t)' /\ command'.timer # t /\ reload'[1] # t
                            /\ \A j \in DOMAIN xTimerQueue' : IsReload(j, t)' => j = i
          BY DEF QueuedRight
        <5>1. i + 1 \in DOMAIN xTimerQueue /\ IsReload(i + 1, t) /\ xTimerQueue'[i] = xTimerQueue[i + 1]
          BY <2>1, <3>3
        <5>2. /\ AfterReload(t, xTimerQueue[i + 1].at) /\ ~Listed(t) /\ reload[1] # t
              /\ \A j \in DOMAIN xTimerQueue : IsReload(j, t) => j = i + 1
          BY <3>1, <5>1 DEF Standing, QueuedRight
        <5>3. \A j \in DOMAIN xTimerQueue' : IsReload(j, t)' => j = i
          BY <2>1, <3>3, <5>2
        <5> QED BY <1>1, <1>5, <2>4, <4>2, <5>1, <5>2, <5>3 DEF AfterReload
      <4> QED BY <4>1, <4>2
    <3>7. HeldRight(t)'
      <4>1. t = u /\ m.id = "START_DONT_TRACE" => due[t] = m.at + xTimerPeriodInTicks[t]
        BY <2>1, <3>1, <3>4 DEF Standing, QueuedRight, AfterReload
      <4> QED BY <1>1, <1>2, <1>5, <4>1 DEF HeldRight, AfterReload
    <3>8. ElseStopped(t)'
      <4>1. CASE t = u
        BY <1>5, <4>1 DEF ElseStopped
      <4>2. CASE t # u
        <5>1. ReloadQueued(t) => ReloadQueued(t)'
          BY <2>1, <3>4, <4>2 DEF ReloadQueued, IsReload
        <5>2. command.timer # t /\ reload[1] # t
          BY <1>2, <2>10
        <5> QED BY <1>1, <1>5, <2>4, <3>1, <4>2, <5>1, <5>2 DEF Standing, ElseStopped
      <4> QED BY <4>1, <4>2
    <3> QED BY <3>2, <3>6, <3>7, <3>8 DEF Standing
  <2> QED BY <2>1, <2>5, <2>6, <2>7, <2>8, <2>9, <2>10 DEF TimersInv
<1> QED BY <1>1, <1>4, <1>5 DEF Receive

LEMMA StopKeepsTimers == ASSUME TimersInv, ActOnStop PROVE TimersInv'
<1>0. /\ ListTypes /\ TaskTypes /\ DataTypes /\ QueueValid /\ CommandValid /\ StageKept
      /\ \A t \in Timer \ overtaken : Standing(t)
  BY DEF TimersInv
<1>1. PICK t : t = command.timer
  OBVIOUS
<1>2. /\ pc = "act" /\ fault = "none"
      /\ freed' = (IF command.id = "DELETE" THEN freed \union {t} ELSE freed)
      /\ due' = [due EXCEPT ![t] = Stopped]
      /\ pc' = "commands" /\ command' = NoCommand
      /\ UNCHANGED <<clock, pxCurrentTimerList, pxOverflowTimerList, xItemValue, xTimerPeriodInTicks,
                     xTimerQueue, suspended, lastTime, wakeTime, reload, fault, deleting, overtaken>>
  BY <1>1 DEF ActOnStop, At, lists
<1>3. /\ command # NoCommand /\ t \in Timer /\ NoTimer \notin Timer /\ NoCommand.timer = NoTimer
      /\ Valid(command) /\ reload[1] = NoTimer /\ ~suspended
  BY <1>0, <1>1, <1>2, HeldTypes DEF CommandValid, StageKept, ActedOn, TaskTypes, NoCommand
<1>4. \A u : Listed(u)' <=> Listed(u)
  BY <1>2 DEF Listed
<1>5. ListTypes'
  BY <1>0, <1>1, <1>2, <1>3, <1>4 DEF ListTypes
<1>6. TaskTypes'
  BY <1>0, <1>2, <1>3 DEF TaskTypes
<1>7. DataTypes'
  BY <1>0, <1>1, <1>2, <1>3 DEF DataTypes, Valid
<1>8. QueueValid'
  BY <1>0, <1>2 DEF QueueValid, Valid, Recent
<1>9. CommandValid' /\ StageKept'
  BY <1>0, <1>2, <1>3 DEF CommandValid, ActedOn, StageKept
<1>10. ASSUME NEW u \in Timer \ overtaken PROVE Standing(u)'
  <2>1. Standing(u)
    BY <1>0, <1>10
  <2>2. ListsEpoch' = ListsEpoch
    BY <1>2 DEF ListsEpoch, Epoch
  <2>3. u = t => due'[u] = Stopped /\ ~Listed(u)
    BY <1>0, <1>1, <1>2, <1>3 DEF ListTypes, DataTypes
  <2>4. u # t => due'[u] = due[u]
    BY <1>0, <1>2, <1>3 DEF DataTypes
  <2>5. ListedRight(u)'
    BY <1>2, <1>4, <2>1, <2>2, <2>3, <2>4 DEF Standing, ListedRight
  <2>6. command'.timer # u /\ reload'[1] # u
    BY <1>2, <1>3
  <2>7. QueuedRight(u)'
    <3>1. CASE u = t
      BY <1>1, <1>2, <2>1, <3>1 DEF Standing, QueuedRight, IsReload
    <3>2. CASE u # t
      BY <1>2, <1>4, <2>1, <2>4, <2>6, <3>2 DEF Standing, QueuedRight, IsReload, AfterReload
    <3> QED BY <3>1, <3>2
  <2>8. HeldRight(u)'
    BY <2>6 DEF HeldRight
  <2>9. ElseStopped(u)'
    BY <1>1, <1>2, <1>3, <1>4, <2>1, <2>3, <2>4 DEF Standing, ElseStopped, ReloadQueued
  <2> QED BY <2>5, <2>7, <2>8, <2>9 DEF Standing
<1> QED BY <1>2, <1>5, <1>6, <1>7, <1>8, <1>9, <1>10 DEF TimersInv

\* The timer of a command is put in the list it belongs to, if its time has not come.
LEMMA InsertKeepsTimers ==
    ASSUME TimersInv, pc = "act", fault = "none", NEW t, t = command.timer,
           NEW at \in Nat, at <= lastTime, lastTime - at < TickModulus, NEW p \in Period,
           clock = lastTime \/ clock <= at + Lateness,
           NEW late \in BOOLEAN,
           late <=> ProcessTimerNow(Ticks(at + p), Ticks(lastTime), Ticks(at), p),
           prvInsertTimerInActiveList(pxCurrentTimerList, pxOverflowTimerList, t, Ticks(at + p),
                                      Ticks(lastTime), Ticks(at), p),
           xTimerPeriodInTicks' = [xTimerPeriodInTicks EXCEPT ![t] = p],
           due' \in [Timer -> Nat \union {Stopped}],
           \A u \in Timer \ {t} : due'[u] = due[u],
           t \notin overtaken => due'[t] = at + p,
           late => /\ pc' = "call" /\ command' = command
                   /\ at = command.at /\ command.id \in StartCommands,
           ~late => pc' = "commands" /\ command' = NoCommand,
           UNCHANGED <<clock, xTimerQueue, freed, suspended, lastTime, wakeTime, reload, fault,
                       deleting, overtaken>>
    PROVE  TimersInv'
<1>0. /\ ListTypes /\ TaskTypes /\ DataTypes /\ QueueValid /\ CommandValid /\ StageKept
      /\ \A u \in Timer \ overtaken : Standing(u)
  BY DEF TimersInv
<1>1. /\ command # NoCommand /\ t \in Timer /\ NoTimer \notin Timer /\ NoCommand.timer = NoTimer
      /\ Valid(command) /\ reload[1] = NoTimer /\ ~suspended /\ t \notin freed
  BY <1>0, HeldTypes DEF CommandValid, StageKept, ActedOn, TaskTypes, NoCommand
<1>2. /\ clock \in Nat /\ lastTime \in Nat /\ lastTime <= clock /\ Lateness \in Nat
      /\ p \in Nat \ {0} /\ at + p \in Nat
  BY <1>0, TimeTypes, PeriodType
<1>3. PICK expiry, now : expiry = Ticks(at + p) /\ now = Ticks(lastTime)
  OBVIOUS
<1>4. expiry \in 0 .. TickModulus - 1 /\ expiry \in Int /\ now \in Int
  BY <1>2, <1>3, EpochAndTicks, PeriodType
<1>5. /\ late <=> at + p <= lastTime
      /\ ~late => /\ expiry > now => Epoch(at + p) = Epoch(lastTime)
                  /\ expiry <= now => Epoch(at + p) = Epoch(lastTime) + 1
  <2>1. /\ ProcessTimerNow(Ticks(at + p), Ticks(lastTime), Ticks(at), p) <=> at + p <= lastTime
        /\ at + p > lastTime =>
             /\ Ticks(at + p) > Ticks(lastTime) => Epoch(at + p) = Epoch(lastTime)
             /\ Ticks(at + p) <= Ticks(lastTime) => Epoch(at + p) = Epoch(lastTime) + 1
    BY <1>2, InsertedByTime
  <2>2. ~(at + p <= lastTime) => at + p > lastTime
    BY <1>2
  <2> QED BY <1>3, <2>1, <2>2
<1>6. ~Contains(pxCurrentTimerList, t) /\ ~Contains(pxOverflowTimerList, t)
  BY <1>0, <1>1 DEF ListTypes, Listed
<1>7. /\ TwoLists(pxCurrentTimerList', pxOverflowTimerList')
      /\ \A u : Contains(pxCurrentTimerList', u)
                  <=> Contains(pxCurrentTimerList, u) \/ (u = t /\ ~late /\ expiry > now)
      /\ \A u : Contains(pxOverflowTimerList', u)
                  <=> Contains(pxOverflowTimerList, u) \/ (u = t /\ ~late /\ expiry <= now)
  BY <1>0, <1>1, <1>3, <1>4, <1>6, InsertedInOneList DEF ListTypes
<1>8. expiry > now <=> ~(expiry <= now)
  BY <1>4
<1>9. \A u : Listed(u)' <=> Listed(u) \/ (u = t /\ ~late)
  BY <1>7, <1>8 DEF Listed
<1>10. xItemValue' = [xItemValue EXCEPT ![t] = expiry]
  BY <1>3 DEF prvInsertTimerInActiveList
<1>11. ListTypes'
  <2>1. xItemValue' \in [Timer -> 0 .. (TickModulus - 1)]
    BY <1>0, <1>4, <1>10 DEF ListTypes
  <2>2. \A u \in Timer : Listed(u) => u # t /\ u \notin freed
    BY <1>0 DEF ListTypes
  <2>3. \A u \in Timer : Listed(u)' => u # command'.timer /\ u \notin freed'
    BY <1>1, <1>9, <2>2
  <2> QED BY <1>7, <2>1, <2>3 DEF ListTypes
<1>12. TaskTypes'
  BY <1>0, <1>1 DEF TaskTypes
<1>13. DataTypes'
  BY <1>0, <1>1 DEF DataTypes
<1>14. QueueValid'
  BY <1>0 DEF QueueValid, Valid, Recent
<1>15. xTimerPeriodInTicks'[t] = p /\ \A u \in Timer \ {t} : xTimerPeriodInTicks'[u] = xTimerPeriodInTicks[u]
  BY <1>0, <1>1 DEF DataTypes
<1>16. CommandValid'
  <2>1. CASE late
    <3>1. Valid(command)' /\ ActedOn' /\ ActedOn
      BY <1>1, <2>1 DEF Valid, Recent, ActedOn
    <3>2. pc' = "call" => /\ command'.id \in StartCommands
                          /\ command'.at + xTimerPeriodInTicks'[command'.timer] <= lastTime'
      BY <1>5, <1>15, <2>1
    <3> QED BY <1>0, <1>1, <2>1, <3>1, <3>2 DEF CommandValid
  <2>2. CASE ~late
    BY <1>1, <2>2 DEF CommandValid, ActedOn
  <2> QED BY <2>1, <2>2
<1>17. StageKept'
  BY <1>0, <1>1 DEF StageKept
<1>18. ASSUME NEW u \in Timer \ overtaken PROVE Standing(u)'
  <2>1. Standing(u)
    BY <1>0, <1>18
  <2>2. ListsEpoch' = ListsEpoch /\ ListsEpoch = Epoch(lastTime)
    BY DEF ListsEpoch, Epoch
  <2>3. command'.timer # u <=> u # t \/ ~late
    BY <1>1, <1>18
  <2>4. CASE u # t
    <3>1. /\ due'[u] = due[u] /\ xItemValue'[u] = xItemValue[u] /\ command'.timer # u
          /\ xTimerPeriodInTicks'[u] = xTimerPeriodInTicks[u]
          /\ Listed(u)' <=> Listed(u)
          /\ Contains(pxCurrentTimerList', u) <=> Contains(pxCurrentTimerList, u)
      BY <1>0, <1>7, <1>9, <1>10, <1>15, <2>3, <2>4 DEF ListTypes
    <3>2. ListedRight(u)'
      BY <2>1, <2>2, <3>1 DEF Standing, ListedRight
    <3>3. QueuedRight(u)'
      BY <2>1, <3>1 DEF Standing, QueuedRight, IsReload, AfterReload
    <3>4. HeldRight(u)'
      BY <1>1, <1>18, <3>1 DEF HeldRight
    <3>5. ElseStopped(u)'
      BY <2>1, <2>4, <3>1 DEF Standing, ElseStopped, ReloadQueued
    <3> QED BY <3>2, <3>3, <3>4, <3>5 DEF Standing
  <2>5. CASE u = t
    <3>1. due'[t] = at + p /\ xItemValue'[t] = expiry /\ xTimerPeriodInTicks'[t] = p
      BY <1>0, <1>1, <1>10, <1>15, <1>18, <2>5 DEF ListTypes
    <3>2. ListedRight(u)'
      <4>1. SUFFICES ASSUME ~late
                     PROVE  /\ at + p # Stopped /\ expiry = Ticks(at + p)
                            /\ at + p <= lastTime + p /\ clock <= at + p + Lateness
                            /\ Epoch(at + p) = IF Contains(pxCurrentTimerList', t)
                                               THEN Epoch(lastTime) ELSE Epoch(lastTime) + 1
        <5>1. Epoch(due[t])' = Epoch(at + p) /\ Ticks(due[t])' = Ticks(at + p)
          BY <3>1 DEF Epoch, Ticks
        <5>2. ~Listed(t)
          BY <1>6 DEF Listed
        <5> QED BY <1>9, <2>2, <2>5, <3>1, <5>1, <5>2 DEF ListedRight
      <4>2. at + p # Stopped
        BY <1>2, TimersAssumption
      <4>3. clock <= at + p + Lateness
        BY <1>2, <1>5, <4>1
      <4>4. Epoch(at + p) = IF Contains(pxCurrentTimerList', t)
                            THEN Epoch(lastTime) ELSE Epoch(lastTime) + 1
        BY <1>5, <1>6, <1>7, <1>8, <4>1
      <4> QED BY <1>2, <1>3, <4>2, <4>3, <4>4
    <3>3. QueuedRight(u)'
      BY <2>1, <2>5 DEF Standing, QueuedRight, IsReload
    <3>4. HeldRight(u)'
      BY <1>1, <1>18, <2>3, <2>5, <3>1 DEF HeldRight, AfterReload
    <3>5. ElseStopped(u)'
      BY <1>1, <1>9, <2>5 DEF ElseStopped
    <3> QED BY <3>2, <3>3, <3>4, <3>5 DEF Standing
  <2> QED BY <2>4, <2>5
<1> QED BY <1>11, <1>12, <1>13, <1>14, <1>16, <1>17, <1>18 DEF TimersInv

LEMMA StartKeepsTimers == ASSUME TimersInv, ActOnStart PROVE TimersInv'
<1>0. /\ ListTypes /\ TaskTypes /\ DataTypes /\ QueueValid /\ CommandValid /\ StageKept
      /\ \A t \in Timer \ overtaken : Standing(t)
  BY DEF TimersInv
<1>1. PICK t, p, at : t = command.timer /\ p = xTimerPeriodInTicks[t] /\ at = command.at
  OBVIOUS
<1>2. PICK late \in BOOLEAN : late <=> ProcessTimerNow(Ticks(at + p), Ticks(lastTime), Ticks(at), p)
  OBVIOUS
<1>3. /\ pc = "act" /\ fault = "none" /\ command.id \in StartCommands
      /\ prvInsertTimerInActiveList(pxCurrentTimerList, pxOverflowTimerList, t, Ticks(at + p),
                                    Ticks(lastTime), Ticks(at), p)
      /\ late => pc' = "call" /\ command' = command
      /\ ~late => pc' = "commands" /\ command' = NoCommand
      /\ due' = (IF command.id = "START" THEN [due EXCEPT ![t] = at + p] ELSE due)
      /\ UNCHANGED <<clock, xTimerPeriodInTicks, xTimerQueue, freed, suspended, lastTime, wakeTime,
                     reload, fault, deleting, overtaken>>
  BY <1>1, <1>2 DEF ActOnStart, At
<1>4. ActedOn /\ command # NoCommand
  BY <1>0, <1>3 DEF ActedOn, CommandValid
<1>5. /\ t \in Timer /\ at \in Nat /\ at <= lastTime /\ p \in Period /\ p \in Nat
      /\ clock = lastTime \/ clock <= at + Lateness
      /\ lastTime - at < TickModulus
  <2>1. /\ t \in Timer /\ at \in Nat /\ at <= lastTime /\ clock - at < TickModulus
        /\ clock = lastTime \/ clock <= at + Lateness
    BY <1>0, <1>1, <1>4, HeldTypes DEF CommandValid, Valid, Recent
  <2>2. p \in Period
    BY <1>0, <1>1, <2>1 DEF DataTypes
  <2>3. lastTime - at < TickModulus
    BY <1>0, <2>1, TimeTypes, PeriodType
  <2> QED BY <2>1, <2>2, <2>3, PeriodType
<1>6. /\ xTimerPeriodInTicks' = [xTimerPeriodInTicks EXCEPT ![t] = p]
      /\ due' \in [Timer -> Nat \union {Stopped}]
      /\ \A u \in Timer \ {t} : due'[u] = due[u]
  BY <1>0, <1>1, <1>3, <1>5 DEF DataTypes
<1>7. t \notin overtaken => due'[t] = at + p
  <2>1. CASE command.id = "START"
    BY <1>0, <1>3, <1>5, <2>1 DEF DataTypes
  <2>2. CASE command.id = "START_DONT_TRACE"
    <3>1. t \notin overtaken => HeldRight(t)
      BY <1>0, <1>5 DEF Standing
    <3> QED BY <1>1, <1>3, <2>2, <3>1 DEF HeldRight, AfterReload
  <2> QED BY <1>3, <2>1, <2>2 DEF StartCommands
<1>8. late => /\ pc' = "call" /\ command' = command
              /\ at = command.at /\ command.id \in StartCommands
  BY <1>1, <1>3
<1>9. /\ pc = "act" /\ fault = "none" /\ t = command.timer
      /\ ~late => pc' = "commands" /\ command' = NoCommand
      /\ UNCHANGED <<clock, xTimerQueue, freed, suspended, lastTime, wakeTime, reload, fault,
                     deleting, overtaken>>
  BY <1>1, <1>3
<1>10. prvInsertTimerInActiveList(pxCurrentTimerList, pxOverflowTimerList, t, Ticks(at + p),
                                  Ticks(lastTime), Ticks(at), p)
  BY <1>3
<1> QED BY <1>2, <1>5, <1>6, <1>7, <1>8, <1>9, <1>10, InsertKeepsTimers

LEMMA ChangePeriodKeepsTimers == ASSUME TimersInv, ActOnChangePeriod PROVE TimersInv'
<1>0. /\ ListTypes /\ TaskTypes /\ DataTypes /\ QueueValid /\ CommandValid /\ StageKept
      /\ \A t \in Timer \ overtaken : Standing(t)
  BY DEF TimersInv
<1>1. PICK t, p : t = command.timer /\ p = command.period
  OBVIOUS
<1>2. /\ pc = "act" /\ fault = "none" /\ command.id = "CHANGE_PERIOD"
      /\ xTimerPeriodInTicks' = [xTimerPeriodInTicks EXCEPT ![t] = p]
      /\ prvInsertTimerInActiveList(pxCurrentTimerList, pxOverflowTimerList, t,
                                    Ticks(Ticks(lastTime) + p), Ticks(lastTime), Ticks(lastTime), p)
      /\ due' = [due EXCEPT ![t] = lastTime + p]
      /\ pc' = "commands" /\ command' = NoCommand
      /\ UNCHANGED <<clock, xTimerQueue, freed, suspended, lastTime, wakeTime, reload, fault,
                     deleting, overtaken>>
  BY <1>1 DEF ActOnChangePeriod, At
<1>3. ActedOn /\ command # NoCommand
  BY <1>0, <1>2 DEF ActedOn, CommandValid
<1>4. /\ clock \in Nat /\ lastTime \in Nat /\ lastTime <= clock /\ Lateness \in Nat /\ TickModulus \in Nat
      /\ TickModulus > 0
  BY <1>0, TimeTypes, PeriodType
<1>5. /\ t \in Timer /\ p \in Period /\ p \in Nat \ {0}
      /\ clock = lastTime \/ clock <= lastTime + Lateness
  <2>1. /\ t \in Timer /\ command.at \in Nat /\ command.at <= lastTime /\ p \in Period
        /\ clock = lastTime \/ clock <= command.at + Lateness
    BY <1>0, <1>1, <1>2, <1>3, HeldTypes DEF CommandValid, Valid
  <2> QED BY <1>4, <2>1, PeriodType
<1>6. Ticks(Ticks(lastTime) + p) = Ticks(lastTime + p)
  BY <1>4, <1>5, TicksOfSum
<1>7. ~ProcessTimerNow(Ticks(lastTime + p), Ticks(lastTime), Ticks(lastTime), p)
  <2>1. lastTime - lastTime < TickModulus /\ ~(lastTime + p <= lastTime)
    BY <1>4, <1>5
  <2> QED BY <1>4, <1>5, <2>1, InsertedByTime
<1>8. /\ due' \in [Timer -> Nat \union {Stopped}] /\ due'[t] = lastTime + p
      /\ \A u \in Timer \ {t} : due'[u] = due[u]
  BY <1>0, <1>2, <1>4, <1>5 DEF DataTypes
<1>9. PICK late \in BOOLEAN : ~late
  OBVIOUS
<1>10. lastTime - lastTime < TickModulus /\ lastTime <= lastTime
  BY <1>4
<1> QED BY <1>1, <1>2, <1>4, <1>5, <1>6, <1>7, <1>8, <1>9, <1>10, InsertKeepsTimers

\* What a call tells about the next one.
LEMMA Called ==
    ASSUME DataTypes, NEW t \in Timer, Call(t)
    PROVE  /\ due' \in [Timer -> Nat \union {Stopped}]
           /\ \A u \in Timer \ {t} : due'[u] = due[u]
           /\ due'[t] = IF t \in AutoReload /\ due[t] # Stopped THEN due[t] + xTimerPeriodInTicks[t]
                        ELSE Stopped
<1>1. /\ due \in [Timer -> Nat \union {Stopped}] /\ xTimerPeriodInTicks[t] \in Nat
  BY PeriodType DEF DataTypes
<1>2. PICK next : next = IF t \in AutoReload /\ due[t] # Stopped THEN due[t] + xTimerPeriodInTicks[t]
                         ELSE Stopped
  OBVIOUS
<1>3. next \in Nat \union {Stopped}
  BY <1>1, <1>2
<1>4. due' = [due EXCEPT ![t] = next]
  BY <1>2 DEF Call
<1> QED BY <1>1, <1>2, <1>3, <1>4

LEMMA StartExpiredKeepsTimers == ASSUME TimersInv, StartExpired PROVE TimersInv'
<1>0. /\ ListTypes /\ TaskTypes /\ DataTypes /\ QueueValid /\ CommandValid /\ StageKept
      /\ \A t \in Timer \ overtaken : Standing(t)
  BY DEF TimersInv
<1>1. PICK t, p, at : t = command.timer /\ p = xTimerPeriodInTicks[t] /\ at = command.at
  OBVIOUS
<1>2. /\ pc = "call" /\ fault = "none" /\ Call(t) /\ command' = NoCommand
      /\ t \in AutoReload => pc' = "restart" /\ reload' = <<t, at + p>>
      /\ t \notin AutoReload => pc' = "commands" /\ UNCHANGED reload
      /\ UNCHANGED <<clock, pxCurrentTimerList, pxOverflowTimerList, xItemValue, xTimerPeriodInTicks,
                     xTimerQueue, freed, suspended, lastTime, wakeTime, fault, deleting, overtaken>>
  BY <1>1 DEF StartExpired, At, lists
<1>3. /\ command # NoCommand /\ t \in Timer /\ NoTimer \notin Timer /\ NoCommand.timer = NoTimer
      /\ at \in Nat /\ reload[1] = NoTimer /\ ~suspended /\ Recent(at) /\ at + p <= lastTime
      /\ p \in Nat
  <2>1. /\ command # NoCommand /\ t \in Timer /\ NoTimer \notin Timer /\ NoCommand.timer = NoTimer
        /\ at \in Nat /\ reload[1] = NoTimer /\ ~suspended /\ Recent(at) /\ at + p <= lastTime
    BY <1>0, <1>1, <1>2, HeldTypes DEF CommandValid, Valid, StageKept, ActedOn, TaskTypes, NoCommand
  <2> QED BY <1>0, <1>1, <2>1, PeriodType DEF DataTypes
<1>4. /\ due' \in [Timer -> Nat \union {Stopped}]
      /\ \A u \in Timer \ {t} : due'[u] = due[u]
      /\ due'[t] = IF t \in AutoReload /\ due[t] # Stopped THEN due[t] + p ELSE Stopped
  BY <1>0, <1>1, <1>2, <1>3, Called
<1>5. \A u : Listed(u)' <=> Listed(u)
  BY <1>2 DEF Listed
<1>6. ~Listed(t)
  BY <1>0, <1>1, <1>3 DEF ListTypes
<1>7. ListTypes'
  BY <1>0, <1>2, <1>3, <1>5 DEF ListTypes
<1>8. TaskTypes'
  BY <1>0, <1>2, <1>3 DEF TaskTypes
<1>9. DataTypes'
  BY <1>0, <1>2, <1>4 DEF DataTypes
<1>10. QueueValid'
  BY <1>0, <1>2 DEF QueueValid, Valid, Recent
<1>11. CommandValid'
  <2>1. pc' # "sample" /\ ~ActedOn' /\ pc' # "call"
    BY <1>2 DEF ActedOn
  <2> QED BY <1>2, <2>1 DEF CommandValid
<1>12. Recent(at + p)
  <2>1. clock \in Nat /\ lastTime \in Nat /\ lastTime <= clock
    BY <1>0, TimeTypes
  <2> QED BY <1>3, <2>1, PeriodType DEF Recent
<1>13. StageKept'
  <2>1. CASE t \in AutoReload
    BY <1>2, <1>3, <1>5, <1>6, <1>12, <2>1 DEF StageKept, Recent
  <2>2. CASE t \notin AutoReload
    BY <1>2, <1>3, <2>2 DEF StageKept
  <2> QED BY <2>1, <2>2
<1>14. ASSUME NEW u \in Timer \ overtaken PROVE Standing(u)'
  <2>1. Standing(u)
    BY <1>0, <1>14
  <2>2. ListsEpoch' = ListsEpoch
    BY <1>2 DEF ListsEpoch, Epoch
  <2>3. command'.timer # u /\ (reload'[1] = u => u = t /\ t \in AutoReload)
    BY <1>2, <1>3
  <2>4. ListedRight(u)'
    <3>1. u # t => due'[u] = due[u]
      BY <1>4
    <3> QED BY <1>2, <1>5, <1>6, <2>1, <2>2, <3>1 DEF Standing, ListedRight
  <2>5. QueuedRight(u)'
    <3>1. CASE u = t
      BY <1>1, <1>2, <2>1, <3>1 DEF Standing, QueuedRight, IsReload
    <3>2. CASE u # t
      <4>1. due'[u] = due[u]
        BY <1>4, <3>2
      <4> QED BY <1>2, <1>5, <2>1, <2>3, <3>2, <4>1 DEF Standing, QueuedRight, IsReload, AfterReload
    <3> QED BY <3>1, <3>2
  <2>6. HeldRight(u)'
    <3>1. u = t => due[t] = at + p /\ due[t] # Stopped
      <4>1. u = t => due[t] = at + p
        BY <1>1, <1>2, <2>1 DEF Standing, HeldRight, AfterReload
      <4>2. at + p \in Nat
        BY <1>3
      <4> QED BY <4>1, <4>2, TimersAssumption
    <3>2. reload'[1] = u => reload'[2] = at + p /\ due'[u] = at + p + p
      BY <1>2, <1>4, <2>3, <3>1
    <3> QED BY <1>1, <1>2, <2>3, <3>2 DEF HeldRight, AfterReload
  <2>7. ElseStopped(u)'
    <3>1. CASE u = t
      BY <1>2, <1>4, <3>1 DEF ElseStopped
    <3>2. CASE u # t
      <4>1. due'[u] = due[u] /\ command.timer # u /\ reload[1] # u
        BY <1>1, <1>3, <1>4, <3>2
      <4> QED BY <1>2, <1>5, <2>1, <4>1 DEF Standing, ElseStopped, ReloadQueued
    <3> QED BY <3>1, <3>2
  <2> QED BY <2>4, <2>5, <2>6, <2>7 DEF Standing
<1> QED BY <1>2, <1>7, <1>8, <1>9, <1>10, <1>11, <1>13, <1>14 DEF TimersInv

\* A START_DONT_TRACE is put behind the other messages, or does not fit.
LEMMA Reposted ==
    ASSUME DataTypes, QueueValid, NEW t \in Timer, NEW at \in 0..MaxClock, Recent(at),
           Reload(t, at), fault = "none", clock' = clock, deleting' = deleting
    PROVE  /\ xTimerQueue' \in Seq(Message \union {Callback}) /\ Len(xTimerQueue') <= QueueLength
           /\ QueueValid' /\ fault' \in {"none", "configASSERT"}
           /\ \A u : ReloadQueued(u) => ReloadQueued(u)'
           /\ fault' = "none" => ReloadQueued(t)'
           /\ \A u : u # t => \A i \in DOMAIN xTimerQueue' : IsReload(i, u)' =>
                 i \in DOMAIN xTimerQueue /\ IsReload(i, u) /\ xTimerQueue'[i] = xTimerQueue[i]
           /\ ~ReloadQueued(t) => \A i \in DOMAIN xTimerQueue' : IsReload(i, t)' =>
                 /\ xTimerQueue'[i].at = at
                 /\ \A j \in DOMAIN xTimerQueue' : IsReload(j, t)' => j = i
<1>1. PICK m : m = Command("START_DONT_TRACE", t, at, 0)
  OBVIOUS
<1>2. /\ m \in Message /\ m.at = at /\ m.id = "START_DONT_TRACE" /\ m.timer = t
  BY <1>1 DEF Message, Command, StartCommands
<1>3. /\ xTimerQueue \in Seq(Message \union {Callback}) /\ Len(xTimerQueue) <= QueueLength
      /\ Len(xTimerQueue) \in Nat /\ QueueLength \in Nat
  BY TimersAssumption, LenProperties DEF DataTypes
<1>4. ASSUME NEW x, Valid(x) PROVE Valid(x)'
  BY <1>4 DEF Valid, Recent
<1>5. CASE fault' = "configASSERT" /\ xTimerQueue' = xTimerQueue
  <2>1. QueueValid'
    BY <1>5 DEF QueueValid, Valid, Recent
  <2>2. \A u : ReloadQueued(u)' <=> ReloadQueued(u)
    BY <1>5 DEF ReloadQueued
  <2>3. \A u, i : IsReload(i, u)' <=> IsReload(i, u)
    BY <1>5 DEF IsReload
  <2>4. ~ReloadQueued(t) => \A i \in DOMAIN xTimerQueue' : ~IsReload(i, t)'
    BY <1>5, <2>3 DEF ReloadQueued, IsReload
  <2> QED BY <1>3, <1>5, <2>1, <2>2, <2>3, <2>4
<1>6. CASE fault' = fault /\ xTimerQueue' = Append(xTimerQueue, m) /\ Len(xTimerQueue) < QueueLength
  <2>1. PICK n : n = Len(xTimerQueue) + 1
    OBVIOUS
  <2>2. /\ xTimerQueue' \in Seq(Message \union {Callback}) /\ Len(xTimerQueue') = n
        /\ \A i \in DOMAIN xTimerQueue' : \/ i \in DOMAIN xTimerQueue /\ xTimerQueue'[i] = xTimerQueue[i]
                                          \/ i = n /\ xTimerQueue'[i] = m
        /\ \A i \in DOMAIN xTimerQueue : i \in DOMAIN xTimerQueue' /\ xTimerQueue'[i] = xTimerQueue[i]
        /\ n \in DOMAIN xTimerQueue' /\ n \notin DOMAIN xTimerQueue
    BY <1>2, <1>3, <1>6, <2>1, Appended
  <2>3. xTimerQueue'[n] = m
    BY <2>2
  <2>4. n <= QueueLength
    BY <1>3, <1>6, <2>1
  <2>5. QueueValid'
    <3> SUFFICES ASSUME NEW i \in DOMAIN xTimerQueue', xTimerQueue'[i].timer # NoTimer
                 PROVE  Valid(xTimerQueue[i])'
      BY DEF QueueValid
    <3>1. CASE i \in DOMAIN xTimerQueue /\ xTimerQueue'[i] = xTimerQueue[i]
      <4>1. Valid(xTimerQueue[i])
        BY <3>1 DEF QueueValid
      <4> QED BY <3>1, <4>1 DEF Valid, Recent
    <3>2. CASE xTimerQueue'[i] = m
      BY <1>2, <3>2 DEF Valid, Recent
    <3> QED BY <2>2, <3>1, <3>2
  <2>6. \A u : ReloadQueued(u) => ReloadQueued(u)'
    BY <2>2 DEF ReloadQueued
  <2>7. ReloadQueued(t)'
    BY <1>2, <2>2, <2>3 DEF ReloadQueued
  <2>8. ASSUME NEW u, u # t, NEW i \in DOMAIN xTimerQueue', IsReload(i, u)'
        PROVE  i \in DOMAIN xTimerQueue /\ IsReload(i, u) /\ xTimerQueue'[i] = xTimerQueue[i]
    BY <1>2, <2>2, <2>8 DEF IsReload
  <2>9. ASSUME ~ReloadQueued(t), NEW i \in DOMAIN xTimerQueue', IsReload(i, t)' PROVE i = n
    BY <2>2, <2>9 DEF IsReload, ReloadQueued
  <2> QED BY <1>2, <1>6, <2>2, <2>3, <2>4, <2>5, <2>6, <2>7, <2>8, <2>9
<1> QED BY <1>1, <1>5, <1>6 DEF Reload

LEMMA ReloadKeepsTimers == ASSUME TimersInv, SwitchReload \/ StartReload PROVE TimersInv'
<1>0. /\ ListTypes /\ TaskTypes /\ DataTypes /\ QueueValid /\ CommandValid /\ StageKept
      /\ \A t \in Timer \ overtaken : Standing(t)
  BY DEF TimersInv
<1>1. PICK t, at : t = reload[1] /\ at = reload[2]
  OBVIOUS
<1>2. /\ pc \in {"reload", "restart"} /\ fault = "none" /\ Reload(t, at)
      /\ pc = "reload" => pc' = "switch"
      /\ pc = "restart" => pc' = "commands"
      /\ reload' = <<NoTimer, 0>>
      /\ UNCHANGED <<clock, pxCurrentTimerList, pxOverflowTimerList, xItemValue, xTimerPeriodInTicks,
                     freed, suspended, lastTime, wakeTime, command, deleting, due, overtaken>>
  BY <1>1 DEF SwitchReload, StartReload, At, lists, promise
<1>3. /\ t \in Timer /\ at \in Nat /\ Recent(at) /\ t # NoTimer /\ NoTimer \notin Timer
      /\ ~Listed(t) /\ t # command.timer
  BY <1>0, <1>1, <1>2, HeldTypes DEF StageKept
<1>4. at \in 0..MaxClock
  BY <1>0, <1>3, TimeTypes DEF Recent
<1>5. /\ xTimerQueue' \in Seq(Message \union {Callback}) /\ Len(xTimerQueue') <= QueueLength
      /\ QueueValid' /\ fault' \in {"none", "configASSERT"}
      /\ \A u : ReloadQueued(u) => ReloadQueued(u)'
      /\ fault' = "none" => ReloadQueued(t)'
      /\ \A u : u # t => \A i \in DOMAIN xTimerQueue' : IsReload(i, u)' =>
            i \in DOMAIN xTimerQueue /\ IsReload(i, u) /\ xTimerQueue'[i] = xTimerQueue[i]
      /\ ~ReloadQueued(t) => \A i \in DOMAIN xTimerQueue' : IsReload(i, t)' =>
            /\ xTimerQueue'[i].at = at
            /\ \A j \in DOMAIN xTimerQueue' : IsReload(j, t)' => j = i
  BY <1>0, <1>2, <1>3, <1>4, Reposted
<1>6. \A u : Listed(u)' <=> Listed(u)
  BY <1>2 DEF Listed
<1>7. ListTypes'
  BY <1>0, <1>2, <1>6 DEF ListTypes
<1>8. TaskTypes'
  <2>1. reload' \in (Timer \union {NoTimer}) \X Nat
    BY <1>2
  <2> QED BY <1>0, <1>2, <1>5, <2>1 DEF TaskTypes
<1>9. DataTypes'
  BY <1>0, <1>2, <1>5 DEF DataTypes
<1>10. CommandValid'
  <2>1. pc' # "sample" /\ pc # "sample" /\ pc' # "call" /\ (ActedOn' <=> ActedOn)
    BY <1>0, <1>2 DEF ActedOn, TaskTypes
  <2>2. Valid(command) => Valid(command)'
    BY <1>2 DEF Valid, Recent
  <2> QED BY <1>0, <1>2, <2>1, <2>2 DEF CommandValid
<1>11. StageKept'
  BY <1>0, <1>2 DEF StageKept
<1>12. ASSUME NEW u \in Timer \ overtaken PROVE Standing(u)'
  <2>1. Standing(u)
    BY <1>0, <1>12
  <2>2. ListsEpoch' = ListsEpoch
    BY <1>2 DEF ListsEpoch, Epoch
  <2>3. ListedRight(u)'
    BY <1>2, <1>6, <2>1, <2>2 DEF Standing, ListedRight
  <2>4. reload'[1] # u
    BY <1>2, <1>3
  <2>5. QueuedRight(u)'
    <3>1. CASE u = t
      <4>1. ~ReloadQueued(t)
        BY <1>1, <2>1, <3>1 DEF Standing, QueuedRight, IsReload, ReloadQueued
      <4>2. AfterReload(t, at)
        BY <1>1, <2>1, <3>1 DEF Standing, HeldRight
      <4> QED BY <1>2, <1>3, <1>5, <1>6, <2>4, <3>1, <4>1, <4>2 DEF QueuedRight, AfterReload
    <3>2. CASE u # t
      <4> SUFFICES ASSUME NEW i \in DOMAIN xTimerQueue', IsReload(i, u)'
                   PROVE  /\ AfterReload(u, xTimerQueue[i].at)'
                          /\ ~Listed(u)' /\ command'.timer # u /\ reload'[1] # u
                          /\ \A j \in DOMAIN xTimerQueue' : IsReload(j, u)' => j = i
        BY DEF QueuedRight
      <4>1. /\ i \in DOMAIN xTimerQueue /\ IsReload(i, u) /\ xTimerQueue'[i] = xTimerQueue[i]
        BY <1>5, <3>2
      <4>2. /\ AfterReload(u, xTimerQueue[i].at) /\ ~Listed(u) /\ command.timer # u
            /\ \A j \in DOMAIN xTimerQueue : IsReload(j, u) => j = i
        BY <2>1, <4>1 DEF Standing, QueuedRight
      <4> QED BY <1>2, <1>5, <1>6, <2>4, <3>2, <4>1, <4>2 DEF AfterReload
    <3> QED BY <3>1, <3>2
  <2>6. HeldRight(u)'
    <3>1. pc' # "call"
      BY <1>2
    <3> QED BY <1>2, <2>1, <2>4, <3>1 DEF Standing, HeldRight, AfterReload
  <2>7. ElseStopped(u)'
    <3>1. CASE u = t
      BY <1>5, <3>1 DEF ElseStopped
    <3>2. CASE u # t
      BY <1>1, <1>2, <1>5, <1>6, <2>1, <3>2 DEF Standing, ElseStopped
    <3> QED BY <3>1, <3>2
  <2> QED BY <2>3, <2>5, <2>6, <2>7 DEF Standing
<1> QED BY <1>2, <1>5, <1>7, <1>8, <1>9, <1>10, <1>11, <1>12 DEF TimersInv

\* A call leaves the other timers as they were.
LEMMA OthersStand ==
    ASSUME NEW u, Standing(u), ListsEpoch' = ListsEpoch,
           UNCHANGED <<clock, lastTime, xTimerPeriodInTicks, command>>, pc # "call", pc' # "call",
           due'[u] = due[u], xItemValue'[u] = xItemValue[u],
           Listed(u)' <=> Listed(u),
           Contains(pxCurrentTimerList', u) <=> Contains(pxCurrentTimerList, u),
           reload[1] # u, reload'[1] # u, fault = "none", ReloadQueued(u) => ReloadQueued(u)',
           \A i \in DOMAIN xTimerQueue' : IsReload(i, u)' =>
                 i \in DOMAIN xTimerQueue /\ IsReload(i, u) /\ xTimerQueue'[i] = xTimerQueue[i]
    PROVE  Standing(u)'
<1>1. ListedRight(u)'
  BY DEF Standing, ListedRight
<1>2. QueuedRight(u)'
  <2> SUFFICES ASSUME NEW i \in DOMAIN xTimerQueue', IsReload(i, u)'
               PROVE  /\ AfterReload(u, xTimerQueue[i].at)'
                      /\ ~Listed(u)' /\ command'.timer # u /\ reload'[1] # u
                      /\ \A j \in DOMAIN xTimerQueue' : IsReload(j, u)' => j = i
    BY DEF QueuedRight
  <2>1. /\ i \in DOMAIN xTimerQueue /\ IsReload(i, u) /\ xTimerQueue'[i] = xTimerQueue[i]
    OBVIOUS
  <2>2. /\ AfterReload(u, xTimerQueue[i].at) /\ ~Listed(u) /\ command.timer # u
        /\ \A j \in DOMAIN xTimerQueue : IsReload(j, u) => j = i
    BY <2>1 DEF Standing, QueuedRight
  <2> QED BY <2>1, <2>2 DEF AfterReload
<1>3. HeldRight(u)'
  BY DEF Standing, HeldRight, AfterReload
<1>4. ElseStopped(u)'
  BY DEF Standing, ElseStopped
<1> QED BY <1>1, <1>2, <1>3, <1>4 DEF Standing

\* The first timer of the current list, when its value shows that it has expired.
LEMMA FirstIsDue ==
    ASSUME ListTypes, TaskTypes, DataTypes, NEW t \in Timer, Listed(t), ListedRight(t),
           NEW d, d = due[t], NEW p, p = xTimerPeriodInTicks[t], NEW v, v = xItemValue[t],
           d <= lastTime
    PROVE  /\ d \in Nat /\ p \in Period /\ p \in Nat \ {0} /\ v = Ticks(d) /\ d # Stopped
           /\ TimeAt(v) = d /\ lastTime - d < TickModulus
           /\ Ticks(v + p) = Ticks(d + p) /\ d + p \in Nat
           /\ d + p # Stopped /\ d + p <= lastTime + p /\ clock <= d + p + Lateness
<1>1. /\ clock \in Nat /\ lastTime \in Nat /\ lastTime <= clock /\ Lateness \in Nat
      /\ TickModulus \in Int
  BY TimeTypes, PeriodType
<1>2. /\ d \in Nat /\ p \in Period /\ v = Ticks(d) /\ clock <= d + Lateness
      /\ clock - d < TickModulus
  BY SampledInTime DEF ListedRight
<1>3. p \in Nat \ {0} /\ lastTime - d < TickModulus /\ d <= clock /\ d + p \in Nat
      /\ clock <= d + p + Lateness /\ d + p <= lastTime + p
  BY <1>1, <1>2, PeriodType
<1>4. TimeAt(v) = d
  BY <1>1, <1>2, <1>3, TimeAtExact
<1>5. Ticks(v + p) = Ticks(d + p)
  <2>1. d \in Int /\ p \in Int
    BY <1>2, <1>3
  <2>2. Ticks(Ticks(d) + p) = Ticks(d + p)
    BY <2>1, TicksOfSum
  <2>3. v = Ticks(d)
    BY <1>2
  <2> QED BY <2>2, <2>3
<1>6. d # Stopped /\ d + p # Stopped
  BY <1>2, <1>3, TimersAssumption
<1> QED BY <1>2, <1>3, <1>4, <1>5, <1>6

LEMMA ExpiredKeepsTimers == ASSUME TimersInv, prvProcessExpiredTimer PROVE TimersInv'
<1>0. /\ ListTypes /\ TaskTypes /\ DataTypes /\ QueueValid /\ CommandValid /\ StageKept
      /\ \A t \in Timer \ overtaken : Standing(t)
  BY DEF TimersInv
<1>1. PICK t, p, v, now :
         /\ t = Head(pxCurrentTimerList) /\ p = xTimerPeriodInTicks[t] /\ v = xItemValue[t]
         /\ now = Ticks(lastTime)
  OBVIOUS
<1>next. PICK next : next = Ticks(v + p)
  OBVIOUS
<1>late. PICK late \in BOOLEAN : late <=> ProcessTimerNow(next, now, v, p)
  OBVIOUS
<1>2. next = Ticks(v + p) /\ (late <=> ProcessTimerNow(next, now, v, p))
  BY <1>next, <1>late
<1>3. /\ pc = "expire" /\ fault = "none" /\ Call(t) /\ pc' = "commands"
      /\ t \in AutoReload =>
            /\ prvInsertTimerInActiveList(Tail(pxCurrentTimerList), pxOverflowTimerList,
                                          t, next, now, v, p)
            /\ late => Reload(t, TimeAt(v))
            /\ ~late => UNCHANGED <<xTimerQueue, fault>>
      /\ t \notin AutoReload =>
            /\ pxCurrentTimerList' = Tail(pxCurrentTimerList)
            /\ UNCHANGED <<pxOverflowTimerList, xItemValue, xTimerQueue, fault>>
      /\ UNCHANGED <<clock, xTimerPeriodInTicks, freed, suspended, lastTime, wakeTime, command,
                     reload, deleting, overtaken>>
  BY <1>1, <1>2 DEF prvProcessExpiredTimer, At
<1>4. /\ pxCurrentTimerList # <<>> /\ v <= now /\ command = NoCommand /\ reload[1] = NoTimer
      /\ command.timer = NoTimer /\ ~suspended /\ NoTimer \notin Timer
  BY <1>0, <1>1, <1>3, HeldTypes DEF StageKept, CommandValid, ActedOn, TaskTypes, prvGetNextExpireTime
<1>5. /\ t \in Timer /\ Contains(pxCurrentTimerList, t) /\ ~Contains(pxOverflowTimerList, t) /\ Listed(t)
      /\ TwoLists(Tail(pxCurrentTimerList), pxOverflowTimerList)
      /\ \A u : Contains(Tail(pxCurrentTimerList), u) <=> Contains(pxCurrentTimerList, u) /\ u # t
  BY <1>0, <1>1, <1>4, HeadLeft DEF ListTypes, TwoLists, Listed
<1>6. /\ clock \in Nat /\ lastTime \in Nat /\ lastTime <= clock /\ clock <= MaxClock /\ MaxClock \in Nat
      /\ v \in 0 .. TickModulus - 1 /\ v \in Int /\ p \in Period /\ p \in Nat \ {0}
      /\ next \in 0 .. TickModulus - 1 /\ next \in Int /\ now \in Int
  <2>1. v \in 0 .. TickModulus - 1 /\ p \in Period /\ TickModulus \in Int
    BY <1>0, <1>1, <1>5, PeriodType DEF ListTypes, DataTypes
  <2>2. p \in Nat \ {0} /\ v \in Int
    BY <2>1, PeriodType
  <2>3. v + p \in Int
    BY <2>2
  <2> QED BY <1>0, <1>1, <1>2, <2>1, <2>2, <2>3, TimeTypes, EpochAndTicks
<1>7. TimeAt(v) \in 0..MaxClock /\ Recent(TimeAt(v))
  BY <1>1, <1>4, <1>6, TimeAtType DEF Recent
<1>8. /\ TwoLists(pxCurrentTimerList', pxOverflowTimerList')
      /\ \A u : Contains(pxCurrentTimerList', u)
                  <=> \/ Contains(pxCurrentTimerList, u) /\ u # t
                      \/ u = t /\ t \in AutoReload /\ ~late /\ next > now
      /\ \A u : Contains(pxOverflowTimerList', u)
                  <=> \/ Contains(pxOverflowTimerList, u)
                      \/ u = t /\ t \in AutoReload /\ ~late /\ next <= now
  <2>1. CASE t \in AutoReload
    <3>1. ~Contains(Tail(pxCurrentTimerList), t)
      BY <1>5
    <3>2. prvInsertTimerInActiveList(Tail(pxCurrentTimerList), pxOverflowTimerList, t, next, now, v, p)
      BY <1>3, <2>1
    <3>3. PICK tail : tail = Tail(pxCurrentTimerList)
      OBVIOUS
    <3>4. /\ TwoLists(pxCurrentTimerList', pxOverflowTimerList')
          /\ \A u : Contains(pxCurrentTimerList', u)
                      <=> Contains(tail, u) \/ (u = t /\ ~late /\ next > now)
          /\ \A u : Contains(pxOverflowTimerList', u)
                      <=> Contains(pxOverflowTimerList, u) \/ (u = t /\ ~late /\ next <= now)
      BY <1>2, <1>5, <1>6, <3>1, <3>2, <3>3, InsertedInOneList
    <3> QED BY <1>5, <2>1, <3>3, <3>4
  <2>2. CASE t \notin AutoReload
    BY <1>3, <1>5, <2>2
  <2> QED BY <2>1, <2>2
<1>9. next > now <=> ~(next <= now)
  BY <1>6
<1>10. /\ \A u : u # t => (Listed(u)' <=> Listed(u))
                          /\ (Contains(pxCurrentTimerList', u) <=> Contains(pxCurrentTimerList, u))
       /\ Listed(t)' <=> t \in AutoReload /\ ~late
  BY <1>5, <1>8, <1>9 DEF Listed
<1>11. /\ xItemValue' \in [Timer -> 0 .. TickModulus - 1]
       /\ \A u \in Timer \ {t} : xItemValue'[u] = xItemValue[u]
       /\ t \in AutoReload => xItemValue'[t] = next
  <2>1. xItemValue' = IF t \in AutoReload THEN [xItemValue EXCEPT ![t] = next] ELSE xItemValue
    BY <1>3 DEF prvInsertTimerInActiveList
  <2> QED BY <1>0, <1>5, <1>6, <2>1 DEF ListTypes
<1>12. /\ due' \in [Timer -> Nat \union {Stopped}]
       /\ \A u \in Timer \ {t} : due'[u] = due[u]
       /\ due'[t] = IF t \in AutoReload /\ due[t] # Stopped THEN due[t] + p ELSE Stopped
  BY <1>0, <1>1, <1>3, <1>5, Called
<1>13. /\ xTimerQueue' \in Seq(Message \union {Callback}) /\ Len(xTimerQueue') <= QueueLength
       /\ QueueValid' /\ fault' \in {"none", "configASSERT"}
       /\ \A u : ReloadQueued(u) => ReloadQueued(u)'
       /\ t \in AutoReload /\ late /\ fault' = "none" => ReloadQueued(t)'
       /\ \A u : u # t => \A i \in DOMAIN xTimerQueue' : IsReload(i, u)' =>
             i \in DOMAIN xTimerQueue /\ IsReload(i, u) /\ xTimerQueue'[i] = xTimerQueue[i]
       /\ ~ReloadQueued(t) => \A i \in DOMAIN xTimerQueue' : IsReload(i, t)' =>
             /\ t \in AutoReload /\ late
             /\ xTimerQueue'[i].at = TimeAt(v)
             /\ \A j \in DOMAIN xTimerQueue' : IsReload(j, t)' => j = i
  <2>1. CASE t \in AutoReload /\ late
    <3>1. PICK at : at = TimeAt(v)
      OBVIOUS
    <3>2. at \in 0..MaxClock /\ Recent(at) /\ Reload(t, at) /\ clock' = clock /\ deleting' = deleting
          /\ fault = "none"
      BY <1>3, <1>7, <2>1, <3>1
    <3>3. /\ xTimerQueue' \in Seq(Message \union {Callback}) /\ Len(xTimerQueue') <= QueueLength
          /\ QueueValid' /\ fault' \in {"none", "configASSERT"}
          /\ \A u : ReloadQueued(u) => ReloadQueued(u)'
          /\ fault' = "none" => ReloadQueued(t)'
          /\ \A u : u # t => \A i \in DOMAIN xTimerQueue' : IsReload(i, u)' =>
                i \in DOMAIN xTimerQueue /\ IsReload(i, u) /\ xTimerQueue'[i] = xTimerQueue[i]
          /\ ~ReloadQueued(t) => \A i \in DOMAIN xTimerQueue' : IsReload(i, t)' =>
                /\ xTimerQueue'[i].at = at
                /\ \A j \in DOMAIN xTimerQueue' : IsReload(j, t)' => j = i
      BY <1>0, <1>5, <3>2, Reposted
    <3> QED BY <2>1, <3>1, <3>3
  <2>2. CASE ~(t \in AutoReload /\ late)
    <3>1. xTimerQueue' = xTimerQueue /\ fault' = fault
      BY <1>3, <2>2
    <3>2. QueueValid'
      BY <1>0, <1>3, <3>1 DEF QueueValid, Valid, Recent
    <3>3. \A u : ReloadQueued(u)' <=> ReloadQueued(u)
      BY <3>1 DEF ReloadQueued
    <3>4. \A u, i : IsReload(i, u)' <=> IsReload(i, u)
      BY <3>1 DEF IsReload
    <3>5. ~ReloadQueued(t) => \A i \in DOMAIN xTimerQueue : ~IsReload(i, t)
      BY DEF ReloadQueued, IsReload
    <3> QED BY <1>0, <1>3, <2>2, <3>1, <3>2, <3>3, <3>4, <3>5 DEF DataTypes
  <2> QED BY <2>1, <2>2
<1>14. ListTypes'
  <2>1. \A u \in Timer : Listed(u)' => u # command'.timer /\ u \notin freed'
    <3>1. \A u \in Timer : Listed(u)' => Listed(u)
      BY <1>5, <1>10
    <3> QED BY <1>0, <1>3, <3>1 DEF ListTypes
  <2> QED BY <1>8, <1>11, <2>1 DEF ListTypes
<1>15. TaskTypes'
  BY <1>0, <1>3, <1>4, <1>13 DEF TaskTypes
<1>16. DataTypes'
  BY <1>0, <1>3, <1>12, <1>13 DEF DataTypes
<1>17. CommandValid'
  BY <1>3, <1>4 DEF CommandValid, ActedOn
<1>18. StageKept'
  BY <1>3, <1>4 DEF StageKept
<1>19. ListsEpoch' = ListsEpoch /\ ListsEpoch = Epoch(lastTime)
  BY <1>3 DEF ListsEpoch, Epoch
<1>20. ASSUME NEW u \in Timer \ overtaken, u # t PROVE Standing(u)'
  <2>1. Standing(u)
    BY <1>0, <1>20
  <2>2. /\ due'[u] = due[u] /\ xItemValue'[u] = xItemValue[u]
        /\ Listed(u)' <=> Listed(u)
        /\ Contains(pxCurrentTimerList', u) <=> Contains(pxCurrentTimerList, u)
    BY <1>10, <1>11, <1>12, <1>20
  <2>3. /\ UNCHANGED <<clock, lastTime, xTimerPeriodInTicks, command>> /\ pc # "call" /\ pc' # "call"
        /\ reload[1] # u /\ reload'[1] # u /\ fault = "none"
    BY <1>3, <1>4, <1>20
  <2> QED BY <1>13, <1>19, <1>20, <2>1, <2>2, <2>3, OthersStand
<1>21. ASSUME t \notin overtaken PROVE Standing(t)'
  <2>1. ListedRight(t) /\ ~ReloadQueued(t)
    BY <1>0, <1>5, <1>21 DEF Standing, QueuedRight, ReloadQueued, IsReload
  <2>2. PICK d : d = due[t]
    OBVIOUS
  <2>3. d \in Nat /\ v = Ticks(d) /\ Epoch(d) = Epoch(lastTime)
    BY <1>0, <1>1, <1>5, <1>19, <2>1, <2>2 DEF ListedRight, DataTypes
  <2>4. d <= lastTime
    BY <1>1, <1>4, <1>6, <2>3, EpochsInOrder
  <2>5. /\ d # Stopped /\ TimeAt(v) = d /\ lastTime - d < TickModulus
        /\ next = Ticks(d + p) /\ d + p \in Nat
        /\ d + p # Stopped /\ d + p <= lastTime + p /\ clock <= d + p + Lateness
    BY <1>0, <1>1, <1>2, <1>5, <2>1, <2>2, <2>4, FirstIsDue
  <2>6. /\ late <=> d + p <= lastTime
        /\ d + p > lastTime => /\ next > now => Epoch(d + p) = Epoch(lastTime)
                               /\ next <= now => Epoch(d + p) = Epoch(lastTime) + 1
    <3>1. /\ ProcessTimerNow(Ticks(d + p), Ticks(lastTime), Ticks(d), p) <=> d + p <= lastTime
          /\ d + p > lastTime =>
               /\ Ticks(d + p) > Ticks(lastTime) => Epoch(d + p) = Epoch(lastTime)
               /\ Ticks(d + p) <= Ticks(lastTime) => Epoch(d + p) = Epoch(lastTime) + 1
      BY <1>6, <2>3, <2>4, <2>5, InsertedByTime
    <3> QED BY <1>1, <1>2, <2>3, <2>5, <3>1
  <2>7. due'[t] = IF t \in AutoReload THEN d + p ELSE Stopped
    BY <1>12, <2>2, <2>5
  <2>8. ListedRight(t)'
    <3>1. SUFFICES ASSUME t \in AutoReload, ~late
                   PROVE  /\ d + p # Stopped /\ next = Ticks(d + p)
                          /\ d + p <= lastTime + p /\ clock <= d + p + Lateness
                          /\ Epoch(d + p) = IF Contains(pxCurrentTimerList', t)
                                            THEN Epoch(lastTime) ELSE Epoch(lastTime) + 1
      <4>1. Listed(t)' => t \in AutoReload /\ ~late
        BY <1>10
      <4>2. t \in AutoReload => /\ due'[t] = d + p /\ xItemValue'[t] = next
                                /\ Epoch(due[t])' = Epoch(d + p) /\ Ticks(due[t])' = Ticks(d + p)
        BY <1>11, <2>7 DEF Epoch, Ticks
      <4>3. /\ xTimerPeriodInTicks'[t] = p /\ clock' = clock /\ lastTime' = lastTime
            /\ ListsEpoch' = Epoch(lastTime)
        BY <1>1, <1>3, <1>19
      <4> QED BY <4>1, <4>2, <4>3 DEF ListedRight
    <3>2. d + p > lastTime
      BY <1>6, <2>5, <2>6, <3>1
    <3>3. Contains(pxCurrentTimerList', t) <=> next > now
      BY <1>8, <3>1
    <3> QED BY <1>9, <2>5, <2>6, <3>2, <3>3
  <2>9. QueuedRight(t)'
    <3> SUFFICES ASSUME NEW i \in DOMAIN xTimerQueue', IsReload(i, t)'
                 PROVE  /\ AfterReload(t, xTimerQueue[i].at)'
                        /\ ~Listed(t)' /\ command'.timer # t /\ reload'[1] # t
                        /\ \A j \in DOMAIN xTimerQueue' : IsReload(j, t)' => j = i
      BY DEF QueuedRight
    <3>1. /\ t \in AutoReload /\ late /\ xTimerQueue'[i].at = d
          /\ \A j \in DOMAIN xTimerQueue' : IsReload(j, t)' => j = i
      BY <1>13, <2>1, <2>5
    <3>2. command'.timer # t /\ reload'[1] # t
      BY <1>3, <1>4, <1>5
    <3> QED BY <1>1, <1>3, <1>10, <2>7, <3>1, <3>2 DEF AfterReload
  <2>10. HeldRight(t)'
    BY <1>3, <1>4, <1>5 DEF HeldRight
  <2>11. ElseStopped(t)'
    BY <1>10, <1>13, <2>7 DEF ElseStopped
  <2> QED BY <2>8, <2>9, <2>10, <2>11 DEF Standing
<1> QED BY <1>3, <1>13, <1>14, <1>15, <1>16, <1>17, <1>18, <1>20, <1>21 DEF TimersInv

LEMMA SwitchExpireKeepsTimers == ASSUME TimersInv, SwitchExpire PROVE TimersInv'
<1>0. /\ ListTypes /\ TaskTypes /\ DataTypes /\ QueueValid /\ CommandValid /\ StageKept
      /\ \A t \in Timer \ overtaken : Standing(t)
  BY DEF TimersInv
<1>1. PICK t, p, v :
         /\ t = Head(pxCurrentTimerList) /\ p = xTimerPeriodInTicks[t] /\ v = xItemValue[t]
  OBVIOUS
<1>next. PICK next : next = Ticks(v + p)
  OBVIOUS
<1>again. PICK again \in BOOLEAN : again <=> t \in AutoReload /\ next > v
  OBVIOUS
<1>3. /\ pc = "switch" /\ fault = "none" /\ Call(t) /\ pxCurrentTimerList # <<>>
      /\ xItemValue' = [xItemValue EXCEPT ![t] = IF again THEN next ELSE v]
      /\ again => pxCurrentTimerList' = vListInsert(Tail(pxCurrentTimerList), t, next)
      /\ ~again => pxCurrentTimerList' = Tail(pxCurrentTimerList)
      /\ t \in AutoReload /\ ~again => pc' = "reload" /\ reload' = <<t, TimeAt(v)>>
      /\ ~(t \in AutoReload /\ ~again) => pc' = pc /\ reload' = reload
      /\ UNCHANGED <<clock, pxOverflowTimerList, xTimerPeriodInTicks, xTimerQueue, freed, suspended,
                     lastTime, wakeTime, command, fault, deleting, overtaken>>
  BY <1>1, <1>next, <1>again DEF SwitchExpire, At
<1>4. /\ reload[1] = NoTimer /\ NoTimer \notin Timer /\ TickModulus <= lastTime
      /\ pc' \in {"switch", "reload"}
  BY <1>0, <1>3, HeldTypes DEF StageKept
<1>5. /\ t \in Timer /\ Contains(pxCurrentTimerList, t) /\ ~Contains(pxOverflowTimerList, t) /\ Listed(t)
      /\ TwoLists(Tail(pxCurrentTimerList), pxOverflowTimerList)
      /\ \A u : Contains(Tail(pxCurrentTimerList), u) <=> Contains(pxCurrentTimerList, u) /\ u # t
      /\ t # command.timer
  <2>1. TwoLists(pxCurrentTimerList, pxOverflowTimerList)
    BY <1>0 DEF ListTypes
  <2>2. /\ t \in Timer /\ Contains(pxCurrentTimerList, t)
        /\ TwoLists(Tail(pxCurrentTimerList), pxOverflowTimerList)
        /\ \A u : Contains(Tail(pxCurrentTimerList), u) <=> Contains(pxCurrentTimerList, u) /\ u # t
    BY <1>1, <1>3, <2>1, HeadLeft
  <2> QED BY <1>0, <2>1, <2>2 DEF ListTypes, TwoLists, Listed
<1>6. /\ clock \in Nat /\ lastTime \in Nat /\ lastTime <= clock /\ TickModulus \in Nat
      /\ v \in 0 .. TickModulus - 1 /\ v \in Int /\ p \in Period /\ p \in Nat \ {0}
      /\ next \in 0 .. TickModulus - 1 /\ next \in Int
  <2>1. v \in 0 .. TickModulus - 1 /\ p \in Period /\ TickModulus \in Nat
    BY <1>0, <1>1, <1>5, PeriodType DEF ListTypes, DataTypes
  <2>2. p \in Nat \ {0} /\ v \in Int
    BY <2>1, PeriodType
  <2>3. v + p \in Int
    BY <2>2
  <2> QED BY <1>0, <1>1, <1>next, <2>1, <2>2, <2>3, TimeTypes, EpochAndTicks
<1>7. TimeAt(v) \in Nat /\ Recent(TimeAt(v))
  <2>1. TickModulus <= clock
    BY <1>4, <1>6
  <2>2. TimeAt(v) \in Int /\ TimeAt(v) >= 0 /\ TimeAt(v) <= clock /\ clock - TimeAt(v) < TickModulus
    BY <1>6, <2>1, TimeAtType
  <2> QED BY <2>2 DEF Recent
<1>8. /\ TwoLists(pxCurrentTimerList', pxOverflowTimerList')
      /\ \A u : Contains(pxCurrentTimerList', u)
                  <=> Contains(pxCurrentTimerList, u) /\ (u # t \/ again)
  <2>1. PICK tail : tail = Tail(pxCurrentTimerList)
    OBVIOUS
  <2>2. CASE again
    <3>1. tail \in Seq(Timer) /\ IsInjective(tail) /\ ~Contains(tail, t)
      BY <1>5, <2>1 DEF TwoLists
    <3>2. /\ vListInsert(tail, t, next) \in Seq(Timer)
          /\ IsInjective(vListInsert(tail, t, next))
          /\ \A u : Contains(vListInsert(tail, t, next), u) <=> u = t \/ Contains(tail, u)
      BY <1>5, <3>1, InsertSortedProperties, InsertSortedExact DEF vListInsert
    <3> QED BY <1>3, <1>5, <2>1, <2>2, <3>2 DEF TwoLists
  <2>3. CASE ~again
    BY <1>3, <1>5, <2>3
  <2> QED BY <2>2, <2>3
<1>10. /\ \A u : u # t => (Listed(u)' <=> Listed(u))
                          /\ (Contains(pxCurrentTimerList', u) <=> Contains(pxCurrentTimerList, u))
       /\ Listed(t)' <=> again
       /\ Contains(pxCurrentTimerList', t) <=> again
  BY <1>3, <1>5, <1>8 DEF Listed
<1>11. /\ xItemValue' \in [Timer -> 0 .. TickModulus - 1]
       /\ \A u \in Timer \ {t} : xItemValue'[u] = xItemValue[u]
       /\ again => xItemValue'[t] = next
  BY <1>0, <1>3, <1>5, <1>6 DEF ListTypes
<1>12. /\ due' \in [Timer -> Nat \union {Stopped}]
       /\ \A u \in Timer \ {t} : due'[u] = due[u]
       /\ due'[t] = IF t \in AutoReload /\ due[t] # Stopped THEN due[t] + p ELSE Stopped
  BY <1>0, <1>1, <1>3, <1>5, Called
<1>13. \A u, i : IsReload(i, u)' <=> IsReload(i, u)
  BY <1>3 DEF IsReload
<1>14. ListTypes'
  <2>1. \A u \in Timer : Listed(u)' => u # command'.timer /\ u \notin freed'
    <3>1. \A u \in Timer : Listed(u)' => Listed(u)
      BY <1>5, <1>10
    <3> QED BY <1>0, <1>3, <3>1 DEF ListTypes
  <2> QED BY <1>8, <1>11, <2>1 DEF ListTypes
<1>15. TaskTypes'
  <2>1. reload' \in (Timer \union {NoTimer}) \X Nat
    BY <1>0, <1>3, <1>5, <1>7 DEF TaskTypes
  <2> QED BY <1>0, <1>3, <1>4, <2>1 DEF TaskTypes
<1>16. DataTypes'
  BY <1>0, <1>3, <1>12 DEF DataTypes
<1>qv. QueueValid'
  BY <1>0, <1>3 DEF QueueValid, Valid, Recent
<1>17. CommandValid'
  <2>1. ActedOn' <=> ActedOn
    BY <1>3, <1>4 DEF ActedOn
  <2>2. Valid(command) => Valid(command)'
    BY <1>3 DEF Valid, Recent
  <2> QED BY <1>0, <1>3, <1>4, <2>1, <2>2 DEF CommandValid
<1>18. StageKept'
  <2>1. CASE t \in AutoReload /\ ~again
    <3>1. reload'[1] = t /\ pc' = "reload" /\ ~Listed(t)' /\ reload' = <<t, TimeAt(v)>>
      BY <1>3, <1>10, <2>1
    <3>2. Recent(reload[2])' /\ ~Listed(reload[1])'
      BY <1>3, <1>7, <3>1 DEF Recent, Listed
    <3> QED BY <1>3, <1>4, <1>5, <2>1, <3>1, <3>2 DEF StageKept
  <2>2. CASE ~(t \in AutoReload /\ ~again)
    BY <1>3, <1>4, <2>2 DEF StageKept
  <2> QED BY <2>1, <2>2
<1>19. /\ ListsEpoch' = ListsEpoch /\ ListsEpoch = Epoch(lastTime) - 1
       /\ Epoch(lastTime) \in Int
  BY <1>3, <1>4, <1>6, EpochAndTicks DEF ListsEpoch, Epoch
<1>20. ASSUME NEW u \in Timer \ overtaken, u # t PROVE Standing(u)'
  <2>1. Standing(u)
    BY <1>0, <1>20
  <2>2. /\ due'[u] = due[u] /\ xItemValue'[u] = xItemValue[u]
        /\ Listed(u)' <=> Listed(u)
        /\ Contains(pxCurrentTimerList', u) <=> Contains(pxCurrentTimerList, u)
    BY <1>10, <1>11, <1>12, <1>20
  <2>3. /\ UNCHANGED <<clock, lastTime, xTimerPeriodInTicks, command>> /\ pc # "call" /\ pc' # "call"
        /\ reload[1] # u /\ reload'[1] # u /\ fault = "none"
    BY <1>3, <1>4, <1>20
  <2>4. /\ ReloadQueued(u) => ReloadQueued(u)'
        /\ \A i \in DOMAIN xTimerQueue' : IsReload(i, u)' =>
              i \in DOMAIN xTimerQueue /\ IsReload(i, u) /\ xTimerQueue'[i] = xTimerQueue[i]
    BY <1>3, <1>13 DEF ReloadQueued
  <2> QED BY <1>19, <1>20, <2>1, <2>2, <2>3, <2>4, OthersStand
<1>21. ASSUME t \notin overtaken PROVE Standing(t)'
  <2>1. ListedRight(t) /\ HeldRight(t) /\ \A i \in DOMAIN xTimerQueue : ~IsReload(i, t)
    BY <1>0, <1>5, <1>21 DEF Standing, QueuedRight
  <2>2. PICK d : d = due[t]
    OBVIOUS
  <2>3. d \in Nat /\ v = Ticks(d) /\ Epoch(d) = ListsEpoch
    BY <1>0, <1>1, <1>5, <2>1, <2>2 DEF ListedRight, DataTypes
  <2>4. d <= lastTime
    <3>1. Epoch(d) < Epoch(lastTime)
      BY <1>19, <2>3
    <3>2. d < lastTime
      BY <1>6, <2>3, <3>1, EpochsInOrder
    <3> QED BY <1>6, <2>3, <3>2
  <2>5. /\ d # Stopped /\ TimeAt(v) = d
        /\ next = Ticks(d + p) /\ d + p \in Nat
        /\ d + p # Stopped /\ d + p <= lastTime + p /\ clock <= d + p + Lateness
    BY <1>0, <1>1, <1>next, <1>5, <2>1, <2>2, <2>4, FirstIsDue
  <2>6. ASSUME again PROVE Epoch(d + p) = Epoch(d)
    <3>1. d \in Int /\ d + p \in Int /\ d <= d + p /\ (d + p) - d = p /\ p < TickModulus
      BY <1>6, <2>3, PeriodType
    <3>2. \/ Epoch(d + p) = Epoch(d) /\ Ticks(d + p) = Ticks(d) + p
          \/ Epoch(d + p) = Epoch(d) + 1 /\ Ticks(d + p) = Ticks(d) + p - TickModulus
      <4>1. PICK e : e = d + p
        OBVIOUS
      <4>2. e \in Int /\ d <= e /\ e - d = p /\ e - d < TickModulus
        BY <3>1, <4>1
      <4> QED BY <3>1, <4>1, <4>2, SameOrNextEpoch
    <3>3. next > v
      BY <1>again, <2>6
    <3>4. ~(next = v + p - TickModulus)
      BY <1>6, <3>1, <3>3
    <3> QED BY <2>3, <2>5, <3>2, <3>4
  <2>7. due'[t] = IF t \in AutoReload THEN d + p ELSE Stopped
    BY <1>12, <2>2, <2>5
  <2>8. ListedRight(t)'
    <3>1. SUFFICES ASSUME again
                   PROVE  /\ due'[t] # Stopped /\ xItemValue'[t] = Ticks(due[t])'
                          /\ due'[t] <= lastTime' + xTimerPeriodInTicks'[t]
                          /\ clock' <= due'[t] + Lateness
                          /\ Epoch(due[t])' = IF Contains(pxCurrentTimerList', t)
                                              THEN ListsEpoch' ELSE ListsEpoch' + 1
      BY <1>10 DEF ListedRight
    <3>2. /\ due'[t] = d + p /\ xItemValue'[t] = next /\ Contains(pxCurrentTimerList', t)
          /\ xTimerPeriodInTicks'[t] = p /\ clock' = clock /\ lastTime' = lastTime
      BY <1>1, <1>3, <1>10, <1>11, <1>again, <2>7, <3>1
    <3>3. Epoch(due[t])' = Epoch(d + p) /\ Ticks(due[t])' = Ticks(d + p)
      BY <3>2 DEF Epoch, Ticks
    <3> QED BY <1>19, <2>3, <2>5, <2>6, <3>1, <3>2, <3>3
  <2>9. QueuedRight(t)'
    BY <1>3, <1>13, <2>1 DEF QueuedRight
  <2>10. HeldRight(t)'
    <3>1. command'.timer # t
      BY <1>3, <1>5
    <3>2. reload'[1] = t => t \in AutoReload /\ reload'[2] = d
      BY <1>3, <1>4, <1>5, <2>5
    <3> QED BY <1>1, <1>3, <2>7, <3>1, <3>2 DEF HeldRight, AfterReload
  <2>11. ElseStopped(t)'
    <3>1. ~again /\ t \in AutoReload => reload'[1] = t
      BY <1>3
    <3>2. ~(t \in AutoReload) => due'[t] = Stopped
      BY <2>7
    <3> QED BY <1>10, <3>1, <3>2 DEF ElseStopped
  <2> QED BY <2>8, <2>9, <2>10, <2>11 DEF Standing
<1> QED BY <1>3, <1>qv, <1>14, <1>15, <1>16, <1>17, <1>18, <1>20, <1>21 DEF TimersInv

LEMMA TimersNextKeeps == TimersInv /\ [Next]_vars => TimersInv'
<1> SUFFICES ASSUME TimersInv, [Next]_vars PROVE TimersInv'
  OBVIOUS
<1>1. CASE UNCHANGED vars
  <2>1. UNCHANGED <<clock, pxCurrentTimerList, pxOverflowTimerList, xItemValue, xTimerPeriodInTicks,
                    xTimerQueue, freed, pc, suspended, lastTime, wakeTime, command, reload, fault,
                    posts, deleting, due, overtaken>>
    BY <1>1 DEF vars, lists, task, promise
  <2>2. ListTypes' /\ TaskTypes' /\ DataTypes'
    BY <2>1 DEF TimersInv, ListTypes, TaskTypes, DataTypes, Listed, TwoLists
  <2>3. QueueValid' /\ CommandValid'
    BY <2>1 DEF TimersInv, QueueValid, CommandValid, Valid, Recent, ActedOn
  <2>4. StageKept'
    BY <2>1 DEF TimersInv, StageKept, Recent, Listed, prvGetNextExpireTime
  <2>5. ListsEpoch' = ListsEpoch
    BY <2>1 DEF ListsEpoch
  <2>6. ASSUME NEW t \in Timer \ overtaken PROVE Standing(t)'
    <3>1. Standing(t)
      BY DEF TimersInv
    <3> QED BY <2>1, <2>5, <3>1 DEF Standing, ListedRight, QueuedRight, HeldRight, ElseStopped,
                                    Listed, IsReload, AfterReload, ReloadQueued
  <2> QED BY <2>1, <2>2, <2>3, <2>4, <2>6 DEF TimersInv
<1>2. CASE xTaskIncrementTick
  BY <1>2, TickKeepsTimers
<1>3. CASE Post
  BY <1>3, PostsKeepTimers
<1>4. CASE prvTimerTask
  BY <1>4, LooksKeepTimers, ExpiredKeepsTimers, SwitchExpireKeepsTimers, ReloadKeepsTimers,
     SwitchListsKeepsTimers, ReceiveKeepsTimers, SampleNowKeepsTimers, StartKeepsTimers,
     StartExpiredKeepsTimers, StopKeepsTimers, ChangePeriodKeepsTimers DEF prvTimerTask
<1> QED BY <1>1, <1>2, <1>3, <1>4 DEF Next

(* Of every timer that no command has overtaken, the timer task knows the  *)
(* time at which it is due, wherever the timer is: in the list of the turn *)
(* of that time, in a START_DONT_TRACE on its way, or in the timer task's  *)
(* hands; and every time it works with is less than a turn old.            *)
THEOREM TimersInvariant == Spec => []TimersInv
BY TimersInvInit, TimersNextKeeps, PTL DEF Spec

(* The timers and their queue have their types; a timer is at most once in *)
(* the lists, and not while a command acts on it or once its memory is     *)
(* free, whatever the interleaving of commands, ticks and the timer task.  *)
THEOREM TimerTypesKept == Spec => []TypeOK
<1>1. TimersInv => TypeOK
  BY TypesAre DEF TimersInv
<1> QED BY <1>1, TimersInvariant, PTL

(* The timer task never comes to a callback before the tick that ends the  *)
(* period promised, whenever the tick count wraps and however late, within *)
(* TimersAssumption, the timer task is.  (prvInsertTimerInActiveList,      *)
(* prvProcessExpiredTimer, prvSwitchTimerLists)                            *)
THEOREM CalledOnlyWhenDue == Spec => []CalledWhenDue
<1>1. ASSUME TimersInv, NEW t \in Timer \ overtaken, AboutToCall(t) PROVE Expired(t)
  <2>0. ListTypes /\ TaskTypes /\ DataTypes /\ CommandValid /\ StageKept /\ Standing(t)
    BY <1>1 DEF TimersInv
  <2>1. clock \in Nat /\ lastTime \in Nat /\ lastTime <= clock /\ t \in Timer /\ t # NoTimer
    BY <2>0, TimeTypes, HeldTypes
  <2>2. CASE pc \in {"expire", "switch"} /\ pxCurrentTimerList # <<>> /\ Head(pxCurrentTimerList) = t
    <3>1. Contains(pxCurrentTimerList, t) /\ Listed(t)
      BY <2>0, <2>2, HeadLeft DEF ListTypes, Listed
    <3>2. PICK d : d = due[t]
      OBVIOUS
    <3>3. /\ d # Stopped /\ d \in Nat /\ xItemValue[t] = Ticks(d) /\ Epoch(d) = ListsEpoch
      BY <2>0, <3>1, <3>2 DEF Standing, ListedRight, DataTypes
    <3>4. Epoch(lastTime) \in Int
      BY <2>1, EpochAndTicks
    <3>5. CASE pc = "expire"
      <4>1. Ticks(d) <= Ticks(lastTime) /\ Epoch(d) = Epoch(lastTime)
        BY <2>0, <2>2, <3>3, <3>5 DEF StageKept, prvGetNextExpireTime, ListsEpoch
      <4>2. d <= lastTime
        BY <2>1, <3>3, <4>1, EpochsInOrder
      <4> QED BY <2>1, <3>2, <3>3, <4>2 DEF Expired
    <3>6. CASE pc = "switch"
      <4>1. Epoch(d) < Epoch(lastTime)
        BY <3>3, <3>4, <3>6 DEF ListsEpoch
      <4>2. d < lastTime
        BY <2>1, <3>3, <4>1, EpochsInOrder
      <4> QED BY <2>1, <3>2, <3>3, <4>2 DEF Expired
    <3> QED BY <2>2, <3>5, <3>6
  <2>3. CASE pc = "call" /\ command.timer = t
    <3>1. /\ due[t] = command.at + xTimerPeriodInTicks[t]
          /\ command.at + xTimerPeriodInTicks[t] <= lastTime
      BY <2>0, <2>3 DEF Standing, HeldRight, AfterReload, CommandValid
    <3>2. command.at \in Nat /\ xTimerPeriodInTicks[t] \in Nat
      <4>1. command # NoCommand
        BY <2>1, <2>3 DEF NoCommand
      <4> QED BY <2>0, <2>1, <4>1, HeldTypes, PeriodType DEF DataTypes
    <3>3. due[t] \in Nat
      BY <3>1, <3>2
    <3> QED BY <2>1, <3>1, <3>3, TimersAssumption DEF Expired
  <2> QED BY <1>1, <2>2, <2>3 DEF AboutToCall
<1>2. TimersInv => CalledWhenDue
  BY <1>1 DEF CalledWhenDue
<1> QED BY <1>2, TimersInvariant, PTL

(* Between commands the lists say which timers run and when each expires,  *)
(* and the overflow list holds just those that expire after the next wrap. *)
(* (prvInsertTimerInActiveList, prvSwitchTimerLists)                       *)
THEOREM ListedAsDue == Spec => []ListedWhenDue
<1>1. ASSUME TimersInv, pc \in {"look", "blocked"}, fault = "none", NEW t \in Timer \ overtaken
      PROVE  IF ReloadQueued(t) THEN ~Listed(t) /\ due[t] # Stopped
             ELSE /\ Listed(t) <=> due[t] # Stopped
                  /\ Listed(t) =>
                         /\ xItemValue[t] = Ticks(due[t])
                         /\ Contains(pxCurrentTimerList, t) <=> Epoch(due[t]) <= Epoch(lastTime)
  <2>0. ListTypes /\ TaskTypes /\ DataTypes /\ CommandValid /\ StageKept /\ Standing(t)
    BY <1>1 DEF TimersInv
  <2>1. /\ command = NoCommand /\ command.timer # t /\ reload[1] # t
        /\ ListsEpoch = Epoch(lastTime)
    BY <1>1, <2>0, HeldTypes DEF CommandValid, StageKept, ActedOn, ListsEpoch
  <2>2. CASE ReloadQueued(t)
    <3>1. PICK i \in DOMAIN xTimerQueue : IsReload(i, t)
      BY <2>2 DEF ReloadQueued, IsReload
    <3>2. ~Listed(t) /\ due[t] = xTimerQueue[i].at + xTimerPeriodInTicks[t]
      BY <2>0, <3>1 DEF Standing, QueuedRight, AfterReload
    <3>3. xTimerQueue[i].at \in Nat /\ xTimerPeriodInTicks[t] \in Nat
      <4>1. xTimerQueue[i].timer # NoTimer
        BY <2>0, <3>1, HeldTypes DEF IsReload
      <4> QED BY <2>0, <4>1, QueuedMessage, PeriodType DEF DataTypes
    <3>4. due[t] \in Nat
      BY <3>2, <3>3
    <3> QED BY <2>2, <3>2, <3>4, TimersAssumption
  <2>3. CASE ~ReloadQueued(t)
    <3>1. Listed(t) <=> due[t] # Stopped
      BY <1>1, <2>0, <2>1, <2>3 DEF Standing, ListedRight, ElseStopped
    <3>2. ASSUME Listed(t)
          PROVE  /\ xItemValue[t] = Ticks(due[t])
                 /\ Contains(pxCurrentTimerList, t) <=> Epoch(due[t]) <= Epoch(lastTime)
      <4>1. /\ xItemValue[t] = Ticks(due[t])
            /\ Epoch(due[t]) = IF Contains(pxCurrentTimerList, t) THEN Epoch(lastTime)
                               ELSE Epoch(lastTime) + 1
        BY <2>0, <2>1, <3>2 DEF Standing, ListedRight
      <4>2. Epoch(lastTime) \in Int
        BY <2>0, TimeTypes, EpochAndTicks
      <4> QED BY <4>1, <4>2
    <3> QED BY <2>3, <3>1, <3>2
  <2> QED BY <2>2, <2>3
<1>2. TimersInv => ListedWhenDue
  BY <1>1 DEF ListedWhenDue, At
<1> QED BY <1>2, TimersInvariant, PTL

-----------------------------------------------------------------------------
(* The event group.                                                        *)

ItemType == [bits : SUBSET Bits, wanted : SUBSET Bits, clear : BOOLEAN, all : BOOLEAN,
             unblocked : BOOLEAN, limit : {"none", "limited", "forever"}]
PendedType == [function : {"set", "clear"}, bits : SUBSET VisitorBits]

GroupTypes ==
    /\ uxEventBits \subseteq Bits /\ xTasksWaitingForBits \subseteq GroupTask
    /\ eventItem \in [GroupTask -> ItemType]
    /\ groupPc \in [GroupTask -> {"out", "blocked", "woken"}]
    /\ pended \in Seq(PendedType) /\ deleted \in BOOLEAN
    /\ round \in [Member -> 0 .. 3]

\* A task is in the list while it is blocked, and nobody is once the group is deleted.
BlockedAreListed ==
    /\ \A t \in GroupTask : t \in xTasksWaitingForBits <=> groupPc[t] = "blocked"
    /\ deleted => xTasksWaitingForBits = {}

\* The bits of a member are set while it waits for the others, and only then.
MembersInStep == \A m \in Member :
    /\ m \in xTasksWaitingForBits => eventItem[m] = RendezvousItem
    /\ groupPc[m] = "woken" => eventItem[m].unblocked
    /\ deleted \/ IF m \in xTasksWaitingForBits THEN MemberBits[m] \subseteq uxEventBits
                  ELSE MemberBits[m] \intersect uxEventBits = {}

\* Visitors leave the bits of the members alone.
VisitorsKeepOff == \A v \in Visitor :
    /\ v \in xTasksWaitingForBits => eventItem[v].wanted = eventItem[v].bits
    /\ groupPc[v] # "out" /\ eventItem[v].clear => eventItem[v].wanted \subseteq VisitorBits

\* The condition of a waiting task is not met by the bits of the group.
NobodyWaitsInVain == \A t \in xTasksWaitingForBits :
    ~prvTestWaitCondition(uxEventBits, eventItem[t].bits, eventItem[t].all)

GroupInv ==
    /\ GroupTypes /\ BlockedAreListed /\ MembersInStep /\ VisitorsKeepOff
    /\ NobodyWaitsInVain /\ ReleasedTogether

\* What the bits of a group are.
LEMMA BitsOfMembers ==
    /\ \A m \in Member : MemberBits[m] \subseteq Rendezvous /\ MemberBits[m] # {}
    /\ Rendezvous \subseteq Bits /\ VisitorBits \subseteq Bits
    /\ \A m \in Member : m \notin Visitor /\ MemberBits[m] \intersect VisitorBits = {}
    /\ \A m, n \in Member : m # n => MemberBits[m] \intersect MemberBits[n] = {}
    /\ Rendezvous \intersect VisitorBits = {}
    /\ Member \subseteq GroupTask /\ Visitor \subseteq GroupTask
<1>1. \A m \in Member : MemberBits[m] \subseteq Rendezvous
  BY DEF Rendezvous
<1> QED BY <1>1, EventGroupsAssumption DEF Bits, GroupTask

\* Items have the type of items.
LEMMA ItemsTyped ==
    /\ \A bits \in SUBSET Bits, clear, all \in BOOLEAN, limit \in {"none", "limited", "forever"} :
            /\ Item(bits, clear, all, limit) \in ItemType
            /\ Item(bits, clear, all, limit).bits = bits
            /\ Item(bits, clear, all, limit).wanted = bits
            /\ Item(bits, clear, all, limit).clear = clear
            /\ Item(bits, clear, all, limit).all = all
            /\ Item(bits, clear, all, limit).unblocked = FALSE
    /\ NoItem \in ItemType /\ ~NoItem.clear /\ ~NoItem.unblocked
    /\ RendezvousItem \in ItemType /\ RendezvousItem.bits = Rendezvous
    /\ RendezvousItem.clear /\ RendezvousItem.all /\ ~RendezvousItem.unblocked
<1>1. \A bits \in SUBSET Bits, clear, all \in BOOLEAN, limit \in {"none", "limited", "forever"} :
            /\ Item(bits, clear, all, limit) \in ItemType
            /\ Item(bits, clear, all, limit).bits = bits
            /\ Item(bits, clear, all, limit).wanted = bits
            /\ Item(bits, clear, all, limit).clear = clear
            /\ Item(bits, clear, all, limit).all = all
            /\ Item(bits, clear, all, limit).unblocked = FALSE
  BY DEF Item, ItemType
<1>2. NoItem \in ItemType /\ ~NoItem.clear /\ ~NoItem.unblocked
  BY DEF Item, ItemType, NoItem
<1>3. /\ RendezvousItem \in ItemType /\ RendezvousItem.bits = Rendezvous
      /\ RendezvousItem.clear /\ RendezvousItem.all /\ ~RendezvousItem.unblocked
  BY BitsOfMembers DEF Item, ItemType, RendezvousItem
<1> QED BY <1>1, <1>2, <1>3

\* A condition that more bits do not meet is not met by fewer.
LEMMA FewerBitsMeetLess ==
    ASSUME NEW more, NEW fewer, fewer \subseteq more, NEW bits, NEW all \in BOOLEAN,
           ~prvTestWaitCondition(more, bits, all)
    PROVE  ~prvTestWaitCondition(fewer, bits, all)
BY DEF prvTestWaitCondition

\* Whom setting bits unblocks, and what it clears.
LEMMA UnblockedTasks ==
    ASSUME GroupInv, NEW bits
    PROVE  /\ Unblocked(bits) \subseteq xTasksWaitingForBits
           /\ \A t \in xTasksWaitingForBits \ Unblocked(bits) :
                  ~prvTestWaitCondition(NewValue(bits), eventItem[t].bits, eventItem[t].all)
           /\ \A m \in Member \intersect xTasksWaitingForBits :
                  m \in Unblocked(bits) <=> Rendezvous \subseteq NewValue(bits)
           /\ Unblocked(bits) \intersect Member = {} => BitsToClear(bits) \subseteq VisitorBits
<1>1. /\ Unblocked(bits) \subseteq xTasksWaitingForBits
      /\ \A t \in xTasksWaitingForBits \ Unblocked(bits) :
                  ~prvTestWaitCondition(NewValue(bits), eventItem[t].bits, eventItem[t].all)
  BY DEF Unblocked, Matched
<1>2. ASSUME NEW m \in Member \intersect xTasksWaitingForBits
      PROVE  m \in Unblocked(bits) <=> Rendezvous \subseteq NewValue(bits)
  <2>1. eventItem[m].bits = Rendezvous /\ eventItem[m].all
    BY <1>2, ItemsTyped DEF GroupInv, MembersInStep
  <2> QED BY <1>2, <2>1 DEF Unblocked, Matched, prvTestWaitCondition
<1>3. ASSUME Unblocked(bits) \intersect Member = {} PROVE BitsToClear(bits) \subseteq VisitorBits
  <2>1. ASSUME NEW t \in Unblocked(bits), eventItem[t].clear PROVE eventItem[t].bits \subseteq VisitorBits
    <3>1. t \in Visitor /\ t \in xTasksWaitingForBits
      BY <1>1, <1>3, <2>1 DEF GroupInv, GroupTypes, GroupTask
    <3>2. groupPc[t] = "blocked"
      BY <3>1, BitsOfMembers DEF GroupInv, BlockedAreListed
    <3> QED BY <2>1, <3>1, <3>2 DEF GroupInv, VisitorsKeepOff
  <2> QED BY <2>1 DEF BitsToClear
<1> QED BY <1>1, <1>2, <1>3

\* Setting bits keeps the types.
LEMMA SettingTyped ==
    ASSUME GroupTypes, NEW bits \in SUBSET Bits
    PROVE  /\ NewValue(bits) \subseteq Bits
           /\ Delivered(bits) \in [GroupTask -> ItemType]
           /\ \A tasks : Wake(tasks) \in [GroupTask -> {"out", "blocked", "woken"}]
<1>1. NewValue(bits) \subseteq Bits
  BY DEF NewValue, GroupTypes
<1>2. ASSUME NEW t \in GroupTask
      PROVE  [eventItem[t] EXCEPT !.bits = NewValue(bits), !.unblocked = TRUE] \in ItemType
  <2>1. eventItem[t] \in ItemType
    BY DEF GroupTypes
  <2> QED BY <1>1, <2>1 DEF ItemType
<1>3. Delivered(bits) \in [GroupTask -> ItemType]
  BY <1>2 DEF Delivered, GroupTypes
<1>4. \A tasks : Wake(tasks) \in [GroupTask -> {"out", "blocked", "woken"}]
  BY DEF Wake, GroupTypes
<1> QED BY <1>1, <1>3, <1>4

\* Only the bits of the members let members go.
LEMMA VisitorsReleaseNoMember ==
    ASSUME GroupInv, NEW bits \in SUBSET VisitorBits
    PROVE  Unblocked(bits) \intersect Member = {}
<1> SUFFICES ASSUME NEW m \in Unblocked(bits) \intersect Member PROVE FALSE
  OBVIOUS
<1>1. m \in xTasksWaitingForBits /\ Rendezvous \subseteq NewValue(bits)
  BY UnblockedTasks
<1>2. Rendezvous \subseteq uxEventBits
  BY <1>1, BitsOfMembers DEF NewValue
<1>3. eventItem[m].bits = Rendezvous /\ eventItem[m].all
  BY <1>1, ItemsTyped DEF GroupInv, MembersInStep
<1> QED BY <1>1, <1>2, <1>3 DEF GroupInv, NobodyWaitsInVain, prvTestWaitCondition

\* A task that is not waiting and whose item, state and rounds stay is where it was.
LEMMA RoundsKept ==
    ASSUME NEW m \in Member, eventItem'[m] = eventItem[m], groupPc'[m] = groupPc[m],
           round'[m] = round[m]
    PROVE  RoundsThrough(m)' = RoundsThrough(m)
BY DEF RoundsThrough, LetGo

(* A visitor or the timer task sets bits: the condition of everybody who   *)
(* goes on waiting was tested, and no member is let go.                    *)
LEMMA GroupInvSetBits ==
    ASSUME GroupInv, NEW bits \in SUBSET VisitorBits, SetBits(bits),
           UNCHANGED <<deleted, round>>, pended' \in Seq(PendedType)
    PROVE  GroupInv'
<1>0. /\ GroupTypes /\ BlockedAreListed /\ MembersInStep /\ VisitorsKeepOff
      /\ NobodyWaitsInVain /\ ReleasedTogether
  BY DEF GroupInv
<1>1. /\ Unblocked(bits) \intersect Member = {} /\ BitsToClear(bits) \subseteq VisitorBits
      /\ Unblocked(bits) \subseteq xTasksWaitingForBits
      /\ \A t \in xTasksWaitingForBits \ Unblocked(bits) :
             ~prvTestWaitCondition(NewValue(bits), eventItem[t].bits, eventItem[t].all)
  BY VisitorsReleaseNoMember, UnblockedTasks
<1>2. /\ uxEventBits' = NewValue(bits) \ BitsToClear(bits)
      /\ xTasksWaitingForBits' = xTasksWaitingForBits \ Unblocked(bits)
      /\ eventItem' = Delivered(bits) /\ groupPc' = Wake(Unblocked(bits))
      /\ deleted' = deleted /\ round' = round
  BY DEF SetBits
<1>3. GroupTypes'
  BY <1>0, <1>2, SettingTyped, BitsOfMembers DEF GroupTypes
<1>4. \A t \in GroupTask : /\ t \in Unblocked(bits) => groupPc'[t] = "woken"
                           /\ t \notin Unblocked(bits) => /\ eventItem'[t] = eventItem[t]
                                                          /\ groupPc'[t] = groupPc[t]
  BY <1>2 DEF Delivered, Wake
<1>5. \A t \in Unblocked(bits) : t \in GroupTask => /\ eventItem'[t].wanted = eventItem[t].wanted
                                                    /\ eventItem'[t].clear = eventItem[t].clear
                                                    /\ groupPc[t] = "blocked"
  BY <1>0, <1>1, <1>2 DEF Delivered, GroupTypes, ItemType, BlockedAreListed
<1>6. BlockedAreListed'
  BY <1>0, <1>1, <1>2, <1>4, BitsOfMembers DEF BlockedAreListed
<1>7. MembersInStep'
  <2> SUFFICES ASSUME NEW m \in Member
               PROVE  /\ m \in xTasksWaitingForBits' => eventItem'[m] = RendezvousItem
                      /\ groupPc'[m] = "woken" => eventItem'[m].unblocked
                      /\ deleted' \/ IF m \in xTasksWaitingForBits' THEN MemberBits[m] \subseteq uxEventBits'
                                     ELSE MemberBits[m] \intersect uxEventBits' = {}
    BY DEF MembersInStep, RendezvousItem, Item
  <2>1. /\ eventItem'[m] = eventItem[m] /\ groupPc'[m] = groupPc[m]
        /\ m \in xTasksWaitingForBits' <=> m \in xTasksWaitingForBits
    BY <1>1, <1>2, <1>4, BitsOfMembers
  <2>2. MemberBits[m] \intersect uxEventBits' = MemberBits[m] \intersect uxEventBits
    BY <1>1, <1>2, BitsOfMembers DEF NewValue
  <2> QED BY <1>0, <1>2, <2>1, <2>2 DEF MembersInStep
<1>8. VisitorsKeepOff'
  BY <1>0, <1>2, <1>4, <1>5, BitsOfMembers DEF VisitorsKeepOff
<1>9. NobodyWaitsInVain'
  <2> SUFFICES ASSUME NEW t \in xTasksWaitingForBits'
               PROVE  ~prvTestWaitCondition(uxEventBits', eventItem'[t].bits, eventItem'[t].all)
    BY DEF NobodyWaitsInVain, prvTestWaitCondition
  <2>1. t \in xTasksWaitingForBits \ Unblocked(bits) /\ t \in GroupTask
    BY <1>0, <1>2 DEF GroupTypes
  <2>2. eventItem'[t] = eventItem[t] /\ eventItem[t].all \in BOOLEAN
    BY <1>0, <1>4, <2>1 DEF GroupTypes, ItemType
  <2> QED BY <1>1, <1>2, <2>1, <2>2, FewerBitsMeetLess
<1>10. ReleasedTogether'
  BY <1>0, <1>1, <1>2, <1>4, RoundsKept, BitsOfMembers DEF ReleasedTogether
<1> QED BY <1>3, <1>6, <1>7, <1>8, <1>9, <1>10 DEF GroupInv

(* The last member to come: the others are all in the list, since their    *)
(* bits are set, and are let go with all the bits in their items; it goes  *)
(* on itself and clears the bits.                                          *)
LEMMA GroupInvSyncComplete ==
    ASSUME GroupInv, NEW m \in Member, xEventGroupSync(m), Rendezvous \subseteq NewValue(MemberBits[m])
    PROVE  GroupInv'
<1> DEFINE bits == MemberBits[m]
<1>0. /\ GroupTypes /\ BlockedAreListed /\ MembersInStep /\ VisitorsKeepOff
      /\ NobodyWaitsInVain /\ ReleasedTogether
  BY DEF GroupInv
<1>1. /\ groupPc[m] = "out" /\ ~deleted /\ m \notin xTasksWaitingForBits
  BY <1>0, BitsOfMembers DEF xEventGroupSync, Out, BlockedAreListed
<1>2. /\ uxEventBits' = (NewValue(bits) \ BitsToClear(bits)) \ Rendezvous
      /\ xTasksWaitingForBits' = xTasksWaitingForBits \ Unblocked(bits)
      /\ eventItem' = Delivered(bits) /\ groupPc' = Wake(Unblocked(bits))
      /\ round' = [round EXCEPT ![m] = (@ + 1) % 4]
      /\ deleted' = deleted /\ pended' = pended
  BY DEF xEventGroupSync
<1>3. /\ Unblocked(bits) \subseteq xTasksWaitingForBits
      /\ \A t \in xTasksWaitingForBits \ Unblocked(bits) :
             ~prvTestWaitCondition(NewValue(bits), eventItem[t].bits, eventItem[t].all)
      /\ Member \intersect xTasksWaitingForBits \subseteq Unblocked(bits)
  BY UnblockedTasks
<1>4. \A n \in Member \ {m} : n \in xTasksWaitingForBits /\ n \in Unblocked(bits)
  <2> SUFFICES ASSUME NEW n \in Member \ {m} PROVE n \in xTasksWaitingForBits
    BY <1>3
  <2>1. MemberBits[n] \subseteq uxEventBits /\ MemberBits[n] # {}
    BY BitsOfMembers DEF NewValue
  <2> QED BY <1>0, <1>1, <2>1 DEF MembersInStep
<1>5. bits \in SUBSET Bits
  BY BitsOfMembers
<1>6. GroupTypes'
  <2>1. round' \in [Member -> 0 .. 3]
    BY <1>0, <1>2 DEF GroupTypes
  <2> QED BY <1>0, <1>2, <1>5, <2>1, SettingTyped DEF GroupTypes
<1>7. \A t \in GroupTask : /\ t \in Unblocked(bits) => /\ groupPc'[t] = "woken"
                                                       /\ eventItem'[t].bits = NewValue(bits)
                                                       /\ eventItem'[t].unblocked
                                                       /\ eventItem'[t].wanted = eventItem[t].wanted
                                                       /\ eventItem'[t].clear = eventItem[t].clear
                                                       /\ groupPc[t] = "blocked"
                           /\ t \notin Unblocked(bits) => /\ eventItem'[t] = eventItem[t]
                                                          /\ groupPc'[t] = groupPc[t]
  BY <1>0, <1>2, <1>3 DEF Delivered, Wake, GroupTypes, ItemType, BlockedAreListed
<1>8. BlockedAreListed'
  BY <1>0, <1>2, <1>3, <1>7, BitsOfMembers DEF BlockedAreListed
<1>9. MembersInStep'
  <2> SUFFICES ASSUME NEW n \in Member
               PROVE  /\ n \in xTasksWaitingForBits' => eventItem'[n] = RendezvousItem
                      /\ groupPc'[n] = "woken" => eventItem'[n].unblocked
                      /\ deleted' \/ IF n \in xTasksWaitingForBits' THEN MemberBits[n] \subseteq uxEventBits'
                                     ELSE MemberBits[n] \intersect uxEventBits' = {}
    BY DEF MembersInStep, RendezvousItem, Item
  <2>1. n \notin xTasksWaitingForBits' /\ MemberBits[n] \intersect uxEventBits' = {}
    BY <1>1, <1>2, <1>4, BitsOfMembers
  <2>2. groupPc'[n] = "woken" => eventItem'[n].unblocked
    BY <1>1, <1>3, <1>4, <1>7, BitsOfMembers
  <2> QED BY <2>1, <2>2
<1>10. VisitorsKeepOff'
  BY <1>0, <1>2, <1>7, BitsOfMembers DEF VisitorsKeepOff
<1>11. NobodyWaitsInVain'
  <2> SUFFICES ASSUME NEW t \in xTasksWaitingForBits'
               PROVE  ~prvTestWaitCondition(uxEventBits', eventItem'[t].bits, eventItem'[t].all)
    BY DEF NobodyWaitsInVain, prvTestWaitCondition
  <2>1. t \in xTasksWaitingForBits \ Unblocked(bits) /\ t \in GroupTask
    BY <1>0, <1>2 DEF GroupTypes
  <2>2. eventItem'[t] = eventItem[t] /\ eventItem[t].all \in BOOLEAN
    BY <1>0, <1>7, <2>1 DEF GroupTypes, ItemType
  <2> QED BY <1>2, <1>3, <2>1, <2>2, FewerBitsMeetLess
<1>12. \A n \in Member : RoundsThrough(n)' = (RoundsThrough(n) + 1) % 4
  <2>1. RoundsThrough(m)' = (RoundsThrough(m) + 1) % 4
    <3>1. groupPc'[m] = "out" /\ round'[m] = (round[m] + 1) % 4
      BY <1>0, <1>1, <1>2, <1>3, <1>7, BitsOfMembers DEF GroupTypes
    <3> QED BY <1>1, <3>1 DEF RoundsThrough, LetGo
  <2>2. ASSUME NEW n \in Member \ {m} PROVE RoundsThrough(n)' = (RoundsThrough(n) + 1) % 4
    <3>1. /\ groupPc[n] = "blocked" /\ groupPc'[n] = "woken" /\ eventItem'[n].unblocked
          /\ Rendezvous \subseteq eventItem'[n].bits /\ round'[n] = round[n]
      BY <1>0, <1>2, <1>4, <1>7, BitsOfMembers DEF GroupTypes
    <3> QED BY <3>1 DEF RoundsThrough, LetGo, Rendezvous
  <2> QED BY <2>1, <2>2
<1>13. ReleasedTogether'
  BY <1>0, <1>12 DEF ReleasedTogether
<1> QED BY <1>6, <1>8, <1>9, <1>10, <1>11, <1>13 DEF GroupInv

(* A member that is not the last to come waits for the others; none of     *)
(* them is let go.                                                         *)
LEMMA GroupInvSyncWait ==
    ASSUME GroupInv, NEW m \in Member, xEventGroupSync(m), ~(Rendezvous \subseteq NewValue(MemberBits[m]))
    PROVE  GroupInv'
<1> DEFINE bits == MemberBits[m]
<1>0. /\ GroupTypes /\ BlockedAreListed /\ MembersInStep /\ VisitorsKeepOff
      /\ NobodyWaitsInVain /\ ReleasedTogether
  BY DEF GroupInv
<1>1. /\ groupPc[m] = "out" /\ ~deleted /\ m \notin xTasksWaitingForBits
      /\ bits \in SUBSET Bits /\ m \in GroupTask
  BY <1>0, BitsOfMembers DEF xEventGroupSync, Out, BlockedAreListed
<1>2. /\ uxEventBits' = NewValue(bits) \ BitsToClear(bits)
      /\ xTasksWaitingForBits' = (xTasksWaitingForBits \ Unblocked(bits)) \union {m}
      /\ eventItem' = [Delivered(bits) EXCEPT ![m] = RendezvousItem]
      /\ groupPc' = [Wake(Unblocked(bits)) EXCEPT ![m] = "blocked"]
      /\ round' = round /\ deleted' = deleted /\ pended' = pended
  BY DEF xEventGroupSync
<1>3. /\ Unblocked(bits) \subseteq xTasksWaitingForBits
      /\ \A t \in xTasksWaitingForBits \ Unblocked(bits) :
             ~prvTestWaitCondition(NewValue(bits), eventItem[t].bits, eventItem[t].all)
      /\ Unblocked(bits) \intersect Member = {} /\ BitsToClear(bits) \subseteq VisitorBits
  BY UnblockedTasks
<1>4. GroupTypes'
  BY <1>0, <1>1, <1>2, SettingTyped, ItemsTyped DEF GroupTypes
<1>5. \A t \in GroupTask \ {m} :
            /\ t \in Unblocked(bits) => /\ groupPc'[t] = "woken"
                                        /\ eventItem'[t].wanted = eventItem[t].wanted
                                        /\ eventItem'[t].clear = eventItem[t].clear
                                        /\ groupPc[t] = "blocked"
            /\ t \notin Unblocked(bits) => /\ eventItem'[t] = eventItem[t]
                                           /\ groupPc'[t] = groupPc[t]
  <2> SUFFICES ASSUME NEW t \in GroupTask \ {m}
               PROVE  /\ t \in Unblocked(bits) => /\ groupPc'[t] = "woken"
                                                  /\ eventItem'[t].wanted = eventItem[t].wanted
                                                  /\ eventItem'[t].clear = eventItem[t].clear
                                                  /\ groupPc[t] = "blocked"
                      /\ t \notin Unblocked(bits) => /\ eventItem'[t] = eventItem[t]
                                                     /\ groupPc'[t] = groupPc[t]
    OBVIOUS
  <2>1. eventItem'[t] = Delivered(bits)[t] /\ groupPc'[t] = Wake(Unblocked(bits))[t]
    BY <1>2 DEF Delivered, Wake
  <2>2. t \in Unblocked(bits) => groupPc[t] = "blocked"
    BY <1>0, <1>3 DEF BlockedAreListed
  <2> QED BY <1>0, <2>1, <2>2 DEF Delivered, Wake, GroupTypes, ItemType
<1>6. eventItem'[m] = RendezvousItem /\ groupPc'[m] = "blocked"
  <2>1. m \in DOMAIN Delivered(bits) /\ m \in DOMAIN Wake(Unblocked(bits))
    BY <1>1 DEF Delivered, Wake
  <2> QED BY <1>2, <2>1
<1>7. BlockedAreListed'
  BY <1>0, <1>1, <1>2, <1>3, <1>5, <1>6, BitsOfMembers DEF BlockedAreListed
<1>8. MembersInStep'
  <2> SUFFICES ASSUME NEW n \in Member
               PROVE  /\ n \in xTasksWaitingForBits' => eventItem'[n] = RendezvousItem
                      /\ groupPc'[n] = "woken" => eventItem'[n].unblocked
                      /\ deleted' \/ IF n \in xTasksWaitingForBits' THEN MemberBits[n] \subseteq uxEventBits'
                                     ELSE MemberBits[n] \intersect uxEventBits' = {}
    BY DEF MembersInStep, RendezvousItem, Item
  <2>1. CASE n = m
    <3>1. MemberBits[m] \subseteq uxEventBits'
      BY <1>2, <1>3, BitsOfMembers DEF NewValue
    <3> QED BY <1>2, <1>6, <2>1, <3>1
  <2>2. CASE n # m
    <3>1. /\ eventItem'[n] = eventItem[n] /\ groupPc'[n] = groupPc[n]
          /\ n \in xTasksWaitingForBits' <=> n \in xTasksWaitingForBits
      BY <1>2, <1>3, <1>5, <2>2, BitsOfMembers
    <3>2. MemberBits[n] \intersect uxEventBits' = MemberBits[n] \intersect uxEventBits
      BY <1>2, <1>3, <2>2, BitsOfMembers DEF NewValue
    <3> QED BY <1>0, <1>2, <3>1, <3>2 DEF MembersInStep
  <2> QED BY <2>1, <2>2
<1>9. VisitorsKeepOff'
  BY <1>0, <1>1, <1>2, <1>5, BitsOfMembers DEF VisitorsKeepOff
<1>10. NobodyWaitsInVain'
  <2> SUFFICES ASSUME NEW t \in xTasksWaitingForBits'
               PROVE  ~prvTestWaitCondition(uxEventBits', eventItem'[t].bits, eventItem'[t].all)
    BY DEF NobodyWaitsInVain, prvTestWaitCondition
  <2>1. CASE t = m
    BY <1>2, <1>6, <2>1, ItemsTyped DEF prvTestWaitCondition
  <2>2. CASE t # m
    <3>1. t \in xTasksWaitingForBits \ Unblocked(bits) /\ t \in GroupTask
      BY <1>0, <1>2, <2>2 DEF GroupTypes
    <3>2. eventItem'[t] = eventItem[t] /\ eventItem[t].all \in BOOLEAN
      BY <1>0, <1>5, <2>2, <3>1 DEF GroupTypes, ItemType
    <3> QED BY <1>2, <1>3, <3>1, <3>2, FewerBitsMeetLess
  <2> QED BY <2>1, <2>2
<1>11. \A n \in Member : RoundsThrough(n)' = RoundsThrough(n)
  <2>1. RoundsThrough(m)' = RoundsThrough(m)
    BY <1>1, <1>2, <1>6 DEF RoundsThrough, LetGo
  <2> QED BY <1>2, <1>3, <1>5, <2>1, RoundsKept, BitsOfMembers
<1>12. ReleasedTogether'
  BY <1>0, <1>11 DEF ReleasedTogether
<1> QED BY <1>4, <1>7, <1>8, <1>9, <1>10, <1>12 DEF GroupInv

(* Bits of visitors are cleared, and nothing else is done to the members.  *)
LEMMA ClearingKeepsOff ==
    ASSUME GroupInv, uxEventBits' \subseteq uxEventBits, uxEventBits \ uxEventBits' \subseteq VisitorBits,
           xTasksWaitingForBits' = xTasksWaitingForBits, deleted' = deleted,
           eventItem' \in [GroupTask -> ItemType],
           \A t \in xTasksWaitingForBits : eventItem'[t] = eventItem[t],
           \A m \in Member : groupPc'[m] = "woken" => groupPc[m] = "woken" /\ eventItem'[m] = eventItem[m]
    PROVE  /\ uxEventBits' \subseteq Bits /\ xTasksWaitingForBits' \subseteq GroupTask
           /\ MembersInStep' /\ NobodyWaitsInVain'
<1>0. GroupTypes /\ MembersInStep /\ NobodyWaitsInVain
  BY DEF GroupInv
<1>1. uxEventBits' \subseteq Bits /\ xTasksWaitingForBits' \subseteq GroupTask
  BY <1>0 DEF GroupTypes
<1>2. MembersInStep'
  <2> SUFFICES ASSUME NEW m \in Member
               PROVE  /\ m \in xTasksWaitingForBits' => eventItem'[m] = RendezvousItem
                      /\ groupPc'[m] = "woken" => eventItem'[m].unblocked
                      /\ deleted' \/ IF m \in xTasksWaitingForBits' THEN MemberBits[m] \subseteq uxEventBits'
                                     ELSE MemberBits[m] \intersect uxEventBits' = {}
    BY DEF MembersInStep, RendezvousItem, Item
  <2>1. MemberBits[m] \intersect uxEventBits' = MemberBits[m] \intersect uxEventBits
    BY BitsOfMembers
  <2> QED BY <1>0, <2>1 DEF MembersInStep
<1>3. NobodyWaitsInVain'
  <2> SUFFICES ASSUME NEW t \in xTasksWaitingForBits'
               PROVE  ~prvTestWaitCondition(uxEventBits', eventItem'[t].bits, eventItem'[t].all)
    BY DEF NobodyWaitsInVain, prvTestWaitCondition
  <2>1. eventItem'[t] = eventItem[t] /\ eventItem[t].all \in BOOLEAN
    BY <1>0 DEF GroupTypes, ItemType
  <2> QED BY <1>0, <2>1, FewerBitsMeetLess DEF NobodyWaitsInVain
<1> QED BY <1>1, <1>2, <1>3

LEMMA GroupInvClearBits ==
    ASSUME GroupInv, NEW bits \in SUBSET VisitorBits, uxEventBits' = uxEventBits \ bits,
           UNCHANGED <<xTasksWaitingForBits, eventItem, groupPc, deleted, round>>,
           pended' \in Seq(PendedType)
    PROVE  GroupInv'
<1>0. /\ GroupTypes /\ BlockedAreListed /\ MembersInStep /\ VisitorsKeepOff
      /\ NobodyWaitsInVain /\ ReleasedTogether
  BY DEF GroupInv
<1>1. /\ uxEventBits' \subseteq Bits /\ MembersInStep' /\ NobodyWaitsInVain'
  BY <1>0, ClearingKeepsOff DEF GroupTypes
<1>2. GroupTypes' /\ BlockedAreListed' /\ VisitorsKeepOff'
  BY <1>0, <1>1 DEF GroupTypes, BlockedAreListed, VisitorsKeepOff
<1>3. ReleasedTogether'
  BY <1>0, RoundsKept DEF ReleasedTogether
<1> QED BY <1>1, <1>2, <1>3 DEF GroupInv

LEMMA GroupInvWaitBits ==
    ASSUME GroupInv, NEW v \in Visitor, xEventGroupWaitBits(v)
    PROVE  GroupInv'
<1>0. /\ GroupTypes /\ BlockedAreListed /\ MembersInStep /\ VisitorsKeepOff
      /\ NobodyWaitsInVain /\ ReleasedTogether
  BY DEF GroupInv
<1>1. PICK bits \in Watched, clear \in BOOLEAN, all \in BOOLEAN, limit \in GroupLimits :
        /\ clear => bits \subseteq VisitorBits
        /\ \/ /\ prvTestWaitCondition(uxEventBits, bits, all)
              /\ uxEventBits' = IF clear THEN uxEventBits \ bits ELSE uxEventBits
              /\ UNCHANGED <<xTasksWaitingForBits, eventItem, groupPc>>
           \/ /\ ~prvTestWaitCondition(uxEventBits, bits, all) /\ limit # "none"
              /\ xTasksWaitingForBits' = xTasksWaitingForBits \union {v}
              /\ eventItem' = [eventItem EXCEPT ![v] = Item(bits, clear, all, limit)]
              /\ groupPc' = [groupPc EXCEPT ![v] = "blocked"]
              /\ UNCHANGED uxEventBits
  BY DEF xEventGroupWaitBits
<1>2. /\ UNCHANGED <<pended, deleted, round>> /\ groupPc[v] = "out" /\ ~deleted
      /\ v \in GroupTask /\ v \notin Member /\ v \notin xTasksWaitingForBits
  BY <1>0, BitsOfMembers DEF xEventGroupWaitBits, Out, BlockedAreListed
<1>3. CASE UNCHANGED <<xTasksWaitingForBits, eventItem, groupPc>>
  <2>1. PICK less \in SUBSET VisitorBits : uxEventBits' = uxEventBits \ less
    <3>1. CASE clear
      BY <1>1, <1>2, <1>3, <3>1
    <3>2. CASE ~clear
      <4>1. uxEventBits' = uxEventBits \ {}
        BY <1>0, <1>1, <1>2, <1>3, <3>2
      <4> QED BY <4>1
    <3> QED BY <3>1, <3>2
  <2>2. pended' \in Seq(PendedType)
    BY <1>0, <1>2 DEF GroupTypes
  <2> QED BY <1>2, <1>3, <2>1, <2>2, GroupInvClearBits
<1>4. CASE /\ ~prvTestWaitCondition(uxEventBits, bits, all) /\ limit # "none"
           /\ xTasksWaitingForBits' = xTasksWaitingForBits \union {v}
           /\ eventItem' = [eventItem EXCEPT ![v] = Item(bits, clear, all, limit)]
           /\ groupPc' = [groupPc EXCEPT ![v] = "blocked"]
           /\ UNCHANGED uxEventBits
  <2>0. bits \in SUBSET Bits /\ limit \in {"none", "limited", "forever"}
    BY BitsOfMembers, EventGroupsAssumption DEF Watched
  <2> DEFINE item == Item(bits, clear, all, limit)
  <2>1. /\ item \in ItemType /\ item.bits = bits /\ item.wanted = bits /\ item.clear = clear
        /\ item.all = all
    BY <2>0, ItemsTyped
  <2>2. eventItem'[v] = item /\ groupPc'[v] = "blocked"
    BY <1>0, <1>2, <1>4 DEF GroupTypes
  <2>3. \A t \in GroupTask \ {v} : eventItem'[t] = eventItem[t] /\ groupPc'[t] = groupPc[t]
    BY <1>0, <1>4 DEF GroupTypes
  <2> HIDE DEF item
  <2>4. GroupTypes'
    BY <1>0, <1>2, <1>4, <2>1 DEF GroupTypes, item
  <2>5. BlockedAreListed'
    BY <1>0, <1>2, <1>4, <2>2, <2>3 DEF BlockedAreListed
  <2>6. MembersInStep'
    BY <1>0, <1>2, <1>4, <2>3, BitsOfMembers DEF MembersInStep, RendezvousItem, Item
  <2>7. VisitorsKeepOff'
    BY <1>0, <1>1, <1>2, <1>4, <2>1, <2>2, <2>3, BitsOfMembers DEF VisitorsKeepOff
  <2>8. NobodyWaitsInVain'
    <3> SUFFICES ASSUME NEW t \in xTasksWaitingForBits'
                 PROVE  ~prvTestWaitCondition(uxEventBits, eventItem'[t].bits, eventItem'[t].all)
      BY <1>4 DEF NobodyWaitsInVain, prvTestWaitCondition
    <3>1. CASE t = v
      BY <1>4, <2>1, <2>2, <3>1
    <3>2. CASE t # v
      BY <1>0, <1>4, <2>3, <3>2 DEF GroupTypes, NobodyWaitsInVain
    <3> QED BY <3>1, <3>2
  <2>9. ReleasedTogether'
    BY <1>0, <1>2, <2>3, RoundsKept, BitsOfMembers DEF ReleasedTogether
  <2> QED BY <2>4, <2>5, <2>6, <2>7, <2>8, <2>9 DEF GroupInv
<1> QED BY <1>1, <1>3, <1>4

LEMMA GroupInvTimeOut ==
    ASSUME GroupInv, NEW t \in GroupTask, GroupTimeOut(t)
    PROVE  GroupInv'
<1>0. /\ GroupTypes /\ BlockedAreListed /\ MembersInStep /\ VisitorsKeepOff
      /\ NobodyWaitsInVain /\ ReleasedTogether
  BY DEF GroupInv
<1>1. /\ t \in xTasksWaitingForBits /\ eventItem[t].limit = "limited"
      /\ xTasksWaitingForBits' = xTasksWaitingForBits \ {t} /\ groupPc' = Wake({t})
      /\ UNCHANGED <<uxEventBits, eventItem, pended, deleted, round>>
  BY DEF GroupTimeOut
<1>2. t \in Visitor /\ t \notin Member
  <2>1. RendezvousItem.limit = "forever"
    BY DEF RendezvousItem, Item
  <2> QED BY <1>0, <1>1, <2>1, BitsOfMembers DEF MembersInStep, GroupTask
<1>3. groupPc[t] = "blocked" /\ groupPc'[t] = "woken" /\ \A u \in GroupTask \ {t} : groupPc'[u] = groupPc[u]
  BY <1>0, <1>1 DEF Wake, BlockedAreListed
<1>4. GroupTypes'
  BY <1>0, <1>1 DEF GroupTypes, Wake
<1>5. BlockedAreListed'
  BY <1>0, <1>1, <1>3 DEF BlockedAreListed
<1>6. MembersInStep'
  BY <1>0, <1>1, <1>2, <1>3, BitsOfMembers DEF MembersInStep, RendezvousItem, Item
<1>7. VisitorsKeepOff'
  BY <1>0, <1>1, <1>2, <1>3, BitsOfMembers DEF VisitorsKeepOff
<1>8. NobodyWaitsInVain'
  BY <1>0, <1>1 DEF NobodyWaitsInVain, prvTestWaitCondition
<1>9. ReleasedTogether'
  BY <1>0, <1>1, <1>2, <1>3, RoundsKept, BitsOfMembers DEF ReleasedTogether
<1> QED BY <1>4, <1>5, <1>6, <1>7, <1>8, <1>9 DEF GroupInv

(* A task that was woken runs: a member that was let go counts the round,  *)
(* and a visitor that timed out clears bits of visitors at most.           *)
LEMMA GroupInvResume ==
    ASSUME GroupInv, NEW t \in GroupTask, GroupResume(t)
    PROVE  GroupInv'
<1>0. /\ GroupTypes /\ BlockedAreListed /\ MembersInStep /\ VisitorsKeepOff
      /\ NobodyWaitsInVain /\ ReleasedTogether
  BY DEF GroupInv
<1> DEFINE item == eventItem[t]
<1>1. /\ groupPc[t] = "woken"
      /\ \/ /\ item.unblocked
            /\ round' = IF t \in Member /\ Rendezvous \subseteq item.bits
                        THEN [round EXCEPT ![t] = (@ + 1) % 4] ELSE round
            /\ UNCHANGED uxEventBits
         \/ /\ ~item.unblocked
            /\ uxEventBits' = IF item.clear /\ prvTestWaitCondition(uxEventBits, item.wanted, item.all)
                              THEN uxEventBits \ item.wanted ELSE uxEventBits
            /\ UNCHANGED round
      /\ eventItem' = [eventItem EXCEPT ![t] = NoItem]
      /\ groupPc' = [groupPc EXCEPT ![t] = "out"]
      /\ UNCHANGED <<xTasksWaitingForBits, pended, deleted>>
  BY DEF GroupResume
<1>2. t \notin xTasksWaitingForBits
  BY <1>0, <1>1 DEF BlockedAreListed
<1>3. eventItem'[t] = NoItem /\ groupPc'[t] = "out"
  BY <1>0, <1>1 DEF GroupTypes
<1>4. \A u \in GroupTask \ {t} : eventItem'[u] = eventItem[u] /\ groupPc'[u] = groupPc[u]
  BY <1>0, <1>1 DEF GroupTypes
<1>5. eventItem' \in [GroupTask -> ItemType] /\ groupPc' \in [GroupTask -> {"out", "blocked", "woken"}]
  BY <1>0, <1>1, ItemsTyped DEF GroupTypes
<1>6. round' \in [Member -> 0 .. 3] /\ (t \notin Member => round' = round)
      /\ \A n \in Member \ {t} : round'[n] = round[n]
  BY <1>0, <1>1 DEF GroupTypes
<1>7. uxEventBits' \subseteq uxEventBits /\ uxEventBits \ uxEventBits' \subseteq VisitorBits
  <2>1. CASE item.unblocked
    BY <1>1, <2>1
  <2>2. CASE ~item.unblocked
    <3>1. t \in Visitor
      BY <1>0, <1>1, <2>2 DEF MembersInStep, GroupTask
    <3>2. item.clear => item.wanted \subseteq VisitorBits
      BY <1>0, <1>1, <3>1 DEF VisitorsKeepOff
    <3> QED BY <1>1, <2>2, <3>2
  <2> QED BY <2>1, <2>2
<1>8. /\ uxEventBits' \subseteq Bits /\ xTasksWaitingForBits' \subseteq GroupTask
      /\ MembersInStep' /\ NobodyWaitsInVain'
  <2>1. \A u \in xTasksWaitingForBits : eventItem'[u] = eventItem[u]
    BY <1>0, <1>2, <1>4 DEF GroupTypes
  <2>2. \A m \in Member : groupPc'[m] = "woken" => groupPc[m] = "woken" /\ eventItem'[m] = eventItem[m]
    BY <1>3, <1>4, BitsOfMembers
  <2> QED BY <1>1, <1>5, <1>7, <2>1, <2>2, ClearingKeepsOff
<1>9. GroupTypes'
  BY <1>0, <1>1, <1>5, <1>6, <1>8 DEF GroupTypes
<1>10. BlockedAreListed'
  BY <1>0, <1>1, <1>2, <1>3, <1>4 DEF BlockedAreListed
<1>11. VisitorsKeepOff'
  BY <1>0, <1>1, <1>2, <1>3, <1>4, BitsOfMembers DEF VisitorsKeepOff
<1>12. \A n \in Member : RoundsThrough(n)' = RoundsThrough(n)
  <2>1. ASSUME t \in Member PROVE RoundsThrough(t)' = RoundsThrough(t)
    <3>1. item.unblocked
      BY <1>0, <1>1, <2>1 DEF MembersInStep
    <3>2. round'[t] = IF Rendezvous \subseteq item.bits THEN (round[t] + 1) % 4 ELSE round[t]
      BY <1>0, <1>1, <2>1, <3>1 DEF GroupTypes
    <3>3. RoundsThrough(t)' = round'[t]
      BY <1>3 DEF RoundsThrough, LetGo
    <3>4. RoundsThrough(t) = round'[t]
      BY <1>1, <3>1, <3>2 DEF RoundsThrough, LetGo
    <3> QED BY <3>3, <3>4
  <2> QED BY <1>4, <1>6, <2>1, RoundsKept, BitsOfMembers
<1>13. ReleasedTogether'
  BY <1>0, <1>12 DEF ReleasedTogether
<1> QED BY <1>8, <1>9, <1>10, <1>11, <1>13 DEF GroupInv

(* The group is deleted: its members are woken without bits, and none is   *)
(* let go.                                                                 *)
LEMMA GroupInvDelete ==
    ASSUME GroupInv, NEW v \in Visitor, vEventGroupDelete(v)
    PROVE  GroupInv'
<1>0. /\ GroupTypes /\ BlockedAreListed /\ MembersInStep /\ VisitorsKeepOff
      /\ NobodyWaitsInVain /\ ReleasedTogether
  BY DEF GroupInv
<1>1. /\ eventItem' = [u \in GroupTask |->
            IF u \in xTasksWaitingForBits THEN [eventItem[u] EXCEPT !.bits = {}, !.unblocked = TRUE]
                                          ELSE eventItem[u]]
      /\ groupPc' = Wake(xTasksWaitingForBits)
      /\ xTasksWaitingForBits' = {} /\ deleted' = TRUE
      /\ UNCHANGED <<uxEventBits, pended, round>>
  BY DEF vEventGroupDelete
<1>2. \A u \in GroupTask : /\ eventItem[u] \in ItemType
                           /\ [eventItem[u] EXCEPT !.bits = {}, !.unblocked = TRUE] \in ItemType
  BY <1>0 DEF GroupTypes, ItemType
<1>3. \A u \in GroupTask :
            /\ u \in xTasksWaitingForBits =>
                   /\ groupPc[u] = "blocked" /\ groupPc'[u] = "woken"
                   /\ eventItem'[u].bits = {} /\ eventItem'[u].unblocked
                   /\ eventItem'[u].wanted = eventItem[u].wanted
                   /\ eventItem'[u].clear = eventItem[u].clear
            /\ u \notin xTasksWaitingForBits => eventItem'[u] = eventItem[u] /\ groupPc'[u] = groupPc[u]
  BY <1>0, <1>1, <1>2 DEF Wake, ItemType, BlockedAreListed
<1>4. GroupTypes'
  <2>1. eventItem' \in [GroupTask -> ItemType]
    BY <1>1, <1>2
  <2>2. groupPc' \in [GroupTask -> {"out", "blocked", "woken"}]
    BY <1>0, <1>1 DEF Wake, GroupTypes
  <2> QED BY <1>0, <1>1, <2>1, <2>2 DEF GroupTypes
<1>5. BlockedAreListed'
  BY <1>0, <1>1, <1>3 DEF BlockedAreListed
<1>6. MembersInStep'
  BY <1>0, <1>1, <1>3, BitsOfMembers DEF MembersInStep, RendezvousItem, Item
<1>7. VisitorsKeepOff'
  BY <1>0, <1>1, <1>3, BitsOfMembers DEF VisitorsKeepOff
<1>8. NobodyWaitsInVain'
  BY <1>1 DEF NobodyWaitsInVain
<1>9. \A n \in Member : RoundsThrough(n)' = RoundsThrough(n)
  <2> SUFFICES ASSUME NEW n \in Member PROVE RoundsThrough(n)' = RoundsThrough(n)
    OBVIOUS
  <2>1. CASE n \in xTasksWaitingForBits
    <3>1. ~LetGo(n) /\ ~LetGo(n)'
      BY <1>3, <2>1, BitsOfMembers DEF LetGo, Rendezvous
    <3> QED BY <1>1, <3>1 DEF RoundsThrough
  <2>2. CASE n \notin xTasksWaitingForBits
    BY <1>1, <1>3, <2>2, RoundsKept, BitsOfMembers
  <2> QED BY <2>1, <2>2
<1>10. ReleasedTogether'
  BY <1>0, <1>9 DEF ReleasedTogether
<1> QED BY <1>4, <1>5, <1>6, <1>7, <1>8, <1>10 DEF GroupInv

\* What a handler pended is carried out as a call of a visitor is.
LEMMA GroupInvPended ==
    ASSUME GroupInv, xTimerPendFunctionCallFromISR \/ ExecutePended
    PROVE  GroupInv'
<1>0. /\ GroupTypes /\ BlockedAreListed /\ MembersInStep /\ VisitorsKeepOff
      /\ NobodyWaitsInVain /\ ReleasedTogether
  BY DEF GroupInv
<1>1. CASE xTimerPendFunctionCallFromISR
  <2>1. PICK function \in {"set", "clear"}, bits \in SUBSET VisitorBits \ {{}} :
            pended' = Append(pended, [function |-> function, bits |-> bits])
    BY <1>1 DEF xTimerPendFunctionCallFromISR
  <2>2. [function |-> function, bits |-> bits] \in PendedType
    BY DEF PendedType
  <2>3. pended' \in Seq(PendedType)
    BY <1>0, <2>1, <2>2 DEF GroupTypes
  <2>4. uxEventBits' = uxEventBits \ {}
    BY <1>1 DEF xTimerPendFunctionCallFromISR
  <2>5. {} \in SUBSET VisitorBits
    OBVIOUS
  <2> QED BY <1>1, <2>3, <2>4, <2>5, GroupInvClearBits DEF xTimerPendFunctionCallFromISR
<1>2. CASE ExecutePended
  <2>1. /\ pended # <<>> /\ pended' = Tail(pended) /\ UNCHANGED <<deleted, round>>
        /\ IF Head(pended).function = "set" THEN SetBits(Head(pended).bits)
           ELSE /\ uxEventBits' = uxEventBits \ Head(pended).bits
                /\ UNCHANGED <<xTasksWaitingForBits, eventItem, groupPc>>
    BY <1>2 DEF ExecutePended
  <2>2. Head(pended) \in PendedType /\ pended' \in Seq(PendedType)
    BY <1>0, <2>1 DEF GroupTypes
  <2>3. Head(pended).bits \in SUBSET VisitorBits
    BY <2>2 DEF PendedType
  <2> HIDE DEF PendedType
  <2>4. CASE Head(pended).function = "set"
    BY <2>1, <2>2, <2>3, <2>4, GroupInvSetBits
  <2>5. CASE Head(pended).function # "set"
    BY <2>1, <2>2, <2>3, <2>5, GroupInvClearBits
  <2> QED BY <2>4, <2>5
<1> QED BY <1>1, <1>2

(* The inductive invariant of the event group.                             *)
THEOREM GroupInvariant == GroupInit /\ [][GroupNext]_groupVars => []GroupInv
<1>1. ASSUME GroupInit PROVE GroupInv
  <2>1. GroupTypes
    <3>1. eventItem \in [GroupTask -> ItemType] /\ groupPc \in [GroupTask -> {"out", "blocked", "woken"}]
      BY <1>1, ItemsTyped DEF GroupInit
    <3>2. <<>> \in Seq(PendedType) /\ round \in [Member -> 0 .. 3]
      BY <1>1 DEF GroupInit
    <3>3. uxEventBits \subseteq Bits /\ xTasksWaitingForBits \subseteq GroupTask
      BY <1>1 DEF GroupInit
    <3> QED BY <1>1, <3>1, <3>2, <3>3 DEF GroupTypes, GroupInit
  <2>2. BlockedAreListed /\ MembersInStep /\ VisitorsKeepOff /\ NobodyWaitsInVain
    BY <1>1, BitsOfMembers DEF GroupInit, BlockedAreListed, MembersInStep, VisitorsKeepOff, NobodyWaitsInVain
  <2>3. ReleasedTogether
    BY <1>1, BitsOfMembers DEF GroupInit, ReleasedTogether, RoundsThrough, LetGo
  <2> QED BY <2>1, <2>2, <2>3 DEF GroupInv
<1>2. ASSUME GroupInv, [GroupNext]_groupVars PROVE GroupInv'
  <2>1. ASSUME NEW t \in GroupTask, GroupTaskStep(t) \/ GroupTimeOut(t) PROVE GroupInv'
    <3>1. CASE t \in Member /\ xEventGroupSync(t)
      BY <1>2, <3>1, GroupInvSyncComplete, GroupInvSyncWait
    <3> QED BY <1>2, <2>1, <3>1, GroupInvResume, GroupInvTimeOut DEF GroupTaskStep
  <2>2. ASSUME NEW v \in Visitor, VisitorCall(v) PROVE GroupInv'
    <3>1. pended' = pended => pended' \in Seq(PendedType)
      BY <1>2 DEF GroupInv, GroupTypes
    <3>2. CASE xEventGroupSetBits(v)
      BY <1>2, <3>1, <3>2, GroupInvSetBits DEF xEventGroupSetBits
    <3>3. CASE xEventGroupClearBits(v)
      BY <1>2, <3>1, <3>3, GroupInvClearBits DEF xEventGroupClearBits
    <3> QED BY <1>2, <2>2, <3>2, <3>3, GroupInvWaitBits, GroupInvDelete DEF VisitorCall
  <2>3. CASE xTimerPendFunctionCallFromISR \/ ExecutePended
    BY <1>2, <2>3, GroupInvPended
  <2>4. CASE UNCHANGED groupVars
    <3>1. uxEventBits' = uxEventBits \ {} /\ {} \in SUBSET VisitorBits
      BY <2>4 DEF groupVars
    <3>2. pended' \in Seq(PendedType)
      BY <1>2, <2>4 DEF groupVars, GroupInv, GroupTypes
    <3> QED BY <1>2, <2>4, <3>1, <3>2, GroupInvClearBits DEF groupVars
  <2> QED BY <1>2, <2>1, <2>2, <2>3, <2>4 DEF GroupNext
<1> QED BY <1>1, <1>2, PTL

(* Nobody waits for bits that are there, whatever tasks and handlers set,  *)
(* clear and wait for.  (xEventGroupSetBits, xEventGroupWaitBits)          *)
THEOREM NobodyMissesItsBits == GroupInit /\ [][GroupNext]_groupVars => []NobodyWaitsInVain
<1>1. GroupInv => NobodyWaitsInVain
  BY DEF GroupInv
<1> QED BY <1>1, GroupInvariant, PTL

(* A rendezvous lets all its members go or none, whatever visitors and     *)
(* handlers do with the other bits, and when the group is deleted it lets  *)
(* none go.  (xEventGroupSync, vEventGroupDelete)                          *)
THEOREM MembersGoTogether == GroupInit /\ [][GroupNext]_groupVars => []ReleasedTogether
<1>1. GroupInv => ReleasedTogether
  BY DEF GroupInv
<1> QED BY <1>1, GroupInvariant, PTL
=============================================================================
