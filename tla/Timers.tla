------------------------------- MODULE Timers -------------------------------
(***************************************************************************)
(* The software timers of timers.c: the timer task, the two lists of       *)
(* active timers that it exchanges whenever the tick count wraps, and the  *)
(* queue through which tasks, interrupt handlers, callbacks and the timer  *)
(* task itself post commands to it.                                        *)
(*                                                                         *)
(* `clock' counts the ticks for ever.  The code only has xTickCount,       *)
(* modelled as clock % TickModulus; whatever it stores or compares is      *)
(* taken modulo TickModulus below.  The full times (clock, lastTime, the   *)
(* `at' of a command and `due') are there for the properties and for       *)
(* TimeToExpire, which turns a difference of ticks into a time.            *)
(***************************************************************************)
EXTENDS Lists

CONSTANTS
    Timer,          \* the timers that exist at the start
    AutoReload,     \* those created with uxAutoReload
    InitialPeriod,  \* xTimerPeriodInTicks when created
    NewPeriods,     \* of each timer, the periods asked for by xTimerChangePeriod
    Deletable,      \* the timers that may be deleted
    NoTimer,
    Stopped,        \* `due' of a timer that is not to expire
    Never,          \* `wakeTime' of a wait without a limit
    QueueLength,    \* configTIMER_QUEUE_LENGTH
    TickModulus,    \* 2^32 in the build
    FirstTick,      \* the time at which the first command is posted
    MaxClock,       \* bound on clock
    Lateness,       \* no list entry or command is left unprocessed longer
    CallDelay,      \* from reading the tick count to posting the command
    PostsPerTick    \* bound on the commands posted in a tick

Period == UNION {{InitialPeriod[t]} \union NewPeriods[t] : t \in Timer}

(* A wrap of the tick count goes unnoticed when the timer task takes two   *)
(* samples a whole TickModulus apart, hence the last conjunct.             *)
ASSUME TimersAssumption ==
    /\ AutoReload \subseteq Timer /\ Deletable \subseteq Timer
    /\ InitialPeriod \in [Timer -> Nat \ {0}]
    /\ NewPeriods \in [Timer -> SUBSET (Nat \ {0})]
    /\ NoTimer \notin Timer
    /\ {QueueLength, TickModulus} \subseteq Nat \ {0}
    /\ {FirstTick, MaxClock, Lateness, CallDelay, PostsPerTick} \subseteq Nat
    /\ Stopped \notin Nat /\ Never \notin Nat
    /\ CallDelay <= FirstTick /\ FirstTick <= MaxClock /\ FirstTick < TickModulus
    /\ \A p \in Period : p + Lateness + 1 < TickModulus

VARIABLES
    clock,
    suspended,            \* the timer task has suspended the scheduler
    pxCurrentTimerList, pxOverflowTimerList,
    xItemValue,           \* of each timer's list item
    xTimerPeriodInTicks,
    xTimerQueue,
    freed,                \* timers whose memory was given back
    pc,                   \* where the timer task is
    lastTime,             \* the time whose ticks are in xLastTime
    wakeTime,             \* when a blocked timer task is woken by the tick
    command,              \* the message being processed
    reload,               \* the timer and the time to post START_DONT_TRACE with
    fault,                \* why the system has stopped, if it has
    posts,                \* commands posted since the last tick
    deleting,             \* timers whose deletion has been requested
    due,                  \* when the application has been told each will expire
    overtaken             \* timers given a command with a START_DONT_TRACE behind it

lists == <<pxCurrentTimerList, pxOverflowTimerList, xItemValue>>
promise == <<due, overtaken>>
task == <<pc, suspended, lastTime, wakeTime, command, reload>>
vars == <<clock, lists, xTimerPeriodInTicks, xTimerQueue, freed, task, fault,
          posts, deleting, promise>>

StartCommands == {"START", "START_DONT_TRACE"}
Message == [id : StartCommands \union {"STOP", "CHANGE_PERIOD", "DELETE"}, timer : Timer,
            at : 0..MaxClock, period : Period \union {0}]
Callback == [id |-> "EXECUTE_CALLBACK", timer |-> NoTimer, at |-> 0, period |-> 0]
NoCommand == [id |-> "none", timer |-> NoTimer, at |-> 0, period |-> 0]
Command(id, t, at, period) == [id |-> id, timer |-> t, at |-> at, period |-> period]

Ticks(time) == time % TickModulus

Init ==
    /\ clock = FirstTick
    /\ suspended = FALSE
    /\ pxCurrentTimerList = <<>> /\ pxOverflowTimerList = <<>>
    /\ xItemValue = [t \in Timer |-> 0]
    /\ xTimerPeriodInTicks = InitialPeriod
    /\ xTimerQueue = <<>> /\ freed = {}
    /\ pc = "blocked" /\ lastTime = 0 /\ wakeTime = Never
    /\ command = NoCommand /\ reload = <<NoTimer, 0>>
    /\ fault = "none" /\ posts = 0 /\ deleting = {}
    /\ due = [t \in Timer |-> Stopped] /\ overtaken = {}

-----------------------------------------------------------------------------
(* The rest of the system: the tick, and those who post commands.          *)

ReloadQueued(t) == \E i \in DOMAIN xTimerQueue :
    xTimerQueue[i].timer = t /\ xTimerQueue[i].id = "START_DONT_TRACE"

\* The timer task, of the highest priority, is late by at most Lateness.
InTime(time) ==
    /\ \A t \in Timer : due[t] # Stopped => time - due[t] <= Lateness
    /\ \A i \in DOMAIN xTimerQueue :
            xTimerQueue[i].timer # NoTimer => time - xTimerQueue[i].at <= Lateness
    /\ command.timer # NoTimer => time - command.at <= Lateness
    /\ pc # "blocked" /\ wakeTime # Never => time - wakeTime <= Lateness
    /\ reload[1] # NoTimer => time - reload[2] <= Lateness

\* Ticks of a suspended scheduler are pended and counted when it resumes.
xTaskIncrementTick ==
    /\ fault = "none" /\ ~suspended /\ clock < MaxClock /\ InTime(clock + 1)
    /\ clock' = clock + 1 /\ posts' = 0
    /\ pc' = IF pc = "blocked" /\ wakeTime # Never /\ wakeTime <= clock + 1 THEN "commands" ELSE pc
    /\ UNCHANGED <<lists, xTimerPeriodInTicks, xTimerQueue, freed, suspended, lastTime, wakeTime,
                   command, reload, fault, deleting, promise>>

\* A message behind the others; a timer task that waits for one is woken.
xTimerGenericCommand(message) ==
    /\ fault = "none" /\ Len(xTimerQueue) < QueueLength /\ posts < PostsPerTick
    /\ xTimerQueue' = Append(xTimerQueue, message)
    /\ posts' = posts + 1
    /\ pc' = IF pc = "blocked" THEN "commands" ELSE pc
    /\ UNCHANGED <<clock, lists, xTimerPeriodInTicks, freed, suspended, lastTime, wakeTime, command,
                   reload, fault, promise>>

(* The commands of tasks, handlers and callbacks.  xTimerStart and         *)
(* xTimerReset read the tick count before they post.                       *)
xTimerStart(t) == \E delay \in 0..CallDelay :
    /\ t \notin deleting
    /\ xTimerGenericCommand(Command("START", t, clock - delay, 0))
    /\ UNCHANGED deleting

xTimerStop(t) ==
    /\ t \notin deleting
    /\ xTimerGenericCommand(Command("STOP", t, clock, 0))
    /\ UNCHANGED deleting

xTimerChangePeriod(t) == \E p \in NewPeriods[t] :
    /\ t \notin deleting
    /\ xTimerGenericCommand(Command("CHANGE_PERIOD", t, clock, p))
    /\ UNCHANGED deleting

xTimerDelete(t) ==
    /\ t \in Deletable \ deleting
    /\ xTimerGenericCommand(Command("DELETE", t, clock, 0))
    /\ deleting' = deleting \union {t}

xTimerPendFunctionCall == xTimerGenericCommand(Callback) /\ UNCHANGED deleting

-----------------------------------------------------------------------------
(* The timer task.                                                         *)

At(label) == pc = label /\ fault = "none"

Listed(t) == Contains(pxCurrentTimerList, t) \/ Contains(pxOverflowTimerList, t)
\* The last time at which the tick count was value.
TimeAt(value) == clock - Ticks(clock - value)

vListInsert(list, t, value) == InsertSorted(list, [xItemValue EXCEPT ![t] = value], t)

\* Mutant: the length of the wait is not compared with the period.
ProcessTimerNowAnyPeriod(expiry, now, commandTime, period) ==
    expiry <= now \/ (now < commandTime /\ expiry >= commandTime)

\* Whether the timer expired before the task came to insert it.
ProcessTimerNow(expiry, now, commandTime, period) ==
    IF expiry <= now THEN Ticks(now - commandTime) >= period
                     ELSE now < commandTime /\ expiry >= commandTime

(* The two lists are those without t.                                      *)
prvInsertTimerInActiveList(current, overflow, t, expiry, now, commandTime, period) ==
    LET late == ProcessTimerNow(expiry, now, commandTime, period)
    IN  /\ xItemValue' = [xItemValue EXCEPT ![t] = expiry]
        /\ pxCurrentTimerList' =
                IF ~late /\ expiry > now THEN vListInsert(current, t, expiry) ELSE current
        /\ pxOverflowTimerList' =
                IF ~late /\ expiry <= now THEN vListInsert(overflow, t, expiry) ELSE overflow

\* The timer task calls the callback of t; the next call is a period later.
Call(t) ==
    due' = [due EXCEPT ![t] = IF t \in AutoReload /\ @ # Stopped THEN @ + xTimerPeriodInTicks[t]
                              ELSE Stopped]

\* To the back of the queue, without waiting, and asserted to succeed.
Reload(t, at) ==
    IF Len(xTimerQueue) < QueueLength
    THEN xTimerQueue' = Append(xTimerQueue, Command("START_DONT_TRACE", t, at, 0)) /\ UNCHANGED fault
    ELSE fault' = "configASSERT" /\ UNCHANGED xTimerQueue

\* Mutant: a second sample in the same tick counts as a wrap.
SwitchDueInSameTick == Ticks(clock) <= Ticks(lastTime)

SwitchDue == Ticks(clock) < Ticks(lastTime)

(* prvTimerTask and prvProcessTimerOrBlockTask: with the scheduler         *)
(* suspended, the lists are exchanged if the tick count has wrapped;       *)
(* otherwise the first timer is processed if it has expired; otherwise the *)
(* task waits for that time, the wrap or a command.                        *)
FindWrap ==
    /\ At("look") /\ SwitchDue
    /\ lastTime' = clock
    /\ pc' = "switch" /\ suspended' = TRUE /\ wakeTime' = Never
    /\ UNCHANGED <<clock, lists, xTimerPeriodInTicks, xTimerQueue, freed, command, reload, fault,
                   posts, deleting, promise>>

prvGetNextExpireTime ==
    IF pxCurrentTimerList = <<>> THEN 0 ELSE xItemValue[Head(pxCurrentTimerList)]

FirstExpired == pxCurrentTimerList # <<>> /\ prvGetNextExpireTime <= Ticks(clock)

FindExpired ==
    /\ At("look") /\ ~SwitchDue /\ FirstExpired
    /\ lastTime' = clock
    /\ pc' = "expire" /\ wakeTime' = Never
    /\ UNCHANGED <<clock, lists, xTimerPeriodInTicks, xTimerQueue, freed, suspended, command, reload,
                   fault, posts, deleting, promise>>

\* Mutant: no limit as soon as the current list is empty.
TimeToExpireNoOverflow ==
    IF pxCurrentTimerList = <<>> THEN Never ELSE clock + Ticks(prvGetNextExpireTime - clock)

TimeToExpire ==
    IF pxCurrentTimerList = <<>> /\ pxOverflowTimerList = <<>> THEN Never
    ELSE clock + Ticks(prvGetNextExpireTime - clock)

vQueueWaitForMessageRestricted ==
    /\ At("look") /\ ~SwitchDue /\ ~FirstExpired
    /\ lastTime' = clock
    /\ IF xTimerQueue = <<>> THEN pc' = "blocked" /\ wakeTime' = TimeToExpire
                             ELSE pc' = "commands" /\ wakeTime' = Never
    /\ UNCHANGED <<clock, lists, xTimerPeriodInTicks, xTimerQueue, freed, suspended, command, reload,
                   fault, posts, deleting, promise>>

(* The expired timer leaves the list; one that reloads is inserted again   *)
(* for the next period or, when that is over too, started by a command.    *)
prvProcessExpiredTimer ==
    /\ At("expire")
    /\ LET t == Head(pxCurrentTimerList)
           period == xTimerPeriodInTicks[t]
           expired == xItemValue[t]
           next == Ticks(expired + period)
           now == Ticks(lastTime)
       IN  /\ Call(t)
           /\ \/ /\ t \in AutoReload
                 /\ prvInsertTimerInActiveList(Tail(pxCurrentTimerList), pxOverflowTimerList,
                                               t, next, now, expired, period)
                 /\ IF ProcessTimerNow(next, now, expired, period)
                    THEN Reload(t, TimeAt(expired)) ELSE UNCHANGED <<xTimerQueue, fault>>
              \/ /\ t \notin AutoReload
                 /\ pxCurrentTimerList' = Tail(pxCurrentTimerList)
                 /\ UNCHANGED <<pxOverflowTimerList, xItemValue, xTimerQueue, fault>>
    /\ pc' = "commands"
    /\ UNCHANGED <<clock, xTimerPeriodInTicks, freed, suspended, lastTime, wakeTime, command, reload,
                   posts, deleting, overtaken>>

(* prvSwitchTimerLists: whatever is left in the current list has expired.  *)
SwitchExpire ==
    /\ At("switch") /\ pxCurrentTimerList # <<>>
    /\ LET t == Head(pxCurrentTimerList)
           expired == xItemValue[t]
           next == Ticks(expired + xTimerPeriodInTicks[t])
           again == t \in AutoReload /\ next > expired
       IN  /\ Call(t)
           /\ xItemValue' = [xItemValue EXCEPT ![t] = IF again THEN next ELSE @]
           /\ pxCurrentTimerList' = IF again THEN vListInsert(Tail(pxCurrentTimerList), t, next)
                                             ELSE Tail(pxCurrentTimerList)
           /\ IF t \in AutoReload /\ ~again THEN pc' = "reload" /\ reload' = <<t, TimeAt(expired)>>
                                            ELSE UNCHANGED <<pc, reload>>
    /\ UNCHANGED <<clock, pxOverflowTimerList, xTimerPeriodInTicks, xTimerQueue, freed, suspended,
                   lastTime, wakeTime, command, fault, posts, deleting, overtaken>>

SwitchReload ==
    /\ At("reload")
    /\ Reload(reload[1], reload[2])
    /\ pc' = "switch" /\ reload' = <<NoTimer, 0>>
    /\ UNCHANGED <<clock, lists, xTimerPeriodInTicks, freed, suspended, lastTime, wakeTime, command,
                   posts, deleting, promise>>

SwitchLists ==
    /\ At("switch") /\ pxCurrentTimerList = <<>>
    /\ pxCurrentTimerList' = pxOverflowTimerList /\ pxOverflowTimerList' = pxCurrentTimerList
    /\ pc' = IF suspended THEN "commands" ELSE "act"
    /\ suspended' = FALSE
    /\ UNCHANGED <<clock, xItemValue, xTimerPeriodInTicks, xTimerQueue, freed, lastTime, wakeTime,
                   command, reload, fault, posts, deleting, promise>>

\* Mutant: a timer in the overflow list stays there.
LeaveListIfCurrent(t) ==
    /\ pxCurrentTimerList' = Without(pxCurrentTimerList, t)
    /\ UNCHANGED pxOverflowTimerList

LeaveList(t) ==
    /\ pxCurrentTimerList' = Without(pxCurrentTimerList, t)
    /\ pxOverflowTimerList' = Without(pxOverflowTimerList, t)

(* prvProcessReceivedCommands: every message is taken from the queue; a    *)
(* timer leaves its list before the tick count is read.                    *)
Receive ==
    /\ At("commands")
    /\ \/ /\ xTimerQueue = <<>>
          /\ pc' = "look"
          /\ UNCHANGED <<pxCurrentTimerList, pxOverflowTimerList, xTimerQueue, command, fault, overtaken>>
       \/ /\ xTimerQueue # <<>> /\ Head(xTimerQueue) = Callback
          /\ xTimerQueue' = Tail(xTimerQueue)
          /\ UNCHANGED <<pxCurrentTimerList, pxOverflowTimerList, pc, command, fault, overtaken>>
       \/ /\ xTimerQueue # <<>> /\ Head(xTimerQueue) # Callback
          /\ LET message == Head(xTimerQueue)
                 t == message.timer
             IN  /\ LeaveList(t)
                 /\ command' = message
                 /\ fault' = IF t \in freed THEN "freed memory" ELSE fault
                 /\ overtaken' = IF message.id # "START_DONT_TRACE" /\ ReloadQueued(t)
                                 THEN overtaken \union {t} ELSE overtaken
          /\ xTimerQueue' = Tail(xTimerQueue)
          /\ pc' = "sample"
    /\ UNCHANGED <<clock, xItemValue, xTimerPeriodInTicks, freed, suspended, lastTime, wakeTime,
                   reload, posts, deleting, due>>

prvSampleTimeNow ==
    /\ At("sample")
    /\ lastTime' = clock
    /\ pc' = IF SwitchDue THEN "switch" ELSE "act"
    /\ UNCHANGED <<clock, lists, xTimerPeriodInTicks, xTimerQueue, freed, suspended, wakeTime, command,
                   reload, fault, posts, deleting, promise>>

ActOnStart ==
    /\ At("act") /\ command.id \in StartCommands
    /\ LET t == command.timer
           period == xTimerPeriodInTicks[t]
           expiry == Ticks(command.at + period)
       IN  /\ prvInsertTimerInActiveList(pxCurrentTimerList, pxOverflowTimerList, t, expiry,
                                         Ticks(lastTime), Ticks(command.at), period)
           /\ IF ProcessTimerNow(expiry, Ticks(lastTime), Ticks(command.at), period)
              THEN pc' = "call" /\ UNCHANGED command
              ELSE pc' = "commands" /\ command' = NoCommand
           /\ due' = IF command.id = "START" THEN [due EXCEPT ![t] = command.at + period] ELSE due
    /\ UNCHANGED <<clock, xTimerPeriodInTicks, xTimerQueue, freed, suspended, lastTime, wakeTime,
                   reload, fault, posts, deleting, overtaken>>

(* The timer had expired before it was inserted: its callback comes first, *)
(* the command for the next period after it.                               *)
StartExpired ==
    /\ At("call")
    /\ Call(command.timer)
    /\ IF command.timer \in AutoReload
       THEN /\ pc' = "restart"
            /\ reload' = <<command.timer, command.at + xTimerPeriodInTicks[command.timer]>>
       ELSE pc' = "commands" /\ UNCHANGED reload
    /\ command' = NoCommand
    /\ UNCHANGED <<clock, lists, xTimerPeriodInTicks, xTimerQueue, freed, suspended, lastTime, wakeTime,
                   fault, posts, deleting, overtaken>>

StartReload ==
    /\ At("restart")
    /\ Reload(reload[1], reload[2])
    /\ pc' = "commands" /\ reload' = <<NoTimer, 0>>
    /\ UNCHANGED <<clock, lists, xTimerPeriodInTicks, freed, suspended, lastTime, wakeTime, command,
                   posts, deleting, promise>>

\* STOP has nothing left to do; DELETE gives the memory back.
ActOnStop ==
    /\ At("act") /\ command.id \in {"STOP", "DELETE"}
    /\ freed' = IF command.id = "DELETE" THEN freed \union {command.timer} ELSE freed
    /\ due' = [due EXCEPT ![command.timer] = Stopped]
    /\ pc' = "commands" /\ command' = NoCommand
    /\ UNCHANGED <<clock, lists, xTimerPeriodInTicks, xTimerQueue, suspended, lastTime, wakeTime,
                   reload, fault, posts, deleting, overtaken>>

\* A new period counts from the time at which the command is processed.
ActOnChangePeriod ==
    /\ At("act") /\ command.id = "CHANGE_PERIOD"
    /\ LET t == command.timer
           now == Ticks(lastTime)
       IN  /\ xTimerPeriodInTicks' = [xTimerPeriodInTicks EXCEPT ![t] = command.period]
           /\ prvInsertTimerInActiveList(pxCurrentTimerList, pxOverflowTimerList, t,
                                         Ticks(now + command.period), now, now, command.period)
           /\ due' = [due EXCEPT ![t] = lastTime + command.period]
    /\ pc' = "commands" /\ command' = NoCommand
    /\ UNCHANGED <<clock, xTimerQueue, freed, suspended, lastTime, wakeTime, reload, fault, posts,
                   deleting, overtaken>>

prvTimerTask ==
    \/ FindWrap \/ FindExpired \/ vQueueWaitForMessageRestricted \/ prvProcessExpiredTimer
    \/ SwitchExpire \/ SwitchReload \/ SwitchLists \/ Receive \/ prvSampleTimeNow \/ ActOnStart
    \/ StartExpired \/ StartReload \/ ActOnStop \/ ActOnChangePeriod

Post == \/ \E t \in Timer : xTimerStart(t) \/ xTimerStop(t) \/ xTimerChangePeriod(t) \/ xTimerDelete(t)
        \/ xTimerPendFunctionCall

Next == xTaskIncrementTick \/ Post \/ prvTimerTask

Spec == Init /\ [][Next]_vars

-----------------------------------------------------------------------------
(* Every variable has its type; a timer is at most once in the lists, and  *)
(* not while a command is acting on it or its memory is free.              *)
TypeOK ==
    /\ clock \in FirstTick..MaxClock /\ lastTime \in 0..clock
    /\ xItemValue \in [Timer -> 0..(TickModulus - 1)]
    /\ xTimerPeriodInTicks \in [Timer -> Period]
    /\ {pxCurrentTimerList, pxOverflowTimerList} \subseteq Seq(Timer)
    /\ IsInjective(pxCurrentTimerList) /\ IsInjective(pxOverflowTimerList)
    /\ \A t \in Timer : Contains(pxCurrentTimerList, t) => ~Contains(pxOverflowTimerList, t)
    /\ \A t \in Timer : Listed(t) => t # command.timer /\ t \notin freed
    /\ xTimerQueue \in Seq(Message \union {Callback}) /\ Len(xTimerQueue) <= QueueLength
    /\ command \in Message \union {NoCommand}
    /\ pc \in {"look", "blocked", "expire", "switch", "reload", "commands", "sample", "act",
               "call", "restart"}
    /\ suspended \in BOOLEAN /\ (suspended => pc \in {"switch", "reload"})
    /\ fault \in {"none", "configASSERT", "freed memory"}
    /\ freed \subseteq deleting /\ deleting \subseteq Timer /\ overtaken \subseteq Timer
    /\ wakeTime \in Nat \union {Never}
    /\ reload \in (Timer \union {NoTimer}) \X Nat
    /\ due \in [Timer -> Nat \union {Stopped}]

Expired(t) == due[t] # Stopped /\ due[t] <= clock

(* No callback is called early, twice for a period, or after the timer has *)
(* stopped: when the timer task comes to a call, the tick that ends the    *)
(* period promised has been counted, however late the timer task is and    *)
(* whether or not the tick count has wrapped since.                        *)
(* (prvInsertTimerInActiveList, prvSwitchTimerLists)                       *)
AboutToCall(t) ==
    \/ pc \in {"expire", "switch"} /\ pxCurrentTimerList # <<>> /\ Head(pxCurrentTimerList) = t
    \/ pc = "call" /\ command.timer = t
CalledWhenDue == \A t \in Timer \ overtaken : AboutToCall(t) => Expired(t)

(* Between commands, the timers that are to expire are those in the lists, *)
(* with the value their time has modulo TickModulus, in the overflow list  *)
(* just if the tick count has yet to wrap before, and those for which a    *)
(* START_DONT_TRACE is queued.  (prvInsertTimerInActiveList, timers.c:683) *)
Epoch(time) == time \div TickModulus
ListedWhenDue ==
    At("look") \/ At("blocked") =>
        \A t \in Timer \ overtaken :
            IF ReloadQueued(t) THEN ~Listed(t) /\ due[t] # Stopped
            ELSE /\ Listed(t) <=> due[t] # Stopped
                 /\ Listed(t) =>
                        /\ xItemValue[t] = Ticks(due[t])
                        /\ Contains(pxCurrentTimerList, t) <=> Epoch(due[t]) <= Epoch(lastTime)

(* A timer whose time has come is called, unless the system has stopped: a *)
(* task that waits is woken by the tick, even when the time comes after a  *)
(* wrap and the current list is empty.  (prvProcessTimerOrBlockTask)       *)
ExpiredAreCalled ==
    \A t \in Timer : Expired(t) ~> (~Expired(t) \/ fault # "none" \/ t \in overtaken)

(* "Stopping a timer ensures the timer is not in the active state."        *)
(* (timers.h:561)  Whenever the timer task has processed all commands, a   *)
(* timer that has been stopped, and not started since, is in no list.      *)
StoppedIsInactive ==
    \A t \in Timer : At("look") /\ due[t] = Stopped => ~Listed(t)
=============================================================================
