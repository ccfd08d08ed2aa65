--------------------------- MODULE PosixBackground ---------------------------
(* The background thread of util/env_posix.cc: threads hand it work items      *)
(* through a queue, a mutex and a condition variable.                          *)
EXTENDS Integers, Sequences

CONSTANTS
    Schedulers,    \* threads that call Schedule
    MaxItems       \* bound: the work items of a behaviour

\* Who has the mutex is named by the scheduler
ASSUME SchedulersAreNeither == {"free", "thread"} \cap Schedulers = {}

VARIABLES
    queue,     \* background_work_queue_
    started,   \* started_background_thread_
    thread,    \* where the background thread is
    mutex,     \* background_work_mutex_: who has it, or "free"
    calls,     \* where each scheduler is in Schedule
    count,     \* items scheduled so far
    ran        \* the items run, in order

backgroundVars == <<queue, started, thread, mutex, calls, count, ran>>

-----------------------------------------------------------------------------
(* Schedule.                                                                   *)

LockToSchedule(s) ==
    /\ calls[s] = "idle" /\ mutex = "free" /\ count < MaxItems
    /\ mutex' = s /\ calls' = [calls EXCEPT ![s] = "locked"]
    /\ UNCHANGED <<queue, started, thread, count, ran>>

StartThread(s) ==
    /\ calls[s] = "locked"
    /\ IF started THEN UNCHANGED <<started, thread>>
       ELSE started' = TRUE /\ thread' = "lock"
    /\ calls' = [calls EXCEPT ![s] = "signal"]
    /\ UNCHANGED <<queue, mutex, count, ran>>

\* Mutant of Signal: only a second item signals.
SignalIfMore(s) ==
    /\ calls[s] = "signal"
    /\ thread' = (IF queue # <<>> /\ thread = "waiting" THEN "lock" ELSE thread)
    /\ calls' = [calls EXCEPT ![s] = "push"]
    /\ UNCHANGED <<queue, started, mutex, count, ran>>

\* The signal comes before the item, while the mutex is held
Signal(s) ==
    /\ calls[s] = "signal"
    /\ thread' = (IF queue = <<>> /\ thread = "waiting" THEN "lock" ELSE thread)
    /\ calls' = [calls EXCEPT ![s] = "push"]
    /\ UNCHANGED <<queue, started, mutex, count, ran>>

Push(s) ==
    /\ calls[s] = "push"
    /\ queue' = Append(queue, count + 1) /\ count' = count + 1
    /\ mutex' = "free" /\ calls' = [calls EXCEPT ![s] = "idle"]
    /\ UNCHANGED <<started, thread, ran>>

-----------------------------------------------------------------------------
(* BackgroundThreadMain.                                                       *)

LockToWork ==
    /\ thread = "lock" /\ mutex = "free"
    /\ mutex' = "thread" /\ thread' = "test"
    /\ UNCHANGED <<queue, started, calls, count, ran>>
\* Wait gives up the mutex; it may return without a signal
Wait ==
    /\ thread = "test" /\ queue = <<>>
    /\ mutex' = "free" /\ thread' = "waiting"
    /\ UNCHANGED <<queue, started, calls, count, ran>>
WakesUp ==
    /\ thread = "waiting"
    /\ thread' = "lock"
    /\ UNCHANGED <<queue, started, mutex, calls, count, ran>>
Pop ==
    /\ thread = "test" /\ queue # <<>>
    /\ thread' = "running" /\ ran' = Append(ran, Head(queue)) /\ queue' = Tail(queue)
    /\ mutex' = "free"
    /\ UNCHANGED <<started, calls, count>>
\* The work item runs without the mutex, and returns
WorkReturns ==
    /\ thread = "running"
    /\ thread' = "lock"
    /\ UNCHANGED <<queue, started, mutex, calls, count, ran>>

-----------------------------------------------------------------------------

BackgroundInit ==
    /\ queue = <<>> /\ started = FALSE /\ thread = "none" /\ mutex = "free"
    /\ calls = [s \in Schedulers |-> "idle"]
    /\ count = 0 /\ ran = <<>>

BackgroundNext ==
    \/ \E s \in Schedulers : LockToSchedule(s) \/ StartThread(s) \/ Signal(s) \/ Push(s)
    \/ LockToWork \/ Wait \/ WakesUp \/ Pop \/ WorkReturns

BackgroundSpec == BackgroundInit /\ [][BackgroundNext]_backgroundVars

-----------------------------------------------------------------------------
(* Properties.                                                                 *)

\* No wake-up is lost: while an item is queued the background thread exists and is not
\* asleep, although only the item that finds the queue empty signals; and every item
\* runs once, in the order of the calls (Schedule, BackgroundThreadMain).
WorkIsTaken ==
    /\ mutex = "free" /\ queue # <<>> => thread \in {"lock", "running"}
    /\ ran \o queue = [i \in 1 .. count |-> i]

=============================================================================
