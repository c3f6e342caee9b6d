------------------------------ MODULE Scheduler ------------------------------
(***************************************************************************)
(* CScheduler (scheduler.cpp): threads that run tasks when their time has  *)
(* come. A step of a thread is what it does while it holds newTaskMutex,   *)
(* or one that needs no lock: a task that runs, or a notification.         *)
(*                                                                         *)
(* The condition variable may wake any one of the threads that wait, or    *)
(* wake one for no reason. A thread whose wait is over, notified or timed  *)
(* out, still has to get the lock, and others may get it before.           *)
(***************************************************************************)
EXTENDS Naturals, FiniteSets

CONSTANTS Thread, Task, None,
          MaxTime,         \* the clock stops there
          Settings         \* the threads, tasks and way to stop of an instance

\* after: how long after now a task is to run. every: how long after a run it
\* repeats (scheduleEvery), or 0.
ASSUME SchedulerAssumption ==
    /\ MaxTime \in Nat
    /\ IsFiniteSet(Thread)
    /\ \A s \in Settings : /\ s.threads \subseteq Thread /\ s.threads # {} /\ s.tasks \subseteq Task
                           /\ s.after \in [s.tasks -> Nat] /\ s.every \in [s.tasks -> Nat]
                           /\ s.stop \in {"never", "drain", "now", "interrupt"}

VARIABLES setting,
          now,
          taskQueue,       \* entries [at, task]; the order of entries of one time is left open
          pc,              \* of each thread: see PC
          deadline,        \* of each thread that waits with a limit: until when
          current,         \* of each thread that runs a task: its entry
          nThreadsServicingQueue, stopRequested, stopWhenEmpty,
          interrupted,     \* threadGroup.interrupt_all() was called
          client,          \* the thread that schedules: "ready", in "schedule" or in "stop" before the notification, or "done"
          given            \* the tasks that it has scheduled

vars == <<setting, now, taskQueue, pc, deadline, current, nThreadsServicingQueue, stopRequested, stopWhenEmpty,
          interrupted, client, given>>
stops == <<stopRequested, stopWhenEmpty, interrupted>>
outside == <<setting, now, client, given>>

\* "new" and "out": before and after serviceQueue. "idle" waits for a task,
\* "timed" for the time of one; "woken" and "late" have been notified and timed
\* out. "running" calls the task, "added" has put it in the queue again and not
\* yet notified, and "back" has to lock again.
PC == {"new", "idle", "timed", "woken", "late", "running", "added", "back", "out"}

First == {e \in taskQueue : \A f \in taskQueue : e.at <= f.at}

\* newTaskScheduled.notify_one() and notify_all(), on the positions p.
Waiting(p) == {t \in Thread : p[t] \in {"idle", "timed"}}
NotifyOne(p) == IF Waiting(p) = {} THEN {p} ELSE {[p EXCEPT ![t] = "woken"] : t \in Waiting(p)}
NotifyAll(p) == [t \in Thread |-> IF t \in Waiting(p) THEN "woken" ELSE p[t]]

-----------------------------------------------------------------------------
Init == /\ setting \in Settings
        /\ now = 0 /\ taskQueue = {}
        /\ pc = [t \in Thread |-> "new"]
        /\ deadline = [t \in Thread |-> 0]
        /\ current = [t \in Thread |-> None]
        /\ nThreadsServicingQueue = 0
        /\ stopRequested = FALSE /\ stopWhenEmpty = FALSE /\ interrupted = FALSE
        /\ client = "ready" /\ given = {}

\* Mutant: draining threads do not wait for the queue to be empty.
ShouldStopAtOnce == stopRequested \/ stopWhenEmpty

ShouldStop == stopRequested \/ (stopWhenEmpty /\ taskQueue = {})

\* A thread moves on to the position v and then notifies.
NotifiesAt(t, v) == pc' \in NotifyOne([pc EXCEPT ![t] = v])

\* From the head of the loop, with n threads in it, a thread gets out of it, or
\* to one of the waits.
Leave(t, n) ==
    /\ ShouldStop
    /\ nThreadsServicingQueue' = n - 1
    /\ NotifiesAt(t, "out")
    /\ UNCHANGED <<taskQueue, deadline, current>>

Wait(t, n) ==
    /\ ~ShouldStop /\ taskQueue = {}
    /\ nThreadsServicingQueue' = n
    /\ pc' = [pc EXCEPT ![t] = "idle"]
    /\ UNCHANGED <<taskQueue, deadline, current>>

WaitUntil(t, n) ==
    /\ ~ShouldStop
    /\ nThreadsServicingQueue' = n
    /\ \E e \in First : deadline' = [deadline EXCEPT ![t] = e.at]
    /\ pc' = [pc EXCEPT ![t] = "timed"]
    /\ UNCHANGED <<taskQueue, current>>

Turn(t, n) == Leave(t, n) \/ Wait(t, n) \/ WaitUntil(t, n)

Enter(t) == /\ t \in setting.threads /\ pc[t] = "new"
            /\ Turn(t, nThreadsServicingQueue + 1)
            /\ UNCHANGED <<outside, stops>>

\* The wait is over for no reason, and not by its limit.
Wakes(t) == /\ ~interrupted
            /\ pc[t] = "idle" \/ (pc[t] = "timed" /\ deadline[t] > now)
            /\ pc' = [pc EXCEPT ![t] = "woken"]
            /\ UNCHANGED <<outside, taskQueue, deadline, current, nThreadsServicingQueue, stops>>

TimesOut(t) == /\ pc[t] = "timed" /\ deadline[t] <= now
               /\ pc' = [pc EXCEPT ![t] = "late"]
               /\ deadline' = [deadline EXCEPT ![t] = 0]
               /\ UNCHANGED <<outside, taskQueue, current, nThreadsServicingQueue, stops>>

\* The first task leaves the queue, and is called without the lock.
Take(t, n) ==
    /\ ~ShouldStop
    /\ \E e \in First : taskQueue' = taskQueue \ {e} /\ current' = [current EXCEPT ![t] = e]
    /\ pc' = [pc EXCEPT ![t] = "running"]
    /\ nThreadsServicingQueue' = n
    /\ UNCHANGED deadline

\* Mutant: a notification ends the wait as its limit does.
ResumeTaking(t) == /\ pc[t] \in {"woken", "back"}
                   /\ LET n == nThreadsServicingQueue IN Leave(t, n) \/ Wait(t, n) \/ Take(t, n)
                   /\ UNCHANGED <<outside, stops>>

Resume(t) == /\ pc[t] \in {"woken", "back"}
             /\ Turn(t, nThreadsServicingQueue)
             /\ UNCHANGED <<outside, stops>>

\* After the limit of the wait: the queue may have changed meanwhile.
Service(t) == /\ pc[t] = "late"
              /\ LET n == nThreadsServicingQueue IN Leave(t, n) \/ Wait(t, n) \/ Take(t, n)
              /\ UNCHANGED <<outside, stops>>

\* The task returns, or it is Repeat, which schedules itself first.
Runs(t) ==
    /\ pc[t] = "running"
    /\ LET k == current[t].task
       IN  IF setting.every[k] = 0
           THEN pc' = [pc EXCEPT ![t] = "back"] /\ UNCHANGED taskQueue
           ELSE /\ taskQueue' = taskQueue \cup {[at |-> now + setting.every[k], task |-> k]}
                /\ pc' = [pc EXCEPT ![t] = "added"]
    /\ current' = [current EXCEPT ![t] = None]
    /\ UNCHANGED <<outside, deadline, nThreadsServicingQueue, stops>>

Renotifies(t) == /\ pc[t] = "added"
                 /\ NotifiesAt(t, "back")
                 /\ UNCHANGED <<outside, taskQueue, deadline, current, nThreadsServicingQueue, stops>>

\* boost::thread_interrupted, from a wait or from the task.
Interrupted(t) == /\ interrupted /\ pc[t] \in {"idle", "timed", "woken", "late", "running"}
                  /\ nThreadsServicingQueue' = nThreadsServicingQueue - 1
                  /\ pc' = [pc EXCEPT ![t] = "out"]
                  /\ UNCHANGED <<outside, taskQueue, deadline, current, stops>>

-----------------------------------------------------------------------------
\* The thread that owns the scheduler.

Schedule(k) ==
    /\ client = "ready" /\ k \in setting.tasks \ given
    /\ taskQueue' = taskQueue \cup {[at |-> now + setting.after[k], task |-> k]}
    /\ given' = given \cup {k}
    /\ client' = "schedule"
    /\ UNCHANGED <<setting, now, pc, deadline, current, nThreadsServicingQueue, stops>>

\* Mutant: the threads that wait are not told of the task.
ScheduledSilently ==
    /\ client = "schedule" /\ client' = "ready"
    /\ UNCHANGED <<setting, now, taskQueue, pc, deadline, current, nThreadsServicingQueue, stops, given>>

Scheduled ==
    /\ client = "schedule" /\ client' = "ready"
    /\ pc' \in NotifyOne(pc)
    /\ UNCHANGED <<setting, now, taskQueue, deadline, current, nThreadsServicingQueue, stops, given>>

Stop ==
    /\ client = "ready" /\ setting.stop \in {"drain", "now"}
    /\ client' = "stop"
    /\ stopWhenEmpty' = (stopWhenEmpty \/ setting.stop = "drain")
    /\ stopRequested' = (stopRequested \/ setting.stop = "now")
    /\ UNCHANGED <<setting, now, taskQueue, pc, deadline, current, nThreadsServicingQueue, interrupted, given>>

\* Mutant: the threads that wait are not told.
StoppedSilently ==
    /\ client = "stop" /\ client' = "done"
    /\ UNCHANGED <<setting, now, taskQueue, pc, deadline, current, nThreadsServicingQueue, stops, given>>

Stopped ==
    /\ client = "stop" /\ client' = "done"
    /\ pc' = NotifyAll(pc)
    /\ UNCHANGED <<setting, now, taskQueue, deadline, current, nThreadsServicingQueue, stops, given>>

Interrupt ==
    /\ client = "ready" /\ setting.stop = "interrupt"
    /\ client' = "done" /\ interrupted' = TRUE
    /\ UNCHANGED <<setting, now, taskQueue, pc, deadline, current, nThreadsServicingQueue, stopRequested, stopWhenEmpty, given>>

Tick == /\ now < MaxTime /\ now' = now + 1
        /\ UNCHANGED <<setting, taskQueue, pc, deadline, current, nThreadsServicingQueue, stops, client, given>>

Works(t) == \/ Enter(t) \/ TimesOut(t) \/ Resume(t) \/ Service(t) \/ Runs(t) \/ Renotifies(t) \/ Interrupted(t)

Next == \/ \E t \in Thread : Works(t) \/ Wakes(t)
        \/ \E k \in setting.tasks : Schedule(k)
        \/ Scheduled \/ Stop \/ Stopped \/ Interrupt \/ Tick

\* The lock is given to every thread that wants it, tasks return, time goes on
\* and the owner of the scheduler goes on to the notification.
Fairness == WF_vars(Tick) /\ WF_vars(Scheduled \/ Stopped) /\ \A t \in Thread : WF_vars(Works(t))

Spec == Init /\ [][Next]_vars /\ Fairness
-----------------------------------------------------------------------------
\* Properties.

\* The destructor asserts that nThreadsServicingQueue is 0: it counts the
\* threads in serviceQueue, however they leave it.
Serving == {t \in Thread : pc[t] \notin {"new", "out"}}
ThreadsCounted == nThreadsServicingQueue = Cardinality(Serving)

\* The notification of each task goes to one thread, which may be any, and a
\* thread that takes a task tells nobody of the next one. Still some thread
\* looks at the queue in time for its first task: one waits until then or less,
\* or will look without being told, or is about to be told.
InCharge(t) == \/ pc[t] \in {"woken", "late", "running", "added", "back"}
               \/ pc[t] = "timed" /\ \A e \in taskQueue : deadline[t] <= e.at
NoWakeupLost == /\ taskQueue # {} /\ Serving # {}
                /\ client \notin {"schedule", "stop"} /\ ~interrupted /\ ~stopRequested
                => \E t \in Thread : InCharge(t)

\* "or when there is no work left to be done (drain=true)": the threads of a
\* scheduler that drains leave no task behind, not even one that a task adds
\* while others leave.
Drained == setting.stop = "drain" /\ client = "done" /\ (\A t \in setting.threads : pc[t] = "out") => taskQueue = {}

\* "Call func at/after time t": the one thread that the node starts for its
\* scheduler never calls a task before its time.
Starts(t) == pc[t] # "running" /\ pc'[t] = "running"
AtOrAfter == \A t \in Thread : Starts(t) => current'[t].at <= now
OneThreadIsNotEarly == [][Cardinality(setting.threads) = 1 => AtOrAfter]_vars

\* Every task that is scheduled is run, and again if it repeats, unless the
\* scheduler is stopped first.
EveryTaskRuns ==
    \A k \in Task : ((\E e \in taskQueue : e.task = k /\ e.at <= MaxTime) /\ setting.stop \in {"never", "drain"})
                    ~> (\E t \in Thread : pc[t] = "running" /\ current[t].task = k)

\* After stop(), drained or not, and after an interruption all threads leave
\* serviceQueue, so that they can be joined.
StopEnds == (client = "done" /\ \A e \in taskQueue : e.at <= MaxTime) ~> \A t \in setting.threads : pc[t] = "out"
=============================================================================
