--------------------------- MODULE SchedulerProofs ---------------------------
(***************************************************************************)
(* For every set of threads, tasks and times: no wakeup of the scheduler   *)
(* is lost, draining leaves no task behind, and a scheduler with one       *)
(* thread calls no task before its time.                                   *)
(***************************************************************************)
EXTENDS Scheduler, FiniteSetTheorems, TLAPS

TypeOK ==
    /\ setting \in Settings
    /\ now \in Nat
    /\ \A e \in taskQueue : e.at \in Nat /\ e.task \in setting.tasks
    /\ pc \in [Thread -> PC]
    /\ deadline \in [Thread -> Nat]
    /\ current = [t \in Thread |-> current[t]]
    /\ \A t \in Thread : pc[t] = "running" => current[t].task \in setting.tasks
    /\ client \in {"ready", "schedule", "stop", "done"}
    /\ stopRequested \in BOOLEAN /\ stopWhenEmpty \in BOOLEAN /\ interrupted \in BOOLEAN

\* Before the owner stops the scheduler no flag is set, and then only the one of
\* its way to stop.
FlagsFollow ==
    /\ client \in {"ready", "schedule"} => ~stopRequested /\ ~stopWhenEmpty /\ ~interrupted
    /\ setting.stop = "drain" => ~stopRequested /\ ~interrupted

\* Once all threads are out of a scheduler that drains, it has been stopped.
DrainedByThreads ==
    setting.stop = "drain" /\ (\A t \in setting.threads : pc[t] = "out")
    => taskQueue = {} /\ client \in {"stop", "done"}

\* The entry that a thread waits for stays in the queue if there is no other
\* thread to take it.
OwnEntryStays ==
    Cardinality(setting.threads) = 1 =>
       \A t \in setting.threads :
          /\ pc[t] = "timed" => \E e \in taskQueue : e.at <= deadline[t]
          /\ pc[t] = "late" => \E e \in taskQueue : e.at <= now

OthersAreNew == \A t \in Thread \ setting.threads : pc[t] = "new"

IInv == TypeOK /\ FlagsFollow /\ DrainedByThreads /\ OwnEntryStays /\ OthersAreNew /\ NoWakeupLost /\ ThreadsCounted

-----------------------------------------------------------------------------
\* A notification changes the position of threads that wait, and of one at
\* least if there is one (newTaskScheduled.notify_one).
LEMMA Notified ==
    ASSUME NEW p \in [Thread -> PC], NEW q \in NotifyOne(p)
    PROVE  /\ q \in [Thread -> PC]
           /\ \A t \in Thread : q[t] = p[t] \/ (p[t] \in {"idle", "timed"} /\ q[t] = "woken")
           /\ Waiting(p) # {} => \E t \in Thread : q[t] = "woken"
BY DEF NotifyOne, Waiting, PC

\* The same when a thread moves on to v and then notifies.
LEMMA MovesAndNotifies ==
    ASSUME TypeOK, NEW t \in Thread, NEW v \in PC \ {"idle", "timed"}, NotifiesAt(t, v)
    PROVE  /\ pc' \in [Thread -> PC]
           /\ pc'[t] = v
           /\ \A u \in Thread \ {t} : pc'[u] = pc[u] \/ (pc[u] \in {"idle", "timed"} /\ pc'[u] = "woken")
<1> DEFINE r == [pc EXCEPT ![t] = v]
<1>1. r \in [Thread -> PC] /\ r[t] = v /\ \A u \in Thread \ {t} : r[u] = pc[u]
  BY DEF TypeOK
<1>2. pc' \in NotifyOne(r)
  BY DEF NotifiesAt
<1> HIDE DEF r
<1>3. /\ pc' \in [Thread -> PC]
      /\ \A u \in Thread : pc'[u] = r[u] \/ (r[u] \in {"idle", "timed"} /\ pc'[u] = "woken")
  BY <1>1, <1>2, Notified
<1> QED BY <1>1, <1>3

LEMMA InitIInv == ASSUME Init PROVE IInv
<1>1. setting.threads # {} /\ setting.threads \subseteq Thread
  BY SchedulerAssumption DEF Init
<1>2. TypeOK /\ FlagsFollow /\ OthersAreNew /\ NoWakeupLost
  BY DEF Init, TypeOK, PC, FlagsFollow, OthersAreNew, NoWakeupLost
<1>4. ThreadsCounted
  <2>1. Serving = {} BY DEF Init, Serving
  <2> QED BY <2>1, FS_EmptySet DEF Init, ThreadsCounted
<1>3. DrainedByThreads /\ OwnEntryStays
  BY <1>1 DEF Init, DrainedByThreads, OwnEntryStays
<1> QED BY <1>2, <1>3, <1>4 DEF IInv

\* A thread at the head of the loop: what it does to positions and queue.
LEMMA TurnTypes ==
    ASSUME TypeOK, NEW t \in Thread, NEW n, Turn(t, n) \/ Take(t, n)
    PROVE  /\ pc' \in [Thread -> PC] /\ deadline' \in [Thread -> Nat]
           /\ current' = [u \in Thread |-> current'[u]]
           /\ \A u \in Thread : pc'[u] = "running" => current'[u].task \in setting.tasks
           /\ taskQueue' \subseteq taskQueue
<1>1. CASE Leave(t, n)
  <2>1. "out" \in PC \ {"idle", "timed"} BY DEF PC
  <2>2. NotifiesAt(t, "out") BY <1>1 DEF Leave
  <2>3. /\ pc' \in [Thread -> PC] /\ pc'[t] = "out"
        /\ \A u \in Thread \ {t} : pc'[u] = pc[u] \/ (pc[u] \in {"idle", "timed"} /\ pc'[u] = "woken")
    BY <2>1, <2>2, MovesAndNotifies
  <2> QED BY <1>1, <2>3 DEF Leave, TypeOK
<1>2. CASE Wait(t, n) BY <1>2 DEF Wait, TypeOK, PC
<1>3. CASE WaitUntil(t, n) BY <1>3 DEF WaitUntil, First, TypeOK, PC
<1>4. CASE Take(t, n) BY <1>4 DEF Take, First, TypeOK, PC
<1> QED BY <1>1, <1>2, <1>3, <1>4 DEF Turn

LEMMA NextKeepsType == ASSUME TypeOK, Next PROVE TypeOK'
<1>1. ASSUME NEW t \in Thread, Enter(t) PROVE TypeOK'
  BY <1>1, TurnTypes DEF Enter, TypeOK, outside, stops
<1>2. ASSUME NEW t \in Thread, Wakes(t) PROVE TypeOK'
  BY <1>2 DEF Wakes, TypeOK, outside, stops, PC
<1>3. ASSUME NEW t \in Thread, TimesOut(t) PROVE TypeOK'
  BY <1>3 DEF TimesOut, TypeOK, outside, stops, PC
<1>4. ASSUME NEW t \in Thread, Resume(t) PROVE TypeOK'
  BY <1>4, TurnTypes DEF Resume, TypeOK, outside, stops
<1>5. ASSUME NEW t \in Thread, Service(t) PROVE TypeOK'
  BY <1>5, TurnTypes DEF Service, Turn, TypeOK, outside, stops
<1>6. ASSUME NEW t \in Thread, Runs(t) PROVE TypeOK'
  <2>1. setting.every[current[t].task] \in Nat BY <1>6, SchedulerAssumption DEF Runs, TypeOK
  <2> QED BY <1>6, <2>1 DEF Runs, TypeOK, outside, stops, PC
<1>7. ASSUME NEW t \in Thread, Renotifies(t) PROVE TypeOK'
  <2>1. "back" \in PC \ {"idle", "timed"} BY DEF PC
  <2>2. NotifiesAt(t, "back") BY <1>7 DEF Renotifies
  <2>3. /\ pc' \in [Thread -> PC] /\ pc'[t] = "back"
        /\ \A u \in Thread \ {t} : pc'[u] = pc[u] \/ (pc[u] \in {"idle", "timed"} /\ pc'[u] = "woken")
    BY <2>1, <2>2, MovesAndNotifies
  <2> QED BY <1>7, <2>3 DEF Renotifies, TypeOK, outside, stops
<1>8. ASSUME NEW t \in Thread, Interrupted(t) PROVE TypeOK'
  BY <1>8 DEF Interrupted, TypeOK, outside, stops, PC
<1>9. ASSUME NEW k \in setting.tasks, Schedule(k) PROVE TypeOK'
  BY <1>9, SchedulerAssumption DEF Schedule, TypeOK, stops
<1>10. CASE Scheduled BY <1>10, Notified DEF Scheduled, TypeOK, stops
<1>11. CASE Stop BY <1>11 DEF Stop, TypeOK
<1>12. CASE Stopped
  <2>1. NotifyAll(pc) \in [Thread -> PC] /\ \A t \in Thread : NotifyAll(pc)[t] = "running" => pc[t] = "running"
    BY DEF NotifyAll, Waiting, TypeOK, PC
  <2> QED BY <1>12, <2>1 DEF Stopped, TypeOK, stops
<1>13. CASE Interrupt BY <1>13 DEF Interrupt, TypeOK
<1>14. CASE Tick BY <1>14 DEF Tick, TypeOK, stops
<1> QED BY <1>1, <1>2, <1>3, <1>4, <1>5, <1>6, <1>7, <1>8, <1>9, <1>10, <1>11, <1>12, <1>13, <1>14 DEF Next, Works

-----------------------------------------------------------------------------
\* The positions of threads before and after a step, as far as the invariant
\* looks at them.
LEMMA NextKeepsFlags == ASSUME TypeOK, FlagsFollow, Next PROVE FlagsFollow'
<1>1. ASSUME NEW t \in Thread, Works(t) \/ Wakes(t) PROVE UNCHANGED <<outside, stops>>
  BY <1>1 DEF Works, Enter, Wakes, TimesOut, Resume, Service, Runs, Renotifies, Interrupted
<1>2. CASE UNCHANGED <<outside, stops>> BY <1>2 DEF FlagsFollow, outside, stops
<1>3. ASSUME NEW k \in setting.tasks, Schedule(k) PROVE FlagsFollow' BY <1>3 DEF Schedule, FlagsFollow, stops
<1>4. CASE Scheduled BY <1>4 DEF Scheduled, FlagsFollow, stops
<1>5. CASE Stop BY <1>5 DEF Stop, FlagsFollow
<1>6. CASE Stopped BY <1>6 DEF Stopped, FlagsFollow, stops
<1>7. CASE Interrupt BY <1>7 DEF Interrupt, FlagsFollow
<1>8. CASE Tick BY <1>8 DEF Tick, FlagsFollow, stops
<1> QED BY <1>1, <1>2, <1>3, <1>4, <1>5, <1>6, <1>7, <1>8 DEF Next

\* Threads that the instance does not start stay where they are, and a thread
\* that leaves a scheduler that drains has seen an empty queue.
LEMMA TurnLeaves ==
    ASSUME TypeOK, NEW t \in Thread, NEW n, Turn(t, n) \/ Take(t, n)
    PROVE  /\ \A u \in Thread \ {t} : pc'[u] = pc[u] \/ (pc[u] \in {"idle", "timed"} /\ pc'[u] = "woken")
           /\ pc'[t] = "out" => ShouldStop /\ taskQueue' = taskQueue
           /\ pc'[t] \in {"idle", "timed", "running", "out"}
           /\ pc'[t] # "out" => ~ShouldStop
<1>1. CASE Leave(t, n)
  <2>1. "out" \in PC \ {"idle", "timed"} BY DEF PC
  <2>2. NotifiesAt(t, "out") BY <1>1 DEF Leave
  <2>3. /\ pc' \in [Thread -> PC] /\ pc'[t] = "out"
        /\ \A u \in Thread \ {t} : pc'[u] = pc[u] \/ (pc[u] \in {"idle", "timed"} /\ pc'[u] = "woken")
    BY <2>1, <2>2, MovesAndNotifies
  <2> QED BY <1>1, <2>3 DEF Leave, TypeOK
<1>2. CASE Wait(t, n) BY <1>2 DEF Wait, TypeOK
<1>3. CASE WaitUntil(t, n) BY <1>3 DEF WaitUntil, TypeOK
<1>4. CASE Take(t, n) BY <1>4 DEF Take, TypeOK
<1> QED BY <1>1, <1>2, <1>3, <1>4 DEF Turn

LEMMA NextKeepsOthers == ASSUME TypeOK, OthersAreNew, Next PROVE OthersAreNew'
<1>1. ASSUME NEW t \in Thread, Enter(t) PROVE OthersAreNew'
  BY <1>1, TurnLeaves DEF Enter, OthersAreNew, outside
<1>2. ASSUME NEW t \in Thread, Resume(t) PROVE OthersAreNew'
  BY <1>2, TurnLeaves DEF Resume, OthersAreNew, outside
<1>3. ASSUME NEW t \in Thread, Service(t) PROVE OthersAreNew'
  BY <1>3, TurnLeaves DEF Service, Turn, OthersAreNew, outside
<1>4. ASSUME NEW t \in Thread, Wakes(t) \/ TimesOut(t) \/ Runs(t) \/ Interrupted(t) PROVE OthersAreNew'
  BY <1>4 DEF Wakes, TimesOut, Runs, Interrupted, OthersAreNew, TypeOK, outside
<1>5. ASSUME NEW t \in Thread, Renotifies(t) PROVE OthersAreNew'
  <2>1. "back" \in PC \ {"idle", "timed"} BY DEF PC
  <2>2. NotifiesAt(t, "back") BY <1>5 DEF Renotifies
  <2>3. /\ pc' \in [Thread -> PC] /\ pc'[t] = "back"
        /\ \A u \in Thread \ {t} : pc'[u] = pc[u] \/ (pc[u] \in {"idle", "timed"} /\ pc'[u] = "woken")
    BY <2>1, <2>2, MovesAndNotifies
  <2> QED BY <1>5, <2>3 DEF Renotifies, OthersAreNew, TypeOK, outside
<1>6. CASE Scheduled BY <1>6, Notified DEF Scheduled, OthersAreNew, TypeOK
<1>7. CASE Stopped BY <1>7 DEF Stopped, NotifyAll, Waiting, OthersAreNew
<1>8. ASSUME Stop \/ Interrupt \/ Tick \/ \E k \in setting.tasks : Schedule(k) PROVE OthersAreNew'
  BY <1>8 DEF Stop, Interrupt, Tick, Schedule, OthersAreNew
<1> QED BY <1>1, <1>2, <1>3, <1>4, <1>5, <1>6, <1>7, <1>8 DEF Next, Works

\* A step of a thread: other threads are at most woken, and it leaves only when
\* it should stop or was interrupted.
LEMMA ThreadStep ==
    ASSUME TypeOK, NEW t \in Thread, Works(t) \/ Wakes(t)
    PROVE  /\ \A u \in Thread \ {t} : pc'[u] = pc[u] \/ (pc[u] \in {"idle", "timed"} /\ pc'[u] = "woken")
           /\ pc[t] # "out"
           /\ pc[t] = "new" => t \in setting.threads
           /\ pc'[t] = "out" => interrupted \/ (ShouldStop /\ taskQueue' = taskQueue)
           /\ UNCHANGED <<outside, stops>>
<1>1. CASE Enter(t) BY <1>1, TurnLeaves DEF Enter
<1>2. CASE Resume(t) BY <1>2, TurnLeaves DEF Resume
<1>3. CASE Service(t) BY <1>3, TurnLeaves DEF Service, Turn
<1>4. CASE Wakes(t) \/ TimesOut(t) \/ Runs(t) \/ Interrupted(t)
  BY <1>4 DEF Wakes, TimesOut, Runs, Interrupted, TypeOK
<1>5. CASE Renotifies(t)
  <2>1. "back" \in PC \ {"idle", "timed"} BY DEF PC
  <2> QED BY <1>5, <2>1, MovesAndNotifies DEF Renotifies
<1> QED BY <1>1, <1>2, <1>3, <1>4, <1>5 DEF Works

LEMMA NextKeepsDrained ==
    ASSUME TypeOK, FlagsFollow, OthersAreNew, DrainedByThreads, Next
    PROVE  DrainedByThreads'
<1>1. setting' = setting /\ setting.threads \subseteq Thread
  BY SchedulerAssumption DEF TypeOK, Next, Works, Enter, Wakes, TimesOut, Resume, Service, Runs, Renotifies, Interrupted,
     Schedule, Scheduled, Stop, Stopped, Interrupt, Tick, outside
<1> SUFFICES ASSUME setting.stop = "drain", \A u \in setting.threads : pc'[u] = "out"
             PROVE  taskQueue' = {} /\ client' \in {"stop", "done"}
  BY <1>1 DEF DrainedByThreads
<1>2. ~stopRequested /\ ~interrupted BY DEF FlagsFollow
<1>3. ASSUME NEW t \in Thread, Works(t) \/ Wakes(t) PROVE taskQueue' = {} /\ client' \in {"stop", "done"}
  <2>1. t \in setting.threads BY <1>3, ThreadStep DEF OthersAreNew
  <2>2. pc'[t] = "out" BY <2>1
  <2>3. ShouldStop /\ taskQueue' = taskQueue /\ client' = client BY <1>2, <1>3, <2>2, ThreadStep DEF outside
  <2>4. stopWhenEmpty /\ taskQueue = {} BY <1>2, <2>3 DEF ShouldStop
  <2>5. client \notin {"ready", "schedule"} BY <2>4 DEF FlagsFollow
  <2> QED BY <2>3, <2>4, <2>5 DEF TypeOK
<1>4. ASSUME UNCHANGED pc PROVE taskQueue = {} /\ client \in {"stop", "done"}
  BY <1>4 DEF DrainedByThreads
<1>5. ASSUME NEW k \in setting.tasks, Schedule(k) PROVE FALSE BY <1>4, <1>5 DEF Schedule
<1>6. CASE Scheduled
  <2>1. \A u \in setting.threads : pc[u] = "out" BY <1>1, <1>6, Notified DEF Scheduled, TypeOK
  <2> QED BY <1>6, <2>1 DEF Scheduled, DrainedByThreads
<1>7. CASE Stop BY <1>4, <1>7 DEF Stop
<1>8. CASE Stopped
  <2>1. \A u \in setting.threads : pc[u] = "out" BY <1>1, <1>8 DEF Stopped, NotifyAll, Waiting, TypeOK
  <2> QED BY <1>8, <2>1 DEF Stopped, DrainedByThreads
<1>9. CASE Interrupt BY <1>9 DEF Interrupt
<1>10. CASE Tick BY <1>4, <1>10 DEF Tick
<1> QED BY <1>3, <1>5, <1>6, <1>7, <1>8, <1>9, <1>10 DEF Next

LEMMA NextKeepsOwnEntry ==
    ASSUME TypeOK, OthersAreNew, OwnEntryStays, Next
    PROVE  OwnEntryStays'
<1>1. setting' = setting /\ setting.threads \subseteq Thread
  BY SchedulerAssumption DEF TypeOK, Next, Works, Enter, Wakes, TimesOut, Resume, Service, Runs, Renotifies, Interrupted,
     Schedule, Scheduled, Stop, Stopped, Interrupt, Tick, outside
<1> SUFFICES ASSUME Cardinality(setting.threads) = 1
             PROVE  \A t \in setting.threads :
                       /\ pc'[t] = "timed" => \E e \in taskQueue' : e.at <= deadline'[t]
                       /\ pc'[t] = "late" => \E e \in taskQueue' : e.at <= now'
  BY <1>1 DEF OwnEntryStays
<1>2. IsFiniteSet(setting.threads) BY <1>1, FS_Subset, SchedulerAssumption
<1>3. PICK s : setting.threads = {s} BY <1>2, FS_Singleton
<1>4. s \in Thread BY <1>1, <1>3
<1>5. /\ pc[s] = "timed" => \E e \in taskQueue : e.at <= deadline[s]
      /\ pc[s] = "late" => \E e \in taskQueue : e.at <= now
  BY <1>3 DEF OwnEntryStays
<1> SUFFICES /\ pc'[s] = "timed" => \E e \in taskQueue' : e.at <= deadline'[s]
             /\ pc'[s] = "late" => \E e \in taskQueue' : e.at <= now'
  BY <1>3
<1>6. ASSUME NEW t \in Thread, Works(t) \/ Wakes(t) PROVE t = s BY <1>3, <1>6, ThreadStep DEF OthersAreNew
<1>7. ASSUME Turn(s, nThreadsServicingQueue + 1) \/ Turn(s, nThreadsServicingQueue)
      PROVE  /\ pc'[s] = "timed" => \E e \in taskQueue' : e.at <= deadline'[s]
             /\ pc'[s] # "late"
  <2>1. ASSUME NEW n, Leave(s, n) PROVE pc'[s] = "out" 
    <3>1. "out" \in PC \ {"idle", "timed"} BY DEF PC
    <3> QED BY <1>4, <2>1, <3>1, MovesAndNotifies DEF Leave
  <2>2. ASSUME NEW n, Wait(s, n) PROVE pc'[s] = "idle" BY <1>4, <2>2 DEF Wait, TypeOK
  <2>3. ASSUME NEW n, WaitUntil(s, n) PROVE pc'[s] = "timed" /\ \E e \in taskQueue' : e.at <= deadline'[s]
    BY <1>4, <2>3 DEF WaitUntil, First, TypeOK
  <2> QED BY <1>7, <2>1, <2>2, <2>3 DEF Turn
<1>8. CASE Enter(s) \/ Resume(s) BY <1>7, <1>8 DEF Enter, Resume
<1>9. CASE Service(s)
  <2>1. CASE Take(s, nThreadsServicingQueue) BY <1>4, <2>1 DEF Take, TypeOK
  <2> QED BY <1>7, <1>9, <2>1 DEF Service, Turn
<1>10. CASE TimesOut(s) BY <1>4, <1>5, <1>10 DEF TimesOut, TypeOK, outside
<1>11. CASE Wakes(s) \/ Runs(s) \/ Interrupted(s) BY <1>4, <1>11 DEF Wakes, Runs, Interrupted, TypeOK
<1>12. CASE Renotifies(s)
  <2>1. "back" \in PC \ {"idle", "timed"} BY DEF PC
  <2> QED BY <1>4, <1>12, <2>1, MovesAndNotifies DEF Renotifies
<1>13. ASSUME NEW k \in setting.tasks, Schedule(k)
       PROVE  /\ pc'[s] = "timed" => \E e \in taskQueue' : e.at <= deadline'[s]
              /\ pc'[s] = "late" => \E e \in taskQueue' : e.at <= now'
  BY <1>5, <1>13 DEF Schedule
<1>14. CASE Scheduled
  <2>1. pc'[s] = pc[s] \/ pc'[s] = "woken" BY <1>4, <1>14, Notified DEF Scheduled, TypeOK
  <2> QED BY <1>5, <1>14, <2>1 DEF Scheduled
<1>15. CASE Stopped
  <2>1. pc'[s] = pc[s] \/ pc'[s] = "woken" BY <1>4, <1>15 DEF Stopped, NotifyAll
  <2> QED BY <1>5, <1>15, <2>1 DEF Stopped
<1>16. CASE Stop \/ Interrupt BY <1>5, <1>16 DEF Stop, Interrupt
<1>17. CASE Tick BY <1>5, <1>17 DEF Tick, TypeOK
<1> QED BY <1>6, <1>8, <1>9, <1>10, <1>11, <1>12, <1>13, <1>14, <1>15, <1>16, <1>17 DEF Next, Works

\* A thread that takes the way to a wait with a limit is in charge, and one that
\* waits without, or leaves, has seen an empty queue.
LEMMA NextKeepsWakeup ==
    ASSUME TypeOK, FlagsFollow, NoWakeupLost, Next
    PROVE  NoWakeupLost'
<1> SUFFICES ASSUME taskQueue' # {}, Serving' # {}, client' \notin {"schedule", "stop"}, ~interrupted', ~stopRequested'
             PROVE  \E t \in Thread : InCharge(t)'
  BY DEF NoWakeupLost
<1> DEFINE Busy == {"woken", "late", "running", "added", "back"}
<1>1. ASSUME NEW t \in Thread, NEW n, Turn(t, n) \/ Take(t, n), UNCHANGED <<outside, stops>>
      PROVE  InCharge(t)'
  <2>1. CASE Leave(t, n) BY <1>1, <2>1 DEF Leave, ShouldStop, stops
  <2>2. CASE Wait(t, n) BY <2>2 DEF Wait
  <2>3. CASE WaitUntil(t, n) BY <2>3 DEF WaitUntil, First, InCharge, TypeOK
  <2>4. CASE Take(t, n) BY <2>4 DEF Take, InCharge, TypeOK
  <2> QED BY <1>1, <2>1, <2>2, <2>3, <2>4 DEF Turn
<1>2. ASSUME NEW t \in Thread, Enter(t) \/ Resume(t) PROVE InCharge(t)' BY <1>1, <1>2 DEF Enter, Resume
<1>3. ASSUME NEW t \in Thread, Service(t) PROVE InCharge(t)' BY <1>1, <1>3 DEF Service, Turn
<1>4. ASSUME NEW t \in Thread, Wakes(t) \/ TimesOut(t) \/ Runs(t) PROVE InCharge(t)'
  BY <1>4 DEF Wakes, TimesOut, Runs, InCharge, TypeOK
<1>5. ASSUME NEW t \in Thread, Renotifies(t) PROVE InCharge(t)'
  <2>1. "back" \in PC \ {"idle", "timed"} BY DEF PC
  <2> QED BY <1>5, <2>1, MovesAndNotifies DEF Renotifies, InCharge
<1>6. ASSUME NEW t \in Thread, Interrupted(t) PROVE FALSE BY <1>6 DEF Interrupted, stops
<1>7. ASSUME NEW k \in setting.tasks, Schedule(k) PROVE FALSE BY <1>7 DEF Schedule
<1>8. CASE Scheduled
  <2>1. CASE Waiting(pc) # {}
    <3>1. PICK t \in Thread : pc'[t] = "woken" BY <1>8, <2>1, Notified DEF Scheduled, TypeOK
    <3> QED BY <3>1 DEF InCharge
  <2>2. CASE Waiting(pc) = {}
    <3>1. pc' = pc BY <1>8, <2>2 DEF Scheduled, NotifyOne
    <3>2. PICK t \in Thread : pc[t] \notin {"new", "out"} BY <3>1 DEF Serving
    <3>3. pc[t] \in Busy BY <2>2, <3>2 DEF Waiting, TypeOK, PC
    <3> QED BY <3>1, <3>3 DEF InCharge
  <2> QED BY <2>1, <2>2
<1>9. CASE Stopped
  <2>1. PICK t \in Thread : pc'[t] \notin {"new", "out"} BY DEF Serving
  <2>2. pc'[t] \in Busy BY <1>9, <2>1 DEF Stopped, NotifyAll, Waiting, TypeOK, PC
  <2> QED BY <2>2 DEF InCharge
<1>10. CASE Stop BY <1>10 DEF Stop
<1>11. CASE Interrupt BY <1>11 DEF Interrupt
<1>12. CASE Tick
  <2>1. PICK t \in Thread : InCharge(t) BY <1>12 DEF Tick, NoWakeupLost, Serving, stops
  <2> QED BY <1>12, <2>1 DEF Tick, InCharge
<1> QED BY <1>2, <1>3, <1>4, <1>5, <1>6, <1>7, <1>8, <1>9, <1>10, <1>11, <1>12 DEF Next, Works

\* The number of threads in serviceQueue changes with the positions.
LEMMA NextKeepsCount ==
    ASSUME TypeOK, ThreadsCounted, Next
    PROVE  ThreadsCounted'
<1>1. IsFiniteSet(Serving) BY FS_Subset, SchedulerAssumption DEF Serving
<1>2. nThreadsServicingQueue \in Nat BY <1>1, FS_CardinalityType DEF ThreadsCounted
<1>3. ASSUME NEW t \in Thread, Serving' = Serving \cup {t}, pc[t] = "new",
             nThreadsServicingQueue' = nThreadsServicingQueue + 1
      PROVE  ThreadsCounted'
  <2>1. t \notin Serving BY <1>3 DEF Serving
  <2>2. Cardinality(Serving \cup {t}) = Cardinality(Serving) + 1 BY <1>1, <2>1, FS_AddElement
  <2> QED BY <1>3, <2>2 DEF ThreadsCounted
<1>4. ASSUME NEW t \in Thread, Serving' = Serving \ {t}, t \in Serving,
             nThreadsServicingQueue' = nThreadsServicingQueue - 1
      PROVE  ThreadsCounted'
  <2>1. Cardinality(Serving \ {t}) = Cardinality(Serving) - 1 BY <1>1, <1>4, FS_RemoveElement
  <2> QED BY <1>4, <2>1 DEF ThreadsCounted
<1>5. ASSUME Serving' = Serving, nThreadsServicingQueue' = nThreadsServicingQueue PROVE ThreadsCounted'
  BY <1>5 DEF ThreadsCounted
<1>6. ASSUME NEW t \in Thread, NEW n, Turn(t, n) \/ Take(t, n)
      PROVE  \/ pc'[t] = "out" /\ Serving' = Serving \ {t} /\ nThreadsServicingQueue' = n - 1
             \/ pc'[t] # "out" /\ Serving' = Serving \cup {t} /\ nThreadsServicingQueue' = n
  <2>1. CASE pc'[t] = "out"
    <3>1. Serving' = Serving \ {t} BY <1>6, <2>1, TurnLeaves DEF Serving
    <3>2. Leave(t, n) BY <1>6, <2>1 DEF Turn, Wait, WaitUntil, Take, TypeOK
    <3> QED BY <2>1, <3>1, <3>2 DEF Leave
  <2>2. CASE pc'[t] # "out"
    <3>1. Serving' = Serving \cup {t} BY <1>6, <2>2, TurnLeaves DEF Serving
    <3>2. ~Leave(t, n)
      <4>1. "out" \in PC \ {"idle", "timed"} BY DEF PC
      <4> QED BY <2>2, <4>1, MovesAndNotifies DEF Leave
    <3> QED BY <1>6, <2>2, <3>1, <3>2 DEF Turn, Wait, WaitUntil, Take
  <2> QED BY <2>1, <2>2
<1>7. ASSUME NEW t \in Thread, Enter(t) PROVE ThreadsCounted'
  <2>1. CASE pc'[t] # "out" BY <1>3, <1>6, <1>7, <2>1 DEF Enter
  <2>2. CASE pc'[t] = "out"
    <3> DEFINE n == nThreadsServicingQueue + 1
    <3>3. Turn(t, n) BY <1>7 DEF Enter
    <3>4. n = nThreadsServicingQueue + 1 OBVIOUS
    <3> HIDE DEF n
    <3>1. Serving' = Serving \ {t} /\ nThreadsServicingQueue' = n - 1 BY <1>6, <2>2, <3>3
    <3>2. Serving' = Serving BY <1>7, <3>1 DEF Enter, Serving
    <3>5. nThreadsServicingQueue' = nThreadsServicingQueue BY <1>2, <3>1, <3>4
    <3> QED BY <1>5, <3>2, <3>5
  <2> QED BY <2>1, <2>2
<1>8. ASSUME NEW t \in Thread, Resume(t) \/ Service(t) PROVE ThreadsCounted'
  <2>1. t \in Serving BY <1>8 DEF Resume, Service, Serving
  <2>2. Turn(t, nThreadsServicingQueue) \/ Take(t, nThreadsServicingQueue) BY <1>8 DEF Resume, Service, Turn
  <2> QED BY <1>4, <1>5, <1>6, <2>1, <2>2
<1>9. ASSUME NEW t \in Thread, Wakes(t) \/ TimesOut(t) \/ Runs(t) PROVE ThreadsCounted'
  <2>1. Serving' = Serving BY <1>9 DEF Wakes, TimesOut, Runs, Serving, TypeOK
  <2> QED BY <1>5, <1>9, <2>1 DEF Wakes, TimesOut, Runs
<1>10. ASSUME NEW t \in Thread, Renotifies(t) PROVE ThreadsCounted'
  <2>1. "back" \in PC \ {"idle", "timed"} BY DEF PC
  <2>2. Serving' = Serving BY <1>10, <2>1, MovesAndNotifies DEF Renotifies, Serving
  <2> QED BY <1>5, <1>10, <2>2 DEF Renotifies
<1>11. ASSUME NEW t \in Thread, Interrupted(t) PROVE ThreadsCounted'
  <2>1. Serving' = Serving \ {t} /\ t \in Serving BY <1>11 DEF Interrupted, Serving, TypeOK
  <2> QED BY <1>4, <1>11, <2>1 DEF Interrupted
<1>12. CASE Scheduled
  <2>1. Serving' = Serving BY <1>12, Notified DEF Scheduled, Serving, TypeOK
  <2> QED BY <1>5, <1>12, <2>1 DEF Scheduled
<1>13. CASE Stopped
  <2>1. Serving' = Serving BY <1>13 DEF Stopped, NotifyAll, Waiting, Serving, TypeOK
  <2> QED BY <1>5, <1>13, <2>1 DEF Stopped
<1>14. ASSUME Stop \/ Interrupt \/ Tick \/ \E k \in setting.tasks : Schedule(k) PROVE ThreadsCounted'
  BY <1>5, <1>14 DEF Stop, Interrupt, Tick, Schedule, Serving
<1> QED BY <1>7, <1>8, <1>9, <1>10, <1>11, <1>12, <1>13, <1>14 DEF Next, Works

LEMMA NextKeepsIInv == ASSUME IInv, [Next]_vars PROVE IInv'
<1>1. CASE Next
  BY <1>1, NextKeepsType, NextKeepsFlags, NextKeepsOthers, NextKeepsDrained, NextKeepsOwnEntry, NextKeepsWakeup,
     NextKeepsCount DEF IInv
<1>2. CASE UNCHANGED vars
  BY <1>2 DEF vars, IInv, TypeOK, FlagsFollow, DrainedByThreads, OwnEntryStays, OthersAreNew, NoWakeupLost, InCharge,
     Serving, ThreadsCounted
<1> QED BY <1>1, <1>2

\* The invariant holds in every state of a scheduler, of any number of threads.
THEOREM SchedulerInvariant == Spec => []IInv
BY InitIInv, NextKeepsIInv, PTL DEF Spec

\* No wakeup is lost: with notify_one for each task, and none when a thread
\* takes one, a thread that serves the queue looks at it in time for its first
\* task.
THEOREM SchedulerLosesNoWakeup == Spec => []NoWakeupLost
<1>1. IInv => NoWakeupLost BY DEF IInv
<1> QED BY <1>1, SchedulerInvariant, PTL

\* stop(true): when all threads have left, the queue is empty, also if tasks
\* that ran meanwhile have added tasks.
THEOREM SchedulerDrains == Spec => []Drained
<1>1. IInv => Drained BY DEF IInv, DrainedByThreads, Drained
<1> QED BY <1>1, SchedulerInvariant, PTL

\* The assertion of ~CScheduler: the count of threads in serviceQueue is right,
\* also after exceptions.
THEOREM SchedulerCountsThreads == Spec => []ThreadsCounted
<1>1. IInv => ThreadsCounted BY DEF IInv
<1> QED BY <1>1, SchedulerInvariant, PTL

\* "Call func at/after time t" holds for a scheduler with one thread: only that
\* thread removes tasks, so the one it waited for, or an earlier one, is there
\* when the limit of its wait has passed.
THEOREM SingleThreadIsNotEarly == Spec => OneThreadIsNotEarly
<1>1. ASSUME IInv, [Next]_vars PROVE [Cardinality(setting.threads) = 1 => AtOrAfter]_vars
  <2> SUFFICES ASSUME Next, Cardinality(setting.threads) = 1, NEW t \in Thread, Starts(t)
               PROVE  current'[t].at <= now
    BY <1>1 DEF AtOrAfter
  <2>1. TypeOK /\ OthersAreNew /\ OwnEntryStays BY <1>1 DEF IInv
  <2>2. Service(t) /\ Take(t, nThreadsServicingQueue)
    <3>1. ASSUME NEW u \in Thread, Works(u) \/ Wakes(u) PROVE u = t
      BY <2>1, <3>1, ThreadStep DEF Starts
    <3>2. Works(t) \/ Wakes(t)
      <4>1. ASSUME Scheduled PROVE FALSE BY <2>1, <4>1, Notified DEF Scheduled, Starts, TypeOK
      <4>2. ASSUME Stopped PROVE FALSE BY <4>2 DEF Stopped, NotifyAll, Starts
      <4>3. ASSUME Stop \/ Interrupt \/ Tick \/ \E k \in setting.tasks : Schedule(k) PROVE FALSE
        BY <4>3 DEF Stop, Interrupt, Tick, Schedule, Starts
      <4> QED BY <3>1, <4>1, <4>2, <4>3 DEF Next
    <3>3. ASSUME NEW n, Turn(t, n) PROVE FALSE
      <4>1. "out" \in PC \ {"idle", "timed"} BY DEF PC
      <4>2. ASSUME Leave(t, n) PROVE FALSE
        <5>1. NotifiesAt(t, "out") BY <4>2 DEF Leave
        <5>2. pc'[t] = "out" BY <2>1, <4>1, <5>1, MovesAndNotifies
        <5> QED BY <5>2 DEF Starts
      <4> QED BY <2>1, <3>3, <4>2 DEF Turn, Wait, WaitUntil, Starts, TypeOK
    <3>4. ASSUME Renotifies(t) PROVE FALSE
      <4>1. "back" \in PC \ {"idle", "timed"} BY DEF PC
      <4> QED BY <2>1, <3>4, <4>1, MovesAndNotifies DEF Renotifies, Starts
    <3>5. ASSUME Wakes(t) \/ TimesOut(t) \/ Runs(t) \/ Interrupted(t) PROVE FALSE
      BY <2>1, <3>5 DEF Wakes, TimesOut, Runs, Interrupted, Starts, TypeOK
    <3> QED BY <3>2, <3>3, <3>4, <3>5 DEF Works, Enter, Resume, Service, Turn
  <2>3. t \in setting.threads BY <2>1, <2>2 DEF Service, OthersAreNew
  <2>4. PICK e \in taskQueue : e.at <= now BY <2>1, <2>2, <2>3 DEF Service, OwnEntryStays
  <2>5. PICK f \in First : current' = [current EXCEPT ![t] = f] BY <2>2 DEF Take
  <2>6. f.at <= e.at /\ f.at \in Nat /\ e.at \in Nat /\ now \in Nat BY <2>1, <2>4, <2>5 DEF First, TypeOK
  <2>7. current'[t] = f BY <2>1, <2>5 DEF TypeOK
  <2> QED BY <2>4, <2>6, <2>7
<1> QED BY <1>1, SchedulerInvariant, PTL DEF Spec, OneThreadIsNotEarly
=============================================================================
