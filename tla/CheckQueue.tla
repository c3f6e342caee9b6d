----------------------------- MODULE CheckQueue -----------------------------
(***************************************************************************)
(* CCheckQueue (checkqueue.h), with which ConnectBlock verifies a block's  *)
(* scripts on several threads, and CCheckQueueControl, which ties a use of *)
(* it to one block. The thread that connects the block is the master: it   *)
(* adds checks as it goes through the transactions, then joins the workers *)
(* in Loop until nothing is left and takes the verdict.                    *)
(*                                                                         *)
(* An action is one critical section of the queue's mutex, up to the next  *)
(* wait on a condition variable or the release of the lock. The order in   *)
(* which checks are taken does not matter and is left open: the queue is a *)
(* set. fQuit is never set by the program. At shutdown every thread of     *)
(* threadGroup is interrupted: boost then throws out of the wait.          *)
(***************************************************************************)
EXTENDS Integers, FiniteSets

CONSTANTS Worker,    \* the threads in ThreadScriptCheck
          Master,    \* the thread in ConnectBlock
          Check,     \* script checks
          Good,      \* those of them that succeed
          BatchSize  \* nBatchSize

ASSUME CheckQueueAssumption ==
    /\ Master \notin Worker
    /\ IsFiniteSet(Worker) /\ IsFiniteSet(Check)
    /\ Good \subseteq Check
    /\ BatchSize \in Nat \ {0}

Thread == Worker \cup {Master}

VARIABLES queue,    \* checks nobody has taken
          nIdle, nTotal, nTodo, fAllOk,
          pc,       \* where a thread is in Loop
          batch,    \* thread -> its vChecks; nNow is their number
          fOk,      \* thread -> its local fOk
          added,    \* all checks of the present block
          verdict,  \* what Wait returned for the last block, "none" before
          stopping, \* the threads have been interrupted
          pending   \* threads the interruption has yet to reach

vars == <<queue, nIdle, nTotal, nTodo, fAllOk, pc, batch, fOk, added, verdict, stopping, pending>>

shared == <<queue, nIdle, nTotal, nTodo, fAllOk>>

-----------------------------------------------------------------------------
\* pc: "out" of Loop; "enter", about to take the lock for the first time;
\* "check", running its batch; "done" with it, about to take the lock; "wait"
\* on its condition variable; "woken" there; "gone", a worker that was
\* interrupted. The master is "adding" between the constructor and Wait.
PC == {"out", "adding", "enter", "check", "done", "wait", "woken", "gone"}

\* The clean-up of the previous run that every pass through the lock starts
\* with, and the counts after it.

\* nTodo -= nNow
Todo(t) == IF pc[t] = "done" THEN nTodo - Cardinality(batch[t]) ELSE nTodo

\* Mutant: a batch's result is thrown away.
AllOkForgotten(t) == fAllOk

AllOk(t) == IF pc[t] = "done" THEN fAllOk /\ fOk[t] ELSE fAllOk
Total(t) == IF pc[t] = "enter" THEN nTotal + 1 ELSE nTotal
Idle(t) == IF pc[t] = "woken" THEN nIdle - 1 ELSE nIdle

\* Mutant: nobody tells the master.
WakesMasterNever(t) == FALSE

\* condMaster.notify_one, when a worker finished the last check.
WakesMaster(t) == pc[t] = "done" /\ t # Master /\ Todo(t) = 0 /\ pc[Master] = "wait"

\* Thread t goes to 'where', with the master woken if need be.
Goes(t, where) ==
    pc' = [x \in Thread |-> IF x = t THEN where
                            ELSE IF x = Master /\ WakesMaster(t) THEN "woken"
                            ELSE pc[x]]

AtLock(t) == pc[t] \in {"enter", "done"} \/ (pc[t] = "woken" /\ t \notin pending)

\* Loop, the queue empty and everything done: the master leaves with the
\* verdict and resets it.
Leave(t) ==
    /\ AtLock(t)
    /\ queue = {} /\ t = Master /\ Todo(t) = 0
    /\ nTodo' = 0
    /\ nTotal' = Total(t) - 1
    /\ nIdle' = Idle(t)
    /\ verdict' = IF AllOk(t) THEN "ok" ELSE "failed"
    /\ fAllOk' = TRUE
    /\ batch' = [batch EXCEPT ![t] = {}]
    /\ Goes(t, "out")
    /\ UNCHANGED <<queue, fOk, added, stopping, pending>>

\* Mutant: a thread that waits again is not counted again.
SleepsUncounted(t) == IF pc[t] = "woken" THEN Idle(t) ELSE Idle(t) + 1

\* nIdle++ before the wait.
Sleeps(t) == Idle(t) + 1

\* Loop, the queue empty: wait.
Sleep(t) ==
    /\ AtLock(t)
    /\ queue = {} /\ ~(t = Master /\ Todo(t) = 0)
    /\ nTodo' = Todo(t)
    /\ nTotal' = Total(t)
    /\ nIdle' = Sleeps(t)
    /\ fAllOk' = AllOk(t)
    /\ batch' = [batch EXCEPT ![t] = {}]
    /\ Goes(t, "wait")
    /\ UNCHANGED <<queue, fOk, added, verdict, stopping, pending>>

\* How many checks a thread takes.
Larger(a, b) == IF a > b THEN a ELSE b
Smaller(a, b) == IF a < b THEN a ELSE b
Share(t) == Larger(1, Smaller(BatchSize, Cardinality(queue) \div (Total(t) + Idle(t) + 1)))

\* Loop, with work: take a batch and release the lock.
Take(t) ==
    /\ AtLock(t)
    /\ \E B \in SUBSET queue :
          /\ Cardinality(B) = Share(t)
          /\ queue' = queue \ B
          /\ batch' = [batch EXCEPT ![t] = B]
    /\ nTodo' = Todo(t)
    /\ nTotal' = Total(t)
    /\ nIdle' = Idle(t)
    /\ fAllOk' = AllOk(t)
    /\ fOk' = [fOk EXCEPT ![t] = AllOk(t)]
    /\ Goes(t, "check")
    /\ UNCHANGED <<added, verdict, stopping, pending>>

\* Loop: execute the work, outside of the lock, unless it already failed.
Execute(t) ==
    /\ pc[t] = "check"
    /\ fOk' = [fOk EXCEPT ![t] = @ /\ batch[t] \subseteq Good]
    /\ pc' = [pc EXCEPT ![t] = "done"]
    /\ UNCHANGED <<shared, batch, added, verdict, stopping, pending>>

\* A wait may end by itself.
SpuriousWakeup(t) ==
    /\ pc[t] = "wait"
    /\ pc' = [pc EXCEPT ![t] = "woken"]
    /\ UNCHANGED <<shared, batch, fOk, added, verdict, stopping, pending>>

-----------------------------------------------------------------------------
\* CCheckQueueControl's constructor; IsIdle, which it asserts, is a property.
Control ==
    /\ pc[Master] = "out"
    /\ pc' = [pc EXCEPT ![Master] = "adding"]
    /\ added' = {}
    /\ UNCHANGED <<shared, batch, fOk, verdict, stopping, pending>>

\* Mutant: a single check wakes nobody.
WokenNotForOne(n, W) == IF n = 1 THEN {{}} ELSE {W}

\* Which of the waiting workers W a batch of n may wake: one, or all.
Woken(n, W) == IF n = 1 /\ W # {} THEN {{w} : w \in W} ELSE {W}

\* Add
Add(S) ==
    /\ pc[Master] = "adding"
    /\ S # {} /\ S \cap added = {}
    /\ queue' = queue \cup S
    /\ nTodo' = nTodo + Cardinality(S)
    /\ added' = added \cup S
    /\ \E woken \in Woken(Cardinality(S), {w \in Worker : pc[w] = "wait"}) :
          pc' = [t \in Thread |-> IF t \in woken THEN "woken" ELSE pc[t]]
    /\ UNCHANGED <<nIdle, nTotal, fAllOk, batch, fOk, verdict, stopping, pending>>

\* Wait, called by ConnectBlock or by the destructor on an early return.
Wait ==
    /\ pc[Master] = "adding"
    /\ pc' = [pc EXCEPT ![Master] = "enter"]
    /\ UNCHANGED <<shared, batch, fOk, added, verdict, stopping, pending>>

\* Shutdown: threadGroup.interrupt_all()
InterruptAll ==
    /\ ~stopping
    /\ stopping' = TRUE
    /\ pending' = Thread
    /\ UNCHANGED <<shared, pc, batch, fOk, added, verdict>>

\* cond.wait throws: nIdle and nTotal stay as they are. A worker ends; the
\* master's exception runs the destructor of the control, which waits again.
Unwind(t) ==
    /\ t \in pending /\ pc[t] \in {"wait", "woken"}
    /\ pending' = pending \ {t}
    /\ pc' = [pc EXCEPT ![t] = IF t = Master THEN "enter" ELSE "gone"]
    /\ UNCHANGED <<shared, batch, fOk, added, verdict, stopping>>

-----------------------------------------------------------------------------
Init == /\ queue = {} /\ nIdle = 0 /\ nTotal = 0 /\ nTodo = 0 /\ fAllOk = TRUE
        /\ pc = [t \in Thread |-> IF t = Master THEN "out" ELSE "enter"]
        /\ batch = [t \in Thread |-> {}]
        /\ fOk = [t \in Thread |-> TRUE]
        /\ added = {} /\ verdict = "none"
        /\ stopping = FALSE /\ pending = {}

Loop(t) == Leave(t) \/ Sleep(t) \/ Take(t) \/ Execute(t)

Next == \/ \E t \in Thread : Loop(t) \/ SpuriousWakeup(t) \/ Unwind(t)
        \/ Control
        \/ \E S \in SUBSET Check : Add(S)
        \/ Wait
        \/ InterruptAll

\* Every thread is scheduled again and again. Nothing is assumed of spurious
\* wakeups, of the master's calls or of an interruption.
Fairness == \A t \in Thread : WF_vars(Loop(t)) /\ WF_vars(Unwind(t))

Spec == Init /\ [][Next]_vars /\ Fairness

-----------------------------------------------------------------------------
TypeOK == /\ queue \in SUBSET Check
          /\ nIdle \in Nat /\ nTotal \in Nat /\ nTodo \in Nat
          /\ fAllOk \in BOOLEAN
          /\ pc \in [Thread -> PC]
          /\ batch \in [Thread -> SUBSET Check]
          /\ fOk \in [Thread -> BOOLEAN]
          /\ added \in SUBSET Check
          /\ verdict \in {"none", "ok", "failed"}
          /\ stopping \in BOOLEAN /\ pending \in SUBSET Thread

\* The verdict is right: Wait returns true exactly if all checks of its own
\* block succeed, whichever threads ran them and whatever was interrupted; a
\* failure of an earlier block does not stick.
VerdictRight == pc[Master] = "out" /\ verdict # "none" => (verdict = "ok" <=> added \subseteq Good)

\* The assertion of CCheckQueueControl's constructor (IsIdle): between two
\* blocks no worker is still at work and nothing of the last block is left.
IdleBetweenBlocks == pc[Master] = "out" => nTotal = nIdle /\ nTodo = 0 /\ fAllOk = TRUE

\* No check is lost or taken twice: nTodo counts the queue and all batches.
NothingLost ==
    /\ \A t \in Thread : batch[t] \cap queue = {}
    /\ \A t, u \in Thread : t # u => batch[t] \cap batch[u] = {}
    /\ nTodo = Cardinality(queue \cup UNION {batch[t] : t \in Thread})

\* Wait returns: the master is never left waiting for a notification that does
\* not come, also if the workers are interrupted.
WaitReturns == pc[Master] = "enter" ~> pc[Master] = "out"

\* The workers need no help: what is added is taken even while the master goes
\* on adding, unless they have been interrupted.
WorkersTakeAll == queue # {} /\ ~stopping ~> queue = {} \/ stopping
=============================================================================
