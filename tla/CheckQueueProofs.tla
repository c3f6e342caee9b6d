-------------------------- MODULE CheckQueueProofs --------------------------
(***************************************************************************)
(* Proofs about CheckQueue for any number of workers and checks.           *)
(***************************************************************************)
EXTENDS CheckQueue, FiniteSetTheorems, TLAPS

\* Checks that are queued or in somebody's batch.
Pend == queue \cup UNION {batch[t] : t \in Thread}

\* The same, without the batch of t.
Rest(t) == queue \cup UNION {batch[u] : u \in Thread \ {t}}

\* The threads nIdle counts, and those nTotal counts.
Resting == {t \in Thread : pc[t] \in {"wait", "woken", "gone"}}
Inside == {t \in Thread : pc[t] \in {"wait", "woken", "gone", "check", "done"}}

\* What the exception of an interrupted master leaves in both counts.
Leak == IF stopping /\ Master \notin pending THEN 1 ELSE 0

\* Only the master is outside of Loop, and a thread has a batch exactly while
\* it works on it.
ThreadsRight ==
    /\ \A t \in Thread : pc[t] \in {"check", "done"} <=> batch[t] # {}
    /\ \A w \in Worker : pc[w] \notin {"out", "adding"}
    /\ pc[Master] # "gone"
    /\ pc[Master] = "out" => Pend = {}
    /\ Pend \subseteq added

CountsRight ==
    /\ nIdle = Cardinality(Resting) + Leak
    /\ nTotal = Cardinality(Inside) + Leak
    /\ ~stopping => pending = {}

\* A failure on record is one of this block's; while none is, everything that
\* was run and accounted for succeeded.
FailuresRight ==
    /\ pc[Master] = "out" => fAllOk = TRUE
    /\ fAllOk = TRUE => added \ Pend \subseteq Good \/ pc[Master] = "out"
    /\ fAllOk = FALSE => ~(added \subseteq Good)
    /\ \A t \in Thread : pc[t] \in {"check", "done"} /\ fOk[t] = FALSE => ~(added \subseteq Good)
    /\ \A t \in Thread : pc[t] = "done" /\ fOk[t] = TRUE => batch[t] \subseteq Good

\* The inductive invariant.
IInv == TypeOK /\ ThreadsRight /\ NothingLost /\ CountsRight /\ FailuresRight /\ VerdictRight

-----------------------------------------------------------------------------
\* There are finitely many threads, so the counts of threads are numbers.
LEMMA ThreadsFinite == IsFiniteSet(Thread)
BY CheckQueueAssumption, FS_AddElement DEF Thread

\* Membership in Pend and Rest, in first-order form.
LEMMA PendMembers ==
    /\ \A c : c \in Pend <=> c \in queue \/ \E t \in Thread : c \in batch[t]
    /\ \A t, c : c \in Rest(t) <=> c \in queue \/ \E u \in Thread : u # t /\ c \in batch[u]
BY DEF Pend, Rest

\* Everything nTodo, nIdle and nTotal count is finite.
LEMMA AllFinite ==
    ASSUME TypeOK
    PROVE  /\ IsFiniteSet(queue) /\ IsFiniteSet(Pend)
           /\ \A t \in Thread : IsFiniteSet(batch[t]) /\ IsFiniteSet(Rest(t))
           /\ IsFiniteSet(Resting) /\ IsFiniteSet(Inside)
           /\ \A S \in SUBSET Check : IsFiniteSet(S)
<1>1. \A S \in SUBSET Check : IsFiniteSet(S)
  BY CheckQueueAssumption, FS_Subset
<1>2. Pend \in SUBSET Check /\ \A t \in Thread : batch[t] \in SUBSET Check /\ Rest(t) \in SUBSET Check
  BY PendMembers DEF TypeOK
<1>3. IsFiniteSet(Resting) /\ IsFiniteSet(Inside)
  BY ThreadsFinite, FS_Subset DEF Resting, Inside
<1> QED BY <1>1, <1>2, <1>3 DEF TypeOK

\* The clean-up at the lock leaves the counts and the result as they are
\* without t's batch.
LEMMA CleanUp ==
    ASSUME IInv, NEW t \in Thread, AtLock(t)
    PROVE  /\ Rest(t) = Pend \ batch[t]
           /\ Todo(t) = Cardinality(Rest(t)) /\ Todo(t) \in Nat
           /\ Idle(t) = Cardinality(Resting \ {t}) + Leak /\ Idle(t) \in Nat
           /\ Total(t) = Cardinality(Inside \cup {t}) + Leak /\ Total(t) \in Nat
           /\ AllOk(t) \in BOOLEAN
           /\ AllOk(t) = TRUE => added \ Rest(t) \subseteq Good \/ pc[Master] = "out"
           /\ AllOk(t) = FALSE => ~(added \subseteq Good)
           /\ pc[t] # "done" => batch[t] = {}
<1> USE DEF IInv
<1>1. Rest(t) = Pend \ batch[t]
  <2>1. \A c \in Rest(t) : c \in Pend /\ c \notin batch[t]
    BY PendMembers DEF NothingLost
  <2>2. \A c \in Pend : c \notin batch[t] => c \in Rest(t)
    BY PendMembers
  <2> QED BY <2>1, <2>2
<1>2. pc[t] # "done" => batch[t] = {}
  BY DEF AtLock, ThreadsRight
<1>3. Todo(t) = Cardinality(Rest(t)) /\ Todo(t) \in Nat
  <2>1. Cardinality(Pend \ batch[t]) = Cardinality(Pend) - Cardinality(Pend \cap batch[t])
    BY AllFinite, FS_Difference
  <2>2. Pend \cap batch[t] = batch[t]
    BY PendMembers
  <2>3. Cardinality(Rest(t)) = nTodo - Cardinality(batch[t])
    BY <1>1, <2>1, <2>2 DEF NothingLost, Pend
  <2>4. Cardinality(Rest(t)) \in Nat /\ Cardinality({}) = 0 /\ nTodo \in Nat
    BY AllFinite, FS_CardinalityType, FS_EmptySet DEF TypeOK
  <2>5. CASE pc[t] = "done"
    BY <2>3, <2>4, <2>5 DEF Todo
  <2>6. CASE pc[t] # "done"
    <3>1. Cardinality(batch[t]) = 0
      BY <1>2, <2>4, <2>6
    <3> QED BY <2>3, <2>4, <2>6, <3>1 DEF Todo
  <2> QED BY <2>5, <2>6
<1>4. /\ Cardinality(Resting) \in Nat /\ Cardinality(Resting \ {t}) \in Nat
      /\ Cardinality(Inside \cup {t}) \in Nat /\ Cardinality(Inside) \in Nat
      /\ Leak \in Nat
  BY AllFinite, FS_CardinalityType, FS_RemoveElement, FS_AddElement DEF Leak
<1>5. Idle(t) = Cardinality(Resting \ {t}) + Leak /\ Idle(t) \in Nat
  <2>1. pc[t] = "woken" <=> t \in Resting
    BY DEF AtLock, Resting
  <2>2. Cardinality(Resting \ {t}) = IF t \in Resting THEN Cardinality(Resting) - 1 ELSE Cardinality(Resting)
    BY AllFinite, FS_RemoveElement
  <2> QED BY <1>4, <2>1, <2>2 DEF Idle, CountsRight
<1>6. Total(t) = Cardinality(Inside \cup {t}) + Leak /\ Total(t) \in Nat
  <2>1. pc[t] = "enter" <=> t \notin Inside
    BY DEF AtLock, Inside
  <2>2. Cardinality(Inside \cup {t}) = IF t \in Inside THEN Cardinality(Inside) ELSE Cardinality(Inside) + 1
    BY AllFinite, FS_AddElement
  <2> QED BY <1>4, <2>1, <2>2 DEF Total, CountsRight
<1>7. AllOk(t) \in BOOLEAN
  BY DEF AllOk, TypeOK
<1>8. AllOk(t) = FALSE => ~(added \subseteq Good)
  BY DEF AllOk, FailuresRight, TypeOK
<1>9. AllOk(t) = TRUE => added \ Rest(t) \subseteq Good \/ pc[Master] = "out"
  <2> SUFFICES ASSUME AllOk(t) = TRUE, pc[Master] # "out" PROVE added \ Rest(t) \subseteq Good
    OBVIOUS
  <2>1. added \ Pend \subseteq Good
    BY DEF AllOk, FailuresRight, TypeOK
  <2>2. batch[t] \subseteq Good
    BY <1>2 DEF AllOk, FailuresRight, TypeOK
  <2> QED BY <1>1, <2>1, <2>2
<1> QED BY <1>1, <1>2, <1>3, <1>5, <1>6, <1>7, <1>8, <1>9

\* Where the threads are after one of them passed the lock.
LEMMA GoesSomewhere ==
    ASSUME TypeOK, NEW t \in Thread, NEW where \in PC, Goes(t, where)
    PROVE  /\ pc' \in [Thread -> PC] /\ pc'[t] = where
           /\ \A x \in Thread : x # t =>
              pc'[x] = pc[x] \/ (x = Master /\ pc[x] = "wait" /\ pc'[x] = "woken")
           /\ Resting' = IF where \in {"wait", "woken", "gone"} THEN Resting \cup {t} ELSE Resting \ {t}
           /\ Inside' = IF where \in {"wait", "woken", "gone", "check", "done"}
                        THEN Inside \cup {t} ELSE Inside \ {t}
<1>1. Master \in Thread
  BY DEF Thread
<1>2. pc' \in [Thread -> PC] /\ pc'[t] = where
  BY DEF Goes, TypeOK, PC
<1>3. \A x \in Thread : x # t =>
              pc'[x] = pc[x] \/ (x = Master /\ pc[x] = "wait" /\ pc'[x] = "woken")
  BY <1>1 DEF Goes, TypeOK, WakesMaster
<1>4. Resting' = IF where \in {"wait", "woken", "gone"} THEN Resting \cup {t} ELSE Resting \ {t}
  BY <1>2, <1>3 DEF Resting
<1>5. Inside' = IF where \in {"wait", "woken", "gone", "check", "done"}
                THEN Inside \cup {t} ELSE Inside \ {t}
  BY <1>2, <1>3 DEF Inside
<1> QED BY <1>2, <1>3, <1>4, <1>5

\* The master leaves: everything has been run and accounted for.
LEMMA LeaveKeeps ==
    ASSUME IInv, NEW t \in Thread, Leave(t)
    PROVE  IInv'
<1> USE DEF IInv
<1>1. AtLock(t) /\ t = Master /\ queue = {} /\ Todo(t) = 0
  BY DEF Leave
<1>2. Goes(t, "out") /\ "out" \in PC
  BY DEF Leave, PC
<1>3. /\ Rest(t) = {} /\ Pend = batch[t]
      /\ Idle(t) = Cardinality(Resting \ {t}) + Leak /\ Idle(t) \in Nat
      /\ Total(t) = Cardinality(Inside \cup {t}) + Leak
  <2>1. Rest(t) = {}
    BY <1>1, CleanUp, AllFinite, FS_EmptySet
  <2> QED BY <1>1, <2>1, CleanUp, PendMembers
<1>4. /\ \A u \in Thread : batch'[u] = {}
      /\ batch' \in [Thread -> SUBSET Check] /\ queue' = {}
  <2>1. \A u \in Thread : u # t => batch[u] = {}
    BY <1>3, PendMembers
  <2> QED BY <1>1, <2>1 DEF Leave, TypeOK
<1>5. Pend' = {}
  BY <1>4, PendMembers DEF Pend
<1>6. /\ pc' \in [Thread -> PC] /\ pc'[t] = "out"
      /\ \A x \in Thread : x # t => pc'[x] = pc[x]
      /\ Resting' = Resting \ {t} /\ Inside' = Inside \ {t}
  BY <1>1, <1>2, GoesSomewhere
<1>7. Leak' = Leak /\ Leak \in Nat
  BY DEF Leave, Leak
<1>8. /\ nIdle' = Cardinality(Resting') + Leak' /\ nIdle' \in Nat
      /\ nTotal' = Cardinality(Inside') + Leak' /\ nTotal' \in Nat
  <2>1. IsFiniteSet(Inside) /\ IsFiniteSet(Inside \cup {t})
    BY AllFinite, FS_AddElement
  <2>2. /\ Cardinality((Inside \cup {t}) \ {t}) = Cardinality(Inside \cup {t}) - 1
        /\ Cardinality(Inside \ {t}) \in Nat
    BY <2>1, FS_RemoveElement, FS_CardinalityType
  <2>3. (Inside \cup {t}) \ {t} = Inside \ {t}
    OBVIOUS
  <2>4. Cardinality(Inside \ {t}) = Cardinality(Inside \cup {t}) - 1 /\ Cardinality(Inside \cup {t}) \in Nat
    BY <2>1, <2>2, <2>3, FS_CardinalityType
  <2> QED BY <1>3, <1>6, <1>7, <2>2, <2>4 DEF Leave
<1>9. TypeOK'
  BY <1>4, <1>6, <1>8 DEF Leave, TypeOK
<1>10. ThreadsRight'
  <2>1. \A u \in Thread : pc'[u] \notin {"check", "done"}
    BY <1>1, <1>3, <1>6, PendMembers DEF ThreadsRight
  <2>2. \A w \in Worker : w # t /\ pc'[w] = pc[w]
    BY <1>1, <1>6, CheckQueueAssumption DEF Thread
  <2> QED BY <1>1, <1>4, <1>5, <1>6, <2>1, <2>2 DEF ThreadsRight
<1>11. NothingLost'
  BY <1>4, <1>5, FS_EmptySet DEF NothingLost, Leave, Pend
<1>12. CountsRight'
  BY <1>8 DEF CountsRight, Leave
<1>13. \A u \in Thread : pc'[u] \notin {"check", "done"}
  BY <1>4, <1>10 DEF ThreadsRight
<1>14. FailuresRight'
  BY <1>1, <1>6, <1>13 DEF FailuresRight, Leave
<1>15. VerdictRight'
  <2>1. pc[Master] # "out"
    BY <1>1 DEF AtLock
  <2>2. /\ AllOk(t) \in BOOLEAN
        /\ AllOk(t) = TRUE => added \subseteq Good
        /\ AllOk(t) = FALSE => ~(added \subseteq Good)
    BY <1>1, <1>3, <2>1, CleanUp
  <2> QED BY <2>2 DEF VerdictRight, Leave
<1> QED BY <1>9, <1>10, <1>11, <1>12, <1>14, <1>15

\* A thread goes to sleep.
LEMMA SleepKeeps ==
    ASSUME IInv, NEW t \in Thread, Sleep(t)
    PROVE  IInv'
<1> USE DEF IInv
<1>1. AtLock(t) /\ queue = {} /\ Goes(t, "wait") /\ "wait" \in PC
  BY DEF Sleep, PC
<1>2. /\ Rest(t) = Pend \ batch[t]
      /\ Todo(t) = Cardinality(Rest(t)) /\ Todo(t) \in Nat
      /\ Idle(t) = Cardinality(Resting \ {t}) + Leak /\ Idle(t) \in Nat
      /\ Total(t) = Cardinality(Inside \cup {t}) + Leak /\ Total(t) \in Nat
      /\ AllOk(t) \in BOOLEAN
      /\ AllOk(t) = TRUE => added \ Rest(t) \subseteq Good \/ pc[Master] = "out"
      /\ AllOk(t) = FALSE => ~(added \subseteq Good)
  BY <1>1, CleanUp
<1>3. /\ batch' \in [Thread -> SUBSET Check] /\ batch'[t] = {} /\ queue' = queue
      /\ \A u \in Thread : u # t => batch'[u] = batch[u]
  BY DEF Sleep, TypeOK
<1>4. Pend' = Rest(t)
  BY <1>3, PendMembers DEF Pend
<1>5. /\ pc' \in [Thread -> PC] /\ pc'[t] = "wait"
      /\ \A x \in Thread : x # t =>
              pc'[x] = pc[x] \/ (x = Master /\ pc[x] = "wait" /\ pc'[x] = "woken")
      /\ Resting' = Resting \cup {t} /\ Inside' = Inside \cup {t}
  BY <1>1, GoesSomewhere
<1>6. pc[t] # "out" /\ pc[t] # "adding" /\ Master \in Thread /\ Worker \subseteq Thread
  BY <1>1 DEF AtLock, Thread
<1>7. Leak' = Leak /\ Leak \in Nat
  BY DEF Sleep, Leak
<1>8. /\ nIdle' = Cardinality(Resting') + Leak' /\ nIdle' \in Nat
      /\ nTotal' = Cardinality(Inside') + Leak' /\ nTotal' \in Nat
  <2>1. IsFiniteSet(Resting \ {t})
    BY AllFinite, FS_RemoveElement
  <2>2. /\ Cardinality((Resting \ {t}) \cup {t}) = Cardinality(Resting \ {t}) + 1
        /\ Cardinality(Resting \ {t}) \in Nat
    BY <2>1, FS_AddElement, FS_CardinalityType
  <2>3. (Resting \ {t}) \cup {t} = Resting \cup {t}
    OBVIOUS
  <2>4. Cardinality(Resting') = Cardinality(Resting \ {t}) + 1
    BY <1>5, <2>2, <2>3
  <2>5. nIdle' = Idle(t) + 1 /\ nTotal' = Total(t)
    BY DEF Sleep, Sleeps
  <2>6. nTotal' = Cardinality(Inside') + Leak' /\ nTotal' \in Nat
    BY <1>2, <1>5, <1>7, <2>5
  <2> QED BY <1>2, <1>7, <2>2, <2>4, <2>5, <2>6
<1>9. TypeOK'
  BY <1>2, <1>3, <1>5, <1>8 DEF Sleep, TypeOK
<1>10. ThreadsRight'
  <2>1. \A u \in Thread : pc'[u] \in {"check", "done"} <=> batch'[u] # {}
    BY <1>3, <1>5 DEF ThreadsRight
  <2>2. pc'[Master] = "out" => pc[Master] = "out"
    BY <1>5, <1>6
  <2>3. added' = added
    BY DEF Sleep
  <2> QED BY <1>2, <1>4, <1>5, <1>6, <2>1, <2>2, <2>3 DEF ThreadsRight
<1>11. NothingLost'
  <2>1. nTodo' = Cardinality(Pend')
    BY <1>2, <1>4 DEF Sleep
  <2> QED BY <1>3, <2>1 DEF NothingLost, Pend
<1>12. CountsRight'
  BY <1>8 DEF CountsRight, Sleep
<1>13. FailuresRight'
  <2>1. fAllOk' = AllOk(t) /\ added' = added /\ fOk' = fOk
    BY DEF Sleep
  <2>2. pc'[Master] = "out" <=> pc[Master] = "out"
    BY <1>5, <1>6
  <2>3. pc[Master] = "out" => AllOk(t) = TRUE
    BY <1>1, <1>6, PendMembers DEF AllOk, ThreadsRight, FailuresRight
  <2>4. \A u \in Thread : /\ pc'[u] \in {"check", "done"} => u # t /\ pc'[u] = pc[u]
    BY <1>5
  <2> QED BY <1>2, <1>3, <1>4, <2>1, <2>2, <2>3, <2>4 DEF FailuresRight
<1>14. VerdictRight'
  BY <1>5, <1>6 DEF VerdictRight, Sleep
<1> QED BY <1>9, <1>10, <1>11, <1>12, <1>13, <1>14

\* A thread takes a batch.
LEMMA TakeKeeps ==
    ASSUME IInv, NEW t \in Thread, Take(t)
    PROVE  IInv'
<1> USE DEF IInv
<1>1. AtLock(t) /\ Goes(t, "check") /\ "check" \in PC
  BY DEF Take, PC
<1>2. /\ Rest(t) = Pend \ batch[t]
      /\ Todo(t) = Cardinality(Rest(t)) /\ Todo(t) \in Nat
      /\ Idle(t) = Cardinality(Resting \ {t}) + Leak /\ Idle(t) \in Nat
      /\ Total(t) = Cardinality(Inside \cup {t}) + Leak /\ Total(t) \in Nat
      /\ AllOk(t) \in BOOLEAN
      /\ AllOk(t) = TRUE => added \ Rest(t) \subseteq Good \/ pc[Master] = "out"
      /\ AllOk(t) = FALSE => ~(added \subseteq Good)
  BY <1>1, CleanUp
<1>3. PICK B \in SUBSET queue : /\ Cardinality(B) = Share(t)
                                /\ queue' = queue \ B
                                /\ batch' = [batch EXCEPT ![t] = B]
  BY DEF Take
<1>4. B # {}
  <2>1. Cardinality(queue) \in Nat /\ Cardinality({}) = 0
    BY AllFinite, FS_CardinalityType, FS_EmptySet
  <2>2. Share(t) # 0
    BY DEF Share, Larger
  <2> QED BY <1>3, <2>1, <2>2
<1>5. /\ batch' \in [Thread -> SUBSET Check] /\ batch'[t] = B
      /\ \A u \in Thread : u # t => batch'[u] = batch[u]
  BY <1>3 DEF TypeOK
<1>6. Pend' = Rest(t)
  <2>1. \A c : c \in Pend' <=> c \in queue' \/ \E u \in Thread : c \in batch'[u]
    BY DEF Pend
  <2> QED BY <1>3, <1>5, <2>1, PendMembers
<1>7. /\ pc' \in [Thread -> PC] /\ pc'[t] = "check"
      /\ \A x \in Thread : x # t =>
              pc'[x] = pc[x] \/ (x = Master /\ pc[x] = "wait" /\ pc'[x] = "woken")
      /\ Resting' = Resting \ {t} /\ Inside' = Inside \cup {t}
  BY <1>1, GoesSomewhere
<1>8. pc[t] # "out" /\ pc[t] # "adding" /\ Master \in Thread /\ Worker \subseteq Thread
  BY <1>1 DEF AtLock, Thread
<1>9. Leak' = Leak /\ nIdle' = Idle(t) /\ nTotal' = Total(t) /\ nTodo' = Todo(t)
  BY DEF Take, Leak
<1>10. TypeOK'
  BY <1>2, <1>3, <1>5, <1>7, <1>9 DEF Take, TypeOK
<1>11. ThreadsRight'
  <2>1. \A u \in Thread : pc'[u] \in {"check", "done"} <=> batch'[u] # {}
    BY <1>4, <1>5, <1>7 DEF ThreadsRight
  <2>2. pc'[Master] = "out" => pc[Master] = "out"
    BY <1>7, <1>8
  <2>3. added' = added
    BY DEF Take
  <2> QED BY <1>2, <1>6, <1>7, <1>8, <2>1, <2>2, <2>3 DEF ThreadsRight
<1>12. NothingLost'
  <2>1. nTodo' = Cardinality(Pend')
    BY <1>2, <1>6, <1>9
  <2>2. \A u \in Thread : batch'[u] \cap queue' = {}
    BY <1>3, <1>5 DEF NothingLost
  <2>3. \A u, v \in Thread : u # v => batch'[u] \cap batch'[v] = {}
    BY <1>3, <1>5 DEF NothingLost
  <2> QED BY <2>1, <2>2, <2>3 DEF NothingLost, Pend
<1>13. CountsRight'
  BY <1>2, <1>7, <1>9 DEF CountsRight, Take
<1>14. FailuresRight'
  <2>1. fAllOk' = AllOk(t) /\ added' = added /\ fOk'[t] = AllOk(t)
    BY DEF Take, TypeOK
  <2>2. pc'[Master] = "out" <=> pc[Master] = "out"
    BY <1>7, <1>8
  <2>3. pc[Master] = "out" => AllOk(t) = TRUE
    BY <1>1, <1>8, PendMembers DEF AllOk, ThreadsRight, FailuresRight
  <2>4. \A u \in Thread : u # t => /\ fOk'[u] = fOk[u]
                                   /\ pc'[u] \in {"check", "done"} => pc'[u] = pc[u]
    BY <1>7 DEF Take, TypeOK
  <2>5. \A u \in Thread : pc'[u] \in {"check", "done"} /\ fOk'[u] = FALSE => ~(added' \subseteq Good)
    <3> TAKE u \in Thread
    <3>1. CASE u = t
      BY <1>2, <2>1, <3>1
    <3>2. CASE u # t
      BY <2>1, <2>4, <3>2 DEF FailuresRight
    <3> QED BY <3>1, <3>2
  <2>6. \A u \in Thread : pc'[u] = "done" /\ fOk'[u] = TRUE => batch'[u] \subseteq Good
    <3> TAKE u \in Thread
    <3>1. CASE u = t
      BY <1>7, <3>1
    <3>2. CASE u # t
      BY <1>5, <2>4, <3>2 DEF FailuresRight
    <3> QED BY <3>1, <3>2
  <2>7. /\ pc'[Master] = "out" => fAllOk' = TRUE
        /\ fAllOk' = TRUE => added' \ Pend' \subseteq Good \/ pc'[Master] = "out"
        /\ fAllOk' = FALSE => ~(added' \subseteq Good)
    BY <1>2, <1>6, <2>1, <2>2, <2>3
  <2> QED BY <2>5, <2>6, <2>7 DEF FailuresRight
<1>15. VerdictRight'
  BY <1>7, <1>8 DEF VerdictRight, Take
<1> QED BY <1>10, <1>11, <1>12, <1>13, <1>14, <1>15

\* A thread runs its batch.
LEMMA ExecuteKeeps ==
    ASSUME IInv, NEW t \in Thread, Execute(t)
    PROVE  IInv'
<1> USE DEF IInv
<1>1. /\ pc[t] = "check" /\ pc'[t] = "done" /\ pc' \in [Thread -> PC]
      /\ \A u \in Thread : u # t => pc'[u] = pc[u] /\ fOk'[u] = fOk[u]
      /\ fOk' \in [Thread -> BOOLEAN]
      /\ fOk'[t] = (fOk[t] /\ batch[t] \subseteq Good)
  BY DEF Execute, TypeOK, PC
<1>2. /\ queue' = queue /\ nIdle' = nIdle /\ nTotal' = nTotal /\ nTodo' = nTodo
      /\ fAllOk' = fAllOk /\ batch' = batch /\ added' = added /\ verdict' = verdict
      /\ stopping' = stopping /\ pending' = pending
  BY DEF Execute, shared
<1>3. Pend' = Pend /\ Resting' = Resting /\ Inside' = Inside /\ Leak' = Leak
  BY <1>1, <1>2 DEF Pend, Resting, Inside, Leak
<1>4. batch[t] \subseteq added
  BY PendMembers DEF ThreadsRight
<1>5. Master \in Thread /\ Worker \subseteq Thread
  BY DEF Thread
<1>6. TypeOK'
  BY <1>1, <1>2 DEF TypeOK
<1>7. ThreadsRight'
  BY <1>1, <1>2, <1>3, <1>5 DEF ThreadsRight
<1>8. NothingLost'
  BY <1>2 DEF NothingLost
<1>9. CountsRight'
  BY <1>2, <1>3 DEF CountsRight
<1>10. FailuresRight'
  <2>1. \A u \in Thread : pc'[u] \in {"check", "done"} /\ fOk'[u] = FALSE => ~(added' \subseteq Good)
    BY <1>1, <1>2, <1>4 DEF FailuresRight, TypeOK
  <2>2. \A u \in Thread : pc'[u] = "done" /\ fOk'[u] = TRUE => batch'[u] \subseteq Good
    BY <1>1, <1>2 DEF FailuresRight
  <2>3. pc'[Master] = "out" <=> pc[Master] = "out"
    BY <1>1, <1>5
  <2> QED BY <1>2, <1>3, <2>1, <2>2, <2>3 DEF FailuresRight
<1>11. VerdictRight'
  BY <1>1, <1>2, <1>5 DEF VerdictRight
<1> QED BY <1>6, <1>7, <1>8, <1>9, <1>10, <1>11

\* The steps that only move threads between places with the same obligations:
\* a wakeup, and Wait's entry into Loop.
LEMMA MovesKeep ==
    ASSUME IInv, UNCHANGED <<shared, batch, fOk, added, verdict, stopping, pending>>,
           NEW t \in Thread, NEW where \in PC,
           pc' = [pc EXCEPT ![t] = where],
           \/ pc[t] = "wait" /\ where = "woken"
           \/ pc[t] = "adding" /\ where = "enter"
    PROVE  IInv'
<1> USE DEF IInv
<1>1. /\ pc'[t] = where /\ pc' \in [Thread -> PC]
      /\ \A u \in Thread : u # t => pc'[u] = pc[u]
  BY DEF TypeOK
<1>2. /\ queue' = queue /\ nIdle' = nIdle /\ nTotal' = nTotal /\ nTodo' = nTodo
      /\ fAllOk' = fAllOk /\ batch' = batch /\ added' = added /\ verdict' = verdict
      /\ stopping' = stopping /\ pending' = pending /\ fOk' = fOk
  BY DEF shared
<1>3. Pend' = Pend /\ Resting' = Resting /\ Inside' = Inside /\ Leak' = Leak
  BY <1>1, <1>2 DEF Pend, Resting, Inside, Leak
<1>4. Master \in Thread /\ Worker \subseteq Thread
  BY DEF Thread
<1>5. TypeOK'
  BY <1>1, <1>2 DEF TypeOK
<1>6. ThreadsRight'
  BY <1>1, <1>2, <1>3, <1>4 DEF ThreadsRight
<1>7. NothingLost' /\ CountsRight'
  BY <1>2, <1>3 DEF NothingLost, CountsRight
<1>8. FailuresRight'
  BY <1>1, <1>2, <1>3, <1>4 DEF FailuresRight
<1>9. VerdictRight'
  BY <1>1, <1>2, <1>4 DEF VerdictRight
<1> QED BY <1>5, <1>6, <1>7, <1>8, <1>9

\* A new block begins.
LEMMA ControlKeeps ==
    ASSUME IInv, Control
    PROVE  IInv'
<1> USE DEF IInv
<1>1. /\ pc[Master] = "out" /\ pc'[Master] = "adding" /\ pc' \in [Thread -> PC]
      /\ \A u \in Thread : u # Master => pc'[u] = pc[u]
      /\ Master \in Thread /\ Worker \subseteq Thread
  BY DEF Control, TypeOK, Thread, PC
<1>2. /\ queue' = queue /\ nIdle' = nIdle /\ nTotal' = nTotal /\ nTodo' = nTodo
      /\ fAllOk' = fAllOk /\ batch' = batch /\ added' = {} /\ verdict' = verdict
      /\ stopping' = stopping /\ pending' = pending /\ fOk' = fOk
  BY DEF Control, shared
<1>3. Pend' = Pend /\ Resting' = Resting /\ Inside' = Inside /\ Leak' = Leak
  BY <1>1, <1>2 DEF Pend, Resting, Inside, Leak
<1>4. Pend = {} /\ fAllOk = TRUE
  BY <1>1 DEF ThreadsRight, FailuresRight
<1>5. \A u \in Thread : batch[u] = {}
  BY <1>4, PendMembers
<1>6. TypeOK'
  BY <1>1, <1>2 DEF TypeOK
<1>7. ThreadsRight'
  BY <1>1, <1>2, <1>3, <1>4, CheckQueueAssumption DEF ThreadsRight
<1>8. NothingLost' /\ CountsRight'
  BY <1>2, <1>3 DEF NothingLost, CountsRight
<1>9. \A u \in Thread : pc'[u] \notin {"check", "done"}
  BY <1>1, <1>5 DEF ThreadsRight
<1>10. FailuresRight'
  BY <1>1, <1>2, <1>4, <1>9 DEF FailuresRight
<1>11. VerdictRight'
  BY <1>1 DEF VerdictRight
<1> QED BY <1>6, <1>7, <1>8, <1>10, <1>11

\* The master adds checks.
LEMMA AddKeeps ==
    ASSUME IInv, NEW S \in SUBSET Check, Add(S)
    PROVE  IInv'
<1> USE DEF IInv
<1>1. /\ pc[Master] = "adding" /\ S \cap added = {}
      /\ queue' = queue \cup S /\ added' = added \cup S /\ nTodo' = nTodo + Cardinality(S)
      /\ nIdle' = nIdle /\ nTotal' = nTotal /\ fAllOk' = fAllOk /\ batch' = batch
      /\ fOk' = fOk /\ verdict' = verdict /\ stopping' = stopping /\ pending' = pending
  BY DEF Add
<1>2. Master \in Thread /\ Worker \subseteq Thread
  BY DEF Thread
<1>3. PICK woken \in SUBSET {w \in Worker : pc[w] = "wait"} :
         pc' = [t \in Thread |-> IF t \in woken THEN "woken" ELSE pc[t]]
  BY DEF Add, Woken
<1>4. /\ pc' \in [Thread -> PC]
      /\ \A t \in Thread : pc'[t] = pc[t] \/ (t \in Worker /\ pc[t] = "wait" /\ pc'[t] = "woken")
  BY <1>3 DEF TypeOK, PC
<1>5. Resting' = Resting /\ Inside' = Inside /\ Leak' = Leak
  BY <1>1, <1>4 DEF Resting, Inside, Leak
<1>6. pc'[Master] = "adding"
  BY <1>1, <1>2, <1>4, CheckQueueAssumption
<1>7. Pend' = Pend \cup S
  BY <1>1 DEF Pend
<1>8. Pend \cap S = {}
  BY <1>1 DEF ThreadsRight
<1>9. nTodo' = Cardinality(Pend') /\ nTodo' \in Nat
  <2>1. IsFiniteSet(Pend) /\ IsFiniteSet(S) /\ Cardinality(S) \in Nat /\ Cardinality(Pend) \in Nat
    BY AllFinite, FS_CardinalityType
  <2>2. Cardinality(Pend \cap S) = 0
    BY <1>8, FS_EmptySet
  <2>3. Cardinality(Pend \cup S) = Cardinality(Pend) + Cardinality(S) - Cardinality(Pend \cap S)
    BY <2>1, FS_Union
  <2>4. nTodo = Cardinality(Pend)
    BY DEF NothingLost, Pend
  <2> QED BY <1>1, <1>7, <2>1, <2>2, <2>3, <2>4
<1>10. TypeOK'
  BY <1>1, <1>4, <1>9 DEF TypeOK
<1>11. ThreadsRight'
  BY <1>1, <1>2, <1>4, <1>6, <1>7 DEF ThreadsRight
<1>12. NothingLost'
  <2>1. \A t \in Thread : batch[t] \cap S = {}
    BY <1>8, PendMembers
  <2> QED BY <1>1, <1>9, <2>1 DEF NothingLost, Pend
<1>13. CountsRight'
  BY <1>1, <1>5 DEF CountsRight
<1>14. FailuresRight'
  <2>1. \A t \in Thread : pc'[t] \in {"check", "done"} => pc'[t] = pc[t]
    BY <1>4
  <2>2. added' \ Pend' = added \ Pend
    BY <1>1, <1>7
  <2>3. added' \subseteq Good => added \subseteq Good
    BY <1>1
  <2>4. \A t \in Thread : pc'[t] \in {"check", "done"} /\ fOk'[t] = FALSE => ~(added' \subseteq Good)
    BY <1>1, <2>1, <2>3 DEF FailuresRight
  <2>5. \A t \in Thread : pc'[t] = "done" /\ fOk'[t] = TRUE => batch'[t] \subseteq Good
    BY <1>1, <2>1 DEF FailuresRight
  <2> QED BY <1>1, <1>6, <2>2, <2>3, <2>4, <2>5 DEF FailuresRight
<1>15. VerdictRight'
  BY <1>6 DEF VerdictRight
<1> QED BY <1>10, <1>11, <1>12, <1>13, <1>14, <1>15

\* The threads are interrupted.
LEMMA InterruptAllKeeps ==
    ASSUME IInv, InterruptAll
    PROVE  IInv'
<1> USE DEF IInv
<1>1. /\ ~stopping /\ stopping' = TRUE /\ pending' = Thread
      /\ queue' = queue /\ nIdle' = nIdle /\ nTotal' = nTotal /\ nTodo' = nTodo
      /\ fAllOk' = fAllOk /\ batch' = batch /\ added' = added /\ verdict' = verdict
      /\ pc' = pc /\ fOk' = fOk
  BY DEF InterruptAll, shared
<1>2. Leak' = 0 /\ Leak = 0
  BY <1>1 DEF Leak, Thread
<1>3. Pend' = Pend /\ Resting' = Resting /\ Inside' = Inside
  BY <1>1 DEF Pend, Resting, Inside
<1>4. TypeOK' /\ ThreadsRight' /\ NothingLost' /\ FailuresRight' /\ VerdictRight'
  BY <1>1, <1>3 DEF TypeOK, ThreadsRight, NothingLost, FailuresRight, VerdictRight
<1>5. CountsRight'
  BY <1>1, <1>2, <1>3 DEF CountsRight
<1> QED BY <1>4, <1>5

\* The interruption reaches a thread. A worker stays in both counts, and what
\* the master leaves in them is the leak.
LEMMA UnwindKeeps ==
    ASSUME IInv, NEW t \in Thread, Unwind(t)
    PROVE  IInv'
<1> USE DEF IInv
<1>1. /\ t \in pending /\ pc[t] \in {"wait", "woken"} /\ pending' = pending \ {t}
      /\ queue' = queue /\ nIdle' = nIdle /\ nTotal' = nTotal /\ nTodo' = nTodo
      /\ fAllOk' = fAllOk /\ batch' = batch /\ added' = added /\ verdict' = verdict
      /\ stopping' = stopping /\ fOk' = fOk
  BY DEF Unwind, shared
<1>2. /\ pc' \in [Thread -> PC] /\ pc'[t] = IF t = Master THEN "enter" ELSE "gone"
      /\ \A u \in Thread : u # t => pc'[u] = pc[u]
  BY DEF Unwind, TypeOK, PC
<1>3. Master \in Thread /\ Worker \subseteq Thread
  BY DEF Thread
<1>4. Pend' = Pend
  BY <1>1 DEF Pend
<1>5. stopping
  BY <1>1 DEF CountsRight
<1>6. CountsRight'
  <2>1. CASE t = Master
    <3>1. Resting' = Resting \ {t} /\ Inside' = Inside \ {t} /\ t \in Resting /\ t \in Inside
      BY <1>1, <1>2, <2>1 DEF Resting, Inside
    <3>2. Leak = 0 /\ Leak' = 1
      BY <1>1, <1>5, <2>1 DEF Leak
    <3>3. /\ Cardinality(Resting \ {t}) = Cardinality(Resting) - 1 /\ Cardinality(Resting) \in Nat
          /\ Cardinality(Inside \ {t}) = Cardinality(Inside) - 1 /\ Cardinality(Inside) \in Nat
      BY <3>1, AllFinite, FS_RemoveElement, FS_CardinalityType
    <3>4. /\ Cardinality(Resting') + Leak' = Cardinality(Resting) + Leak
          /\ Cardinality(Inside') + Leak' = Cardinality(Inside) + Leak
      BY <3>1, <3>2, <3>3
    <3> QED BY <1>1, <1>5, <3>4 DEF CountsRight
  <2>2. CASE t # Master
    <3>1. Resting' = Resting /\ Inside' = Inside
      BY <1>1, <1>2, <2>2 DEF Resting, Inside
    <3>2. Leak' = Leak
      BY <1>1, <2>2 DEF Leak
    <3> QED BY <1>1, <1>5, <3>1, <3>2 DEF CountsRight
  <2> QED BY <2>1, <2>2
<1>7. TypeOK'
  BY <1>1, <1>2 DEF TypeOK
<1>8. ThreadsRight'
  <2>1. \A u \in Thread : pc'[u] \in {"check", "done"} <=> batch'[u] # {}
    BY <1>1, <1>2 DEF ThreadsRight
  <2>2. \A w \in Worker : pc'[w] \notin {"out", "adding"}
    BY <1>2, <1>3 DEF ThreadsRight
  <2>3. pc'[Master] # "gone" /\ (pc'[Master] = "out" => pc[Master] = "out")
    BY <1>1, <1>2, <1>3 DEF ThreadsRight
  <2> QED BY <1>1, <1>4, <2>1, <2>2, <2>3 DEF ThreadsRight
<1>9. NothingLost'
  BY <1>1 DEF NothingLost
<1>10. FailuresRight'
  <2>1. \A u \in Thread : pc'[u] \in {"check", "done"} => pc'[u] = pc[u]
    BY <1>2
  <2>2. pc'[Master] = "out" <=> pc[Master] = "out"
    BY <1>1, <1>2, <1>3
  <2>3. \A u \in Thread : pc'[u] \in {"check", "done"} /\ fOk'[u] = FALSE => ~(added' \subseteq Good)
    BY <1>1, <2>1 DEF FailuresRight
  <2>4. \A u \in Thread : pc'[u] = "done" /\ fOk'[u] = TRUE => batch'[u] \subseteq Good
    BY <1>1, <2>1 DEF FailuresRight
  <2> QED BY <1>1, <1>4, <2>2, <2>3, <2>4 DEF FailuresRight
<1>11. VerdictRight'
  BY <1>1, <1>2, <1>3 DEF VerdictRight
<1> QED BY <1>6, <1>7, <1>8, <1>9, <1>10, <1>11

-----------------------------------------------------------------------------
\* Nothing is queued and no worker has entered Loop.
LEMMA InitInv == Init => IInv
<1> SUFFICES ASSUME Init PROVE IInv
  OBVIOUS
<1> USE DEF Init
<1>1. Master \in Thread /\ Worker \subseteq Thread /\ Master \notin Worker
  BY CheckQueueAssumption DEF Thread
<1>2. TypeOK
  BY <1>1 DEF TypeOK, PC
<1>3. Pend = {}
  BY DEF Pend
<1>4. Resting = {} /\ Inside = {} /\ Leak = 0
  BY DEF Resting, Inside, Leak
<1>5. ThreadsRight
  BY <1>1, <1>3 DEF ThreadsRight
<1>6. NothingLost
  <2>1. nTodo = Cardinality(Pend)
    BY <1>3, FS_EmptySet
  <2> QED BY <2>1 DEF NothingLost, Pend
<1>7. CountsRight
  BY <1>4, FS_EmptySet DEF CountsRight
<1>8. FailuresRight /\ VerdictRight
  BY <1>1, <1>3 DEF FailuresRight, VerdictRight
<1> QED BY <1>2, <1>5, <1>6, <1>7, <1>8 DEF IInv

\* Every step of every thread keeps the invariant.
LEMMA NextInv == IInv /\ [Next]_vars => IInv'
<1> SUFFICES ASSUME IInv, [Next]_vars PROVE IInv'
  OBVIOUS
<1>1. ASSUME NEW t \in Thread, Loop(t) PROVE IInv'
  BY <1>1, LeaveKeeps, SleepKeeps, TakeKeeps, ExecuteKeeps DEF Loop
<1>2. ASSUME NEW t \in Thread, SpuriousWakeup(t) PROVE IInv'
  <2>1. "woken" \in PC
    BY DEF PC
  <2> QED BY <1>2, <2>1, MovesKeep DEF SpuriousWakeup
<1>3. ASSUME NEW t \in Thread, Unwind(t) PROVE IInv'
  BY <1>3, UnwindKeeps
<1>4. CASE Control
  BY <1>4, ControlKeeps
<1>5. ASSUME NEW S \in SUBSET Check, Add(S) PROVE IInv'
  BY <1>5, AddKeeps
<1>6. CASE Wait
  <2>1. "enter" \in PC /\ Master \in Thread
    BY DEF PC, Thread
  <2> QED BY <1>6, <2>1, MovesKeep DEF Wait
<1>7. CASE InterruptAll
  BY <1>7, InterruptAllKeeps
<1>8. CASE UNCHANGED vars
  BY <1>8 DEF vars, IInv, TypeOK, ThreadsRight, NothingLost, CountsRight, FailuresRight,
              VerdictRight, Pend, Resting, Inside, Leak
<1> QED BY <1>1, <1>2, <1>3, <1>4, <1>5, <1>6, <1>7, <1>8 DEF Next

\* The invariant is invariant.
LEMMA Invariance == Spec => []IInv
BY InitInv, NextInv, PTL DEF Spec

\* Between two blocks every thread that nTotal counts is one that nIdle counts.
LEMMA InvIdle == IInv => IdleBetweenBlocks
<1> SUFFICES ASSUME IInv, pc[Master] = "out" PROVE nTotal = nIdle /\ nTodo = 0 /\ fAllOk = TRUE
  BY DEF IdleBetweenBlocks
<1> USE DEF IInv
<1>1. Pend = {}
  BY DEF ThreadsRight
<1>2. \A t \in Thread : batch[t] = {}
  BY <1>1, PendMembers
<1>3. Inside = Resting
  BY <1>2 DEF ThreadsRight, Inside, Resting
<1>4. nTodo = Cardinality(Pend)
  BY DEF NothingLost, Pend
<1>5. nTodo = 0
  BY <1>1, <1>4, FS_EmptySet
<1> QED BY <1>3, <1>5 DEF CountsRight, FailuresRight

\* The queue's variables keep their types: in particular no counter of
\* CCheckQueue, unsigned or not, goes below zero.
THEOREM CountersNeverNegative == Spec => []TypeOK
<1>1. IInv => TypeOK
  BY DEF IInv
<1> QED BY <1>1, Invariance, PTL

\* The number nTodo is that of the checks queued or in a batch, none of which
\* is in two places: Loop's batches lose and repeat nothing.
THEOREM ChecksAreCounted == Spec => []NothingLost
<1>1. IInv => NothingLost
  BY DEF IInv
<1> QED BY <1>1, Invariance, PTL

\* Wait returns true exactly if all checks of its block succeed, for any number
\* of workers, any batch size, and interruptions at any time.
THEOREM VerdictIsRight == Spec => []VerdictRight
<1>1. IInv => VerdictRight
  BY DEF IInv
<1> QED BY <1>1, Invariance, PTL

\* The assertion in CCheckQueueControl's constructor never fails, although an
\* interrupted master leaves itself in nIdle and in nTotal.
THEOREM ConstructorAssertion == Spec => []IdleBetweenBlocks
BY InvIdle, Invariance, PTL
=============================================================================
