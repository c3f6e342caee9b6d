----------------------------- MODULE MCScheduler -----------------------------
EXTENDS Scheduler, TLC

CONSTANTS t1, t2, a, b, c

\* Two threads and tasks of the same and of different times, for ever or until
\* stopped in each way, and one thread with a task that repeats.
\* None of the tasks of the first three repeats.
After == (a :> 0) @@ (b :> 1) @@ (c :> 2)
With(threads, tasks, every, stop) ==
    [threads |-> threads, tasks |-> tasks, stop |-> stop, after |-> [k \in tasks |-> After[k]],
     every |-> [k \in tasks |-> IF k = a THEN every ELSE 0]]
MCSettings ==
    {With({t1, t2}, {b, c}, 0, "never"),
     With({t1, t2}, {a, b, c}, 0, "drain"),
     With({t1, t2}, {a, b}, 1, "now"),
     With({t1, t2}, {a, b}, 1, "interrupt"),
     With({t1}, {a, b, c}, 1, "never")}
=============================================================================
