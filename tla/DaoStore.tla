------------------------------ MODULE DaoStore ------------------------------
(***************************************************************************)
(* What the layered state views promise for the items of the DAO, with no  *)
(* caches and no lists of answers: three plain maps.                       *)
(*   disk : what the chainstate database holds                             *)
(*   main : what readers of pcoinsTip see                                  *)
(*   work : what the code that connects or disconnects a block sees        *)
(* A consultation's answers are the answers that name it as their parent;  *)
(* they go when it goes.                                                   *)
(***************************************************************************)
CONSTANTS Key,       \* the items of all kinds
          Data,      \* what an item can hold
          NoData,    \* stands for an absent item
          Answers(_) \* the keys of the answers that have an item as parent

VARIABLES disk, main, work, open

vars == <<disk, main, work, open>>

Init == /\ disk = [k \in Key |-> NoData]
        /\ main = disk
        /\ work = disk
        /\ open = FALSE

\* Work on a block starts from what pcoinsTip shows.
Begin == /\ ~open
         /\ open' = TRUE
         /\ UNCHANGED <<disk, main, work>>

Put(k, d) == /\ open
             /\ work' = [work EXCEPT ![k] = d]
             /\ UNCHANGED <<disk, main, open>>

\* An item is taken back with all its answers.
Remove(k) == /\ open
             /\ work' = [j \in Key |-> IF j = k \/ j \in Answers(k) THEN NoData
                                       ELSE work[j]]
             /\ UNCHANGED <<disk, main, open>>

Commit == /\ open
          /\ main' = work
          /\ UNCHANGED <<disk, work, open>>

Close == /\ open
         /\ open' = FALSE
         /\ work' = main
         /\ UNCHANGED <<disk, main>>

Sync == /\ ~open
        /\ disk' = main
        /\ UNCHANGED <<main, work, open>>

Crash == /\ main' = disk
         /\ work' = disk
         /\ open' = FALSE
         /\ UNCHANGED disk

Next == \/ Begin \/ Commit \/ Close \/ Sync \/ Crash
        \/ \E k \in Key, d \in Data \cup {NoData} : Put(k, d)
        \/ \E k \in Key : Remove(k)

Spec == Init /\ [][Next]_vars
=============================================================================
