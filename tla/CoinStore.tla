------------------------------ MODULE CoinStore ------------------------------
(***************************************************************************)
(* What the layered state views promise to the rest of the node, with no   *)
(* caches in sight: three plain maps from transaction ids to coins, each   *)
(* with the block it is the state of.                                      *)
(*   disk : what the chainstate database holds and a restart comes back to *)
(*   main : what readers of pcoinsTip see                                  *)
(*   work : what the code that connects or disconnects a block sees and    *)
(*          changes, until it commits or gives up                          *)
(***************************************************************************)
CONSTANTS Txid,     \* transaction ids
          Coins,    \* the possible contents of a CCoins
          Pruned,   \* the one with no unspent output; also stands for "absent"
          Block     \* block hashes

VARIABLES disk, diskBest, main, mainBest, work, workBest, open

vars == <<disk, diskBest, main, mainBest, work, workBest, open>>

Init == /\ disk = [t \in Txid |-> Pruned]
        /\ main = disk
        /\ work = disk
        /\ diskBest \in Block
        /\ mainBest = diskBest
        /\ workBest = diskBest
        /\ open = FALSE

\* Work on a block starts from what pcoinsTip shows.
Begin == /\ ~open
         /\ open' = TRUE
         /\ UNCHANGED <<disk, diskBest, main, mainBest, work, workBest>>

Put(t, c) == /\ open
             /\ work' = [work EXCEPT ![t] = c]
             /\ UNCHANGED <<disk, diskBest, main, mainBest, workBest, open>>

SetBest(b) == /\ open
              /\ workBest' = b
              /\ UNCHANGED <<disk, diskBest, main, mainBest, work, open>>

\* All changes of a block become visible at once, with its hash.
Commit == /\ open
          /\ main' = work
          /\ mainBest' = workBest
          /\ UNCHANGED <<disk, diskBest, work, workBest, open>>

\* The work is dropped; nothing of what was not committed remains.
Close == /\ open
         /\ open' = FALSE
         /\ work' = main
         /\ workBest' = mainBest
         /\ UNCHANGED <<disk, diskBest, main, mainBest>>

\* The database catches up in one atomic write.
Sync == /\ ~open
        /\ disk' = main
        /\ diskBest' = mainBest
        /\ UNCHANGED <<main, mainBest, work, workBest, open>>

\* The process stops; the next one starts from the database alone.
Crash == /\ main' = disk
         /\ mainBest' = diskBest
         /\ work' = disk
         /\ workBest' = diskBest
         /\ open' = FALSE
         /\ UNCHANGED <<disk, diskBest>>

Next == \/ Begin \/ Commit \/ Close \/ Sync \/ Crash
        \/ \E t \in Txid, c \in Coins : Put(t, c)
        \/ \E b \in Block : SetBest(b)

Spec == Init /\ [][Next]_vars
=============================================================================
