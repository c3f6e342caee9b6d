---------------------------- MODULE MCOrphanPool ----------------------------
EXTENDS OrphanPool, TLC

CONSTANTS base,   \* confirmed long ago
          parent, \* two outputs
          child,  \* spends both outputs of parent
          wrong,  \* spends an output of parent, invalid
          cheap,  \* refused by policy
          last,   \* spends child and cheap
          bare,   \* spends an output of parent, came without its witness
          huge    \* spends the other one, too large for an orphan

MCTx == {parent, child, wrong, cheap, last, bare, huge}

MCOutputs == (base :> 2) @@ (parent :> 2) @@ [t \in {child, wrong, cheap, last, bare, huge} |-> 1]

MCSpends == (parent :> {<<base, 1>>}) @@ (child :> {<<parent, 1>>, <<parent, 2>>})
            @@ (wrong :> {<<parent, 1>>}) @@ (cheap :> {<<base, 2>>})
            @@ (bare :> {<<parent, 1>>}) @@ (huge :> {<<parent, 2>>})
            @@ (last :> {<<child, 1>>, <<cheap, 1>>})

MCVerdict == (wrong :> "invalid") @@ (bare :> "stripped") @@ [t \in {cheap, huge} |-> "refused"] @@ [t \in {parent, child, last} |-> "accepted"]

CONSTANTS p1, p2

\* Who waits for whom, and for which peer.
Resolving == [maxOrphans |-> 3, txs |-> {parent, child, wrong, cheap, last}, peers |-> {p1, p2}, time |-> 0, blocks |-> 0]

\* Orphans that are not kept, and ones that may be sent again.
Forgetting == [maxOrphans |-> 1, txs |-> {parent, bare, huge, cheap}, peers |-> {p1}, time |-> 1, blocks |-> 1]

\* Orphans that come and expire.
Expiring == [maxOrphans |-> 2, txs |-> {child, wrong, last}, peers |-> {p1, p2}, time |-> 5, blocks |-> 0]

\* Blocks that confirm, conflict with, and give back transactions.
Mining == [maxOrphans |-> 2, txs |-> {parent, child, wrong, cheap, last}, peers |-> {p1}, time |-> 0, blocks |-> 2]

MCSettings == {Resolving, Forgetting, Expiring, Mining}
=============================================================================
