----------------------------- MODULE MCBlockTree -----------------------------
EXTENDS BlockTree

CONSTANTS g, a1, a2, b1, b2, b3, c2, t1, t2

\* Two branches from genesis, a third one from a1.
MCBlock == {g, a1, a2, b1, b2, b3, c2}
MCParent == (a1 :> g) @@ (a2 :> a1) @@ (b1 :> g) @@ (b2 :> b1) @@ (b3 :> b2) @@ (c2 :> a1)
MCPrev == [b \in Block \ {g} |-> MCParent[b]]
MCProof == [b \in Block |-> 1]

\* Addresses in no order that follows the tree.
MCAddress == [b \in Block |->
    CASE b = g -> 0 [] b = b2 -> 1 [] b = a2 -> 2 [] b = b1 -> 3 [] b = a1 -> 4
      [] b = c2 -> 5 [] b = b3 -> 6]

\* An operator invalidates blocks and takes it back; or the node crashes, with
\* one block less.
MCSettings == {[blocks |-> MCBlock, invalidation |-> "undone", crash |-> FALSE],
               [blocks |-> MCBlock \ {b3}, invalidation |-> "never", crash |-> TRUE]}
=============================================================================
