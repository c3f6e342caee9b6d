--------------------------- MODULE MCBlockDownload ---------------------------
EXTENDS BlockDownload

CONSTANTS g, b1, b2, b3, c1, p, q

MCBlock == {g, b1, b2, b3, c1}
MCParent == [b \in {b1, b2, b3, c1} |-> IF b = b2 THEN b1 ELSE IF b = b3 THEN b2 ELSE g]

\* A chain that is longer than the window, an honest peer and one that is not.
Syncing == [blocks |-> {g, b1, b2}, peers |-> {p, q}, witness |-> {p, q}, honest |-> {p},
            whitelisted |-> {}, filter |-> FALSE, kinds |-> {"inv", "headers", "block"}]

\* The same on a fork, where a block of the best chain that nobody was asked for
\* may have no more work than the tip; the other peer only sends blocks.
SyncingFork == [Syncing EXCEPT !.blocks = {g, b1, b2, c1}, !.kinds = {"block"}]

\* Two peers that send compact blocks, and one that announces a block first.
Compact == [blocks |-> {g, b1, b2}, peers |-> {p, q}, witness |-> {p}, honest |-> {},
            whitelisted |-> {}, filter |-> FALSE, kinds |-> {"compact"}]
Announced == [blocks |-> {g, b1}, peers |-> {p, q}, witness |-> {p, q}, honest |-> {},
              whitelisted |-> {p}, filter |-> FALSE, kinds |-> {"inv", "headers", "block", "compact"}]

\* A fork, and one with more blocks than the header spam filter lets pass.
Forking == [blocks |-> {g, b1, b2, c1}, peers |-> {q}, witness |-> {q}, honest |-> {},
            whitelisted |-> {q}, filter |-> FALSE, kinds |-> {"inv", "headers", "block"}]
Spamming == [Forking EXCEPT !.whitelisted = {}, !.filter = TRUE, !.kinds = {"headers", "block"}]

\* A chain that is longer than what compact blocks are used for.
Far == [blocks |-> {g, b1, b2, b3}, peers |-> {q}, witness |-> {q}, honest |-> {},
        whitelisted |-> {}, filter |-> TRUE, kinds |-> {"headers", "compact"}]

MCSettings == {Syncing, SyncingFork, Compact, Announced, Forking, Spamming, Far}
=============================================================================
