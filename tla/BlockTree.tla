------------------------------ MODULE BlockTree ------------------------------
(***************************************************************************)
(* The block tree and the choice of the active chain (main.cpp): headers   *)
(* and blocks arrive in any order, ActivateBestChain moves the tip to the  *)
(* chain with the most work, blocks turn out invalid or are invalidated    *)
(* and reconsidered by the operator, the index and the coins database are  *)
(* written to disk now and then, and the node crashes and reloads.         *)
(*                                                                         *)
(* A thread holds cs_main for the whole of ActivateBestChainStep, which is *)
(* one action per connected or disconnected block here, and releases it    *)
(* between two steps, keeping pindexMostWork. Block files are not pruned,  *)
(* so a block has data iff it has nTx > 0, and the blocks are too few for  *)
(* fTooFarAhead.                                                           *)
(***************************************************************************)
EXTENDS Integers, Sequences, SequencesExt, FiniteSets, FiniteSetsExt, Functions

CONSTANTS Block,        \* block hashes
          Genesis,
          Prev,         \* block -> parent, for all blocks but Genesis
          Proof,        \* block -> GetBlockProof
          Address,      \* block -> address of its CBlockIndex
          Malformed,    \* blocks that CheckBlock refuses
          Invalid,      \* blocks that ConnectBlock refuses
          Thread,       \* threads that process blocks
          None,
          Settings      \* the settings considered

ASSUME BlockTreeAssumption ==
    /\ Genesis \in Block \ (Malformed \cup Invalid)
    /\ Prev \in [Block \ {Genesis} -> Block]
    /\ Proof \in [Block -> Nat \ {0}]
    /\ Address \in [Block -> Nat]
    /\ None \notin Block
    /\ Settings \subseteq [blocks : SUBSET Block,
                           invalidation : {"never", "undone", "any"},
                           crash : BOOLEAN]

VARIABLES setting,    \* the blocks that arrive and the faults of this behaviour
          index,      \* mapBlockIndex
          candidates, \* setBlockIndexCandidates
          unlinked,   \* mapBlocksUnlinked: the children, by time of insertion
          tip,        \* chainActive.Tip()
          sequence,   \* nBlockSequenceId
          dirty,      \* setDirtyBlockIndex
          diskIndex,  \* the block index database
          diskTip,    \* the coins database's best block
          thread      \* where each thread is in ActivateBestChain

vars == <<setting, index, candidates, unlinked, tip, sequence, dirty, diskIndex, diskTip, thread>>

\* The operator's commands that are considered, and whether crashes are, and so
\* what is on disk.
Invalidation == setting.invalidation
CanCrash == setting.crash

-----------------------------------------------------------------------------
\* A block and all its ancestors.
Ancestry[b \in Block] == {b} \cup (IF b = Genesis THEN {} ELSE Ancestry[Prev[b]])

\* The blocks are a tree with root Genesis.
ASSUME TreeAssumption ==
    \A b \in Block :
        /\ Ancestry[b] = {b} \cup (IF b = Genesis THEN {} ELSE Ancestry[Prev[b]])
        /\ Genesis \in Ancestry[b]
        /\ \A a \in Ancestry[b] : Ancestry[a] \subseteq Ancestry[b]

Height == [b \in Block |-> Cardinality(Ancestry[b]) - 1]
ChainWork == [b \in Block |-> MapThenSumSet(LAMBDA x : Proof[x], Ancestry[b])]

\* CBlockIndex: HAVE_DATA (and nTx > 0), VALID_SCRIPTS (and HAVE_UNDO),
\* nChainTx > 0, the BLOCK_FAILED flags and nSequenceId.
NewIndex == [data |-> FALSE, connected |-> FALSE, chainTx |-> FALSE, failed |-> {}, seq |-> 0]

\* nStatus: the failure flags of an entry replaced, and one set for some blocks.
Flagged(x, flags) == [data |-> x.data, connected |-> x.connected, chainTx |-> x.chainTx,
                      failed |-> flags, seq |-> x.seq]
Marked(idx, blocks, flag) ==
    [x \in DOMAIN idx |-> IF x \in blocks THEN Flagged(idx[x], idx[x].failed \cup {flag}) ELSE idx[x]]

\* CBlockIndexWorkComparator: a sorts before b.
Worse(idx, a, b) ==
    \/ ChainWork[a] < ChainWork[b]
    \/ /\ ChainWork[a] = ChainWork[b]
       /\ \/ idx[a].seq > idx[b].seq
          \/ idx[a].seq = idx[b].seq /\ Address[a] > Address[b]

\* PruneBlockIndexCandidates
PruneBlockIndexCandidates(cands, idx, newTip) == {c \in cands : ~Worse(idx, c, newTip)}

-----------------------------------------------------------------------------
\* Threads and the lock.
Idle == [pc |-> "idle", target |-> None, oldTip |-> None]
Activating(target) == [pc |-> "activate", target |-> target, oldTip |-> None]

\* cs_main is held from the start to the end of a step.
LockFree == \A t \in Thread : thread[t].pc # "step"

-----------------------------------------------------------------------------
\* The block index database once the entries of 'dirtied' are written.
Written(idx, dirtied) ==
    [b \in dirtied \cup DOMAIN diskIndex |->
        IF b \in dirtied THEN [data |-> idx[b].data, connected |-> idx[b].connected,
                               failed |-> idx[b].failed]
        ELSE diskIndex[b]]

\* Mutant: the coins are written without the index entries they refer to.
FlushCoinsFirst(mode, idx, dirtied, best) ==
    /\ dirty' = dirtied
    /\ diskIndex' = diskIndex
    /\ diskTip' = IF mode = "full" THEN best ELSE diskTip

\* FlushStateToDisk: "index" writes the dirty block index entries, "full" then
\* also the coins, whose best block is 'best'.
FlushStateToDisk(mode, idx, dirtied, best) ==
    IF mode = "none"
    THEN /\ dirty' = dirtied
         /\ UNCHANGED <<diskIndex, diskTip>>
    ELSE /\ diskIndex' = Written(idx, dirtied)
         /\ dirty' = {}
         /\ diskTip' = IF mode = "full" THEN best ELSE diskTip

\* What the cache size and the clock may ask for: in the middle of a step, and
\* at the end of ActivateBestChain.
FlushModes(done) ==
    {"none"} \cup (IF CanCrash THEN {"full"} ELSE {})
             \cup (IF CanCrash /\ done THEN {"index"} ELSE {})

-----------------------------------------------------------------------------
\* Headers and blocks.

\* AcceptBlockHeader: the block is known and not failed, or its parent is.
HeaderAcceptable(b) ==
    IF b \in DOMAIN index THEN index[b].failed = {}
    ELSE Prev[b] \in DOMAIN index /\ index[Prev[b]].failed = {}

\* AddToBlockIndex
AddToBlockIndex(b) ==
    [x \in {b} \cup DOMAIN index |-> IF x \in DOMAIN index THEN index[x] ELSE NewIndex]

AcceptBlockHeader(b) ==
    /\ LockFree
    /\ \E t \in Thread : thread[t].pc = "idle"
    /\ b \notin DOMAIN index
    /\ HeaderAcceptable(b)
    /\ index' = AddToBlockIndex(b)
    /\ dirty' = dirty \cup {b}
    /\ UNCHANGED <<setting, candidates, unlinked, tip, sequence, diskIndex, diskTip, thread>>

\* Mutant: only the block itself is linked.
LinkQueueOnlyItself(b) == <<b>>

\* The blocks that become linked when b does, in the order of the queue.
LinkQueue(b) ==
    LET Extend(queue, i) ==
            IF i > Len(queue) THEN queue
            ELSE queue \o SelectSeq(unlinked, LAMBDA c : Prev[c] = queue[i])
    IN  FoldLeft(Extend, <<b>>, [i \in 1..Cardinality(Block) |-> i])

\* ReceivedBlockTransactions, on the index that has b's header.
ReceivedBlockTransactions(idx, b) ==
    LET queue == IF idx[Prev[b]].chainTx THEN LinkQueue(b) ELSE <<>>
        Place(x) == CHOOSE i \in DOMAIN queue : queue[i] = x
        new == [x \in DOMAIN idx |->
                   [data |-> idx[x].data \/ x = b,
                    connected |-> idx[x].connected,
                    chainTx |-> idx[x].chainTx \/ x \in Range(queue),
                    failed |-> idx[x].failed,
                    seq |-> IF x \in Range(queue) THEN sequence + Place(x) - 1 ELSE idx[x].seq]]
    IN  /\ index' = new
        /\ candidates' = candidates \cup {x \in DOMAIN idx : x \in Range(queue) /\ ~Worse(new, x, tip)}
        /\ sequence' = sequence + Len(queue)
        /\ unlinked' = IF idx[Prev[b]].chainTx
                       THEN SelectSeq(unlinked, LAMBDA c : c \notin Range(queue))
                       ELSE IF idx[Prev[b]].failed = {} THEN Append(unlinked, b) ELSE unlinked

\* ProcessNewBlock: AcceptBlock, then on to ActivateBestChain. A block that was
\* not asked for is taken only if it has more work than the tip.
ProcessNewBlock(t, b, requested) ==
    LET idx == AddToBlockIndex(b)
        added == {b} \ DOMAIN index
        skip == idx[b].data \/ (~requested /\ ChainWork[b] <= ChainWork[tip])
    IN  /\ LockFree
        /\ thread[t].pc = "idle"
        /\ b # Genesis
        /\ HeaderAcceptable(b)
        /\ \/ /\ skip
              /\ index' = idx
              /\ dirty' = dirty \cup added
              /\ thread' = [thread EXCEPT ![t] = Activating(None)]
              /\ UNCHANGED <<candidates, unlinked, sequence>>
           \/ /\ ~skip
              /\ b \in Malformed
              /\ index' = Marked(idx, {b}, "VALID")
              /\ dirty' = dirty \cup {b}
              /\ UNCHANGED <<candidates, unlinked, sequence, thread>>
           \/ /\ ~skip
              /\ b \notin Malformed
              /\ ReceivedBlockTransactions(idx, b)
              /\ dirty' = dirty \cup {b}
              /\ thread' = [thread EXCEPT ![t] = Activating(None)]
        /\ UNCHANGED <<setting, tip, diskIndex, diskTip>>

-----------------------------------------------------------------------------
\* ActivateBestChain.

\* Mutant: only the candidate itself is looked at.
FailedUpTo(c) == {x \in {c} : index[x].failed # {}}

\* The failed blocks between a candidate and the active chain.
FailedOnTheWay(c) == {x \in Ancestry[c] \ Ancestry[tip] : index[x].failed # {}}

\* FindMostWorkChain: the best candidate with no failed block between it and
\* the active chain, or None. Better candidates that are not usable are erased,
\* down to the failed block, and the blocks above it marked.
Usable == {c \in candidates : FailedOnTheWay(c) = {}}
MostWork == IF Usable = {} THEN {None}
            ELSE {c \in Usable : \A d \in Usable : ~Worse(index, c, d)}

FindMostWorkChain(best) ==
    LET rejected == {c \in candidates \ Usable : best = None \/ Worse(index, best, c)}
        Cause(c) == CHOOSE x \in FailedOnTheWay(c) : \A y \in FailedOnTheWay(c) : Height[x] >= Height[y]
        marked == UNION {Ancestry[c] \ Ancestry[Cause(c)] : c \in rejected}
    IN  /\ index' = Marked(index, marked, "CHILD")
        /\ candidates' = candidates \ (marked \cup {Cause(c) : c \in rejected})

\* The lock is taken and a target is chosen unless one is kept from before.
BeginStep(t) ==
    /\ LockFree
    /\ thread[t].pc = "activate"
    /\ \E best \in IF thread[t].target = None THEN MostWork ELSE {thread[t].target} :
          /\ \/ thread[t].target = None /\ FindMostWorkChain(best)
             \/ thread[t].target # None /\ UNCHANGED <<index, candidates>>
          /\ thread' = [thread EXCEPT ![t] =
                           IF best \in {None, tip} THEN Idle
                           ELSE [pc |-> "step", target |-> best, oldTip |-> tip]]
    /\ UNCHANGED <<setting, unlinked, tip, sequence, dirty, diskIndex, diskTip>>

\* DisconnectTip, while the tip is not on the way to the target.
DisconnectTip(t) ==
    LET to == Prev[tip]
        done == to = thread[t].target
    IN  /\ thread[t].pc = "step"
        /\ tip \notin Ancestry[thread[t].target]
        /\ tip' = to
        /\ thread' = IF done THEN [thread EXCEPT ![t] = Idle] ELSE thread
        /\ \E mode \in FlushModes(done) :
              FlushStateToDisk(mode, index, dirty, to)
        /\ UNCHANGED <<setting, index, candidates, unlinked, sequence>>

\* Mutant: the target is kept.
InvalidBlockFoundKeepsTarget(t, b) ==
    /\ index' = Marked(index, {b}, "VALID")
    /\ dirty' = dirty \cup {b}
    /\ candidates' = candidates \ {b}
    /\ thread' = [thread EXCEPT ![t] = Activating(thread[t].target)]
    /\ UNCHANGED <<tip, diskIndex, diskTip>>

\* InvalidBlockFound; the target is forgotten.
InvalidBlockFound(t, b) ==
    /\ index' = Marked(index, {b}, "VALID")
    /\ dirty' = dirty \cup {b}
    /\ candidates' = candidates \ {b}
    /\ thread' = [thread EXCEPT ![t] = Activating(None)]
    /\ UNCHANGED <<tip, diskIndex, diskTip>>

\* ConnectTip of the next block towards the target, which has to be on disk. The
\* step ends, with the lock released and the target kept, at the first tip better
\* than the old one; the loop ends at the target.
Connected(t, next) ==
    LET target == thread[t].target
        done == next = target
        new == [x \in DOMAIN index |->
                   IF x = next THEN [data |-> index[x].data, connected |-> TRUE,
                                     chainTx |-> index[x].chainTx, failed |-> index[x].failed,
                                     seq |-> index[x].seq]
                   ELSE index[x]]
        written == IF index[next].connected /\ index[next].failed = {} THEN {} ELSE {next}
    IN  /\ index[next].data
        /\ index' = new
        /\ tip' = next
        /\ candidates' = PruneBlockIndexCandidates(candidates, new, next)
        /\ thread' = CASE done -> [thread EXCEPT ![t] = Idle]
                       [] ~done /\ ChainWork[next] > ChainWork[thread[t].oldTip] ->
                            [thread EXCEPT ![t] = Activating(target)]
                       [] OTHER -> thread
        /\ \E mode \in FlushModes(done) :
              FlushStateToDisk(mode, new, dirty \cup written, next)

ConnectTip(t) ==
    /\ thread[t].pc = "step"
    /\ \E next \in Ancestry[thread[t].target] \ {Genesis} :
          /\ Prev[next] = tip
          /\ \/ next \in Invalid /\ InvalidBlockFound(t, next)
             \/ next \notin Invalid /\ Connected(t, next)
    /\ UNCHANGED <<setting, unlinked, sequence>>

-----------------------------------------------------------------------------
\* The operator's commands invalidateblock and reconsiderblock.

\* InvalidateBlock: active blocks from b on are disconnected, the last flush on
\* the way being after the one above 'flushed' (None: no flush).
InvalidateBlock(t, b) ==
    LET walked == IF b \in Ancestry[tip] THEN Ancestry[tip] \ Ancestry[Prev[b]] ELSE {}
        to == IF walked = {} THEN tip ELSE Prev[b]
        Failed(children) == Marked(Marked(index, {b}, "VALID"), children, "CHILD")
        new == Failed(walked)
    IN  /\ LockFree
        /\ thread[t].pc = "idle"
        /\ b \in DOMAIN index \ {Genesis}
        /\ index' = new
        /\ tip' = to
        /\ candidates' = (candidates \ ({b} \cup walked))
              \cup {x \in DOMAIN index : /\ new[x].failed = {}
                                         /\ new[x].data
                                         /\ new[x].chainTx
                                         /\ ~Worse(new, x, to)}
        /\ \/ FlushStateToDisk("none", new, dirty \cup {b} \cup walked, to)
           \/ /\ CanCrash
              /\ \E flushed \in {Prev[x] : x \in walked} :
                    LET children == walked \ Ancestry[flushed]
                    IN  /\ diskIndex' = Written(Failed(children), dirty \cup {b} \cup children)
                        /\ diskTip' = flushed
                        /\ dirty' = walked \cap Ancestry[flushed]
        /\ thread' = [thread EXCEPT ![t] = Activating(None)]
        /\ UNCHANGED <<setting, unlinked, sequence>>

\* b and its descendants, but for valid ones with data.
Reset(b) == {x \in DOMAIN index : b \in Ancestry[x] /\ (index[x].failed # {} \/ ~index[x].data)}

\* ResetBlockFailureFlags: b, its descendants and its ancestors.
ReconsiderBlock(t, b) ==
    LET reset == Reset(b)
        above == {x \in Ancestry[b] : index[x].failed # {}}
    IN  /\ LockFree
        /\ thread[t].pc = "idle"
        /\ b \in DOMAIN index
        /\ index' = [x \in DOMAIN index |-> IF x \in reset \cup above
                                            THEN Flagged(index[x], {}) ELSE index[x]]
        /\ candidates' = candidates \cup {x \in reset : /\ index[x].data
                                                        /\ index[x].chainTx
                                                        /\ Worse(index, tip, x)}
        /\ dirty' = dirty \cup reset \cup above
        /\ thread' = [thread EXCEPT ![t] = Activating(None)]
        /\ UNCHANGED <<setting, unlinked, tip, sequence, diskIndex, diskTip>>

-----------------------------------------------------------------------------
\* The flush that follows a transaction message, with the clock's consent.
PeriodicFlush ==
    /\ LockFree
    /\ \E t \in Thread : thread[t].pc = "idle"
    /\ \E mode \in FlushModes(TRUE) \ {"none"} : FlushStateToDisk(mode, index, dirty, tip)
    /\ UNCHANGED <<setting, index, candidates, unlinked, tip, sequence, thread>>

\* Mutant: the loaded blocks keep no unlinked ones.
UnlinkedOnDiskForgotten(disk, linked) == <<>>

\* The blocks whose parent is not linked, in the order of height.
UnlinkedOnDisk(disk, linked) ==
    SetToSortSeq({b \in DOMAIN disk : disk[b].data /\ b \notin linked},
                 LAMBDA a, b : \/ Height[a] < Height[b]
                               \/ Height[a] = Height[b] /\ Address[a] < Address[b])

\* LoadBlockIndexDB
LoadBlockIndexDB(disk) ==
    LET linked == {b \in DOMAIN disk : \A x \in Ancestry[b] : x \in DOMAIN disk /\ disk[x].data}
        loaded == [b \in DOMAIN disk |->
                      [data |-> disk[b].data, connected |-> disk[b].connected,
                       chainTx |-> b \in linked, failed |-> disk[b].failed, seq |-> 0]]
    IN  /\ index' = loaded
        /\ tip' = diskTip
        /\ candidates' = PruneBlockIndexCandidates({b \in linked : disk[b].failed = {}}, loaded, diskTip)
        /\ unlinked' = UnlinkedOnDisk(disk, linked)

\* The process dies at any moment, also between the two batches of a full write,
\* when the index is on disk and the coins are not; the new one loads the disk's
\* state and calls ActivateBestChain from its import thread.
Crash ==
    /\ CanCrash
    /\ \E disk \in {diskIndex, Written(index, dirty)} :
          /\ diskIndex' = disk
          /\ LoadBlockIndexDB(disk)
    /\ sequence' = 1
    /\ dirty' = {}
    /\ \E t \in Thread : thread' = [u \in Thread |-> IF u = t THEN Activating(None) ELSE Idle]
    /\ UNCHANGED <<setting, diskTip>>

-----------------------------------------------------------------------------
Init == /\ setting \in Settings
        /\ index = [b \in {Genesis} |-> [data |-> TRUE, connected |-> TRUE, chainTx |-> TRUE,
                                         failed |-> {}, seq |-> 1]]
        /\ candidates = {Genesis}
        /\ unlinked = <<>>
        /\ tip = Genesis
        /\ sequence = 2
        /\ dirty = {}
        /\ diskIndex = [b \in {Genesis} |-> [data |-> TRUE, connected |-> TRUE, failed |-> {}]]
        /\ diskTip = Genesis
        /\ thread = [t \in Thread |-> Idle]

\* An operator of the kind "undone" invalidates blocks that are linked and
\* reconsiders just the blocks at the root of an invalid branch.
MayInvalidate(b) == \/ Invalidation = "any"
                    \/ Invalidation = "undone" /\ b \in DOMAIN index /\ index[b].chainTx
MayReconsider(b) == \/ Invalidation = "any"
                    \/ /\ Invalidation = "undone"
                       /\ b \in DOMAIN index /\ "VALID" \in index[b].failed
                       /\ \A x \in Ancestry[b] \ {b} : index[x].failed = {}

Work(t) == BeginStep(t) \/ DisconnectTip(t) \/ ConnectTip(t)

Next == \/ \E b \in setting.blocks : AcceptBlockHeader(b)
        \/ \E t \in Thread, b \in setting.blocks, requested \in BOOLEAN :
              ProcessNewBlock(t, b, requested)
        \/ \E t \in Thread : BeginStep(t)
        \/ \E t \in Thread : DisconnectTip(t)
        \/ \E t \in Thread : ConnectTip(t)
        \/ \E t \in Thread, b \in Block : MayInvalidate(b) /\ InvalidateBlock(t, b)
        \/ \E t \in Thread, b \in Block : MayReconsider(b) /\ ReconsiderBlock(t, b)
        \/ PeriodicFlush
        \/ Crash

Spec == Init /\ [][Next]_vars

\* A thread in ActivateBestChain goes on: nothing in it waits but for the lock.
FairSpec == Spec /\ \A t \in Thread : WF_vars(Work(t))

-----------------------------------------------------------------------------
\* No thread is between accepting a block and having activated the best chain.
Quiet == \A t \in Thread : thread[t].pc = "idle"

HasFailedAncestor(b) == \E x \in Ancestry[b] : "VALID" \in index[x].failed
FullyReceived(b) == \A x \in Ancestry[b] : index[x].data

\* What CheckBlockIndex asserts when no thread is on its way. A block that sorts
\* at least as good as the tip, with all data and no invalid ancestor, is in
\* setBlockIndexCandidates, and a worse or incomplete one is not;
\* mapBlocksUnlinked has exactly the blocks that wait for an ancestor's data,
\* those with an invalid ancestor excepted; and only a block that is invalid or
\* has an invalid ancestor is marked failed.
CheckBlockIndex ==
    Quiet => \A b \in DOMAIN index :
                /\ IF ~Worse(index, b, tip) /\ FullyReceived(b)
                   THEN ~HasFailedAncestor(b) => b \in candidates
                   ELSE b \notin candidates
                /\ index[b].data /\ ~FullyReceived(b) /\ ~HasFailedAncestor(b) => b \in Range(unlinked)
                /\ b \in Range(unlinked) => index[b].data /\ ~FullyReceived(b)
                /\ index[b].failed # {} => HasFailedAncestor(b)

\* ActivateBestChain finds the best known block and makes it the tip: when no
\* thread is on its way, no chain that is complete and not failed has more work
\* than the active one, and none with as much was received earlier, however the
\* blocks came in.
BestChainActive ==
    Quiet => \A b \in DOMAIN index :
                FullyReceived(b) /\ (\A x \in Ancestry[b] : index[x].failed = {})
                    => \/ ChainWork[b] < ChainWork[tip]
                       \/ ChainWork[b] = ChainWork[tip] /\ index[b].seq >= index[tip].seq

\* No block that is marked failed, or that ConnectBlock refuses, is active.
ActiveChainValid ==
    \A b \in Ancestry[tip] : b \notin Invalid \cup Malformed /\ index[b].failed = {}

\* What is on disk can be started from at any moment: the coins' best block and
\* all its ancestors are in the index on disk with their data and undo data.
DiskRecoverable ==
    \A b \in Ancestry[diskTip] :
        b \in DOMAIN diskIndex /\ diskIndex[b].data /\ diskIndex[b].connected

\* ActivateBestChain ends, even when branches it tries turn out invalid, unless
\* the node crashes again and again.
ActivationEnds ==
    \/ \A t \in Thread : thread[t].pc # "idle" ~> thread[t].pc = "idle"
    \/ []<><<Crash>>_vars
=============================================================================
