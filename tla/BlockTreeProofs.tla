--------------------------- MODULE BlockTreeProofs ---------------------------
(***************************************************************************)
(* The node can be started from what is on disk at any moment, for every   *)
(* tree of blocks, any number of threads, whatever the operator            *)
(* invalidates and reconsiders, and with flushes and crashes between any   *)
(* two steps.                                                              *)
(***************************************************************************)
EXTENDS BlockTree, TLAPS

\* A chain of which an index (in memory or on disk) has every block, with its
\* data and its undo data.
Complete(idx, b) == \A x \in Ancestry[b] : x \in DOMAIN idx /\ idx[x].data /\ idx[x].connected

\* What a says of data is also said by b.
NoMore(a, b) == /\ DOMAIN a \subseteq DOMAIN b
                /\ \A x \in DOMAIN a : /\ a[x].data => b[x].data
                                       /\ a[x].connected => b[x].connected

\* The same, for the blocks that are not dirty.
Saved(idx, dirtied, disk) ==
    \A x \in DOMAIN idx \ dirtied : /\ x \in DOMAIN disk
                                    /\ idx[x].data => disk[x].data
                                    /\ idx[x].connected => disk[x].connected

\* An index has the ancestors of its blocks.
Closed(idx) == \A b \in DOMAIN idx : Ancestry[b] \subseteq DOMAIN idx

\* The disk is not ahead of memory, what is not dirty is saved, and the chain of
\* the coins on disk is complete there.
DiskInv(idx, dirtied, disk, best) ==
    NoMore(disk, idx) /\ Saved(idx, dirtied, disk) /\ Complete(disk, best) /\ Closed(disk)

\* Types: blocks, and where the threads are.
TypeInv ==
    /\ setting \in Settings
    /\ DOMAIN index \subseteq Block
    /\ Closed(index)
    /\ dirty \subseteq DOMAIN index
    /\ candidates \subseteq DOMAIN index
    /\ tip \in Block /\ diskTip \in Block
    /\ thread \in [Thread -> [pc : {"idle", "activate", "step"},
                              target : Block \cup {None}, oldTip : Block \cup {None}]]
    /\ \A t \in Thread : /\ thread[t].target \in DOMAIN index \cup {None}
                         /\ thread[t].pc = "step" => thread[t].target # None

\* The inductive invariant.
IInv == /\ TypeInv
        /\ Complete(index, tip)
        /\ DiskInv(index, dirty, diskIndex, diskTip)

-----------------------------------------------------------------------------
\* The ancestors of a block are blocks.
LEMMA AncestryOfChild ==
    ASSUME NEW b \in Block \ {Genesis}
    PROVE  /\ Prev[b] \in Block
           /\ Ancestry[b] = {b} \cup Ancestry[Prev[b]]
           /\ Ancestry[Prev[b]] \subseteq Ancestry[b]
BY BlockTreeAssumption, TreeAssumption

\* Written, by its fields.
LEMMA WrittenIs ==
    ASSUME NEW idx, NEW dirtied
    PROVE  /\ DOMAIN Written(idx, dirtied) = dirtied \cup DOMAIN diskIndex
           /\ \A x \in dirtied : /\ Written(idx, dirtied)[x].data = idx[x].data
                                 /\ Written(idx, dirtied)[x].connected = idx[x].connected
           /\ \A x \in DOMAIN diskIndex \ dirtied : Written(idx, dirtied)[x] = diskIndex[x]
BY DEF Written

\* What an action may make of the index in memory: it only gains data, and what
\* gained any is dirty.
Grows(idx, dirtied) ==
    /\ NoMore(index, idx)
    /\ DOMAIN idx \subseteq Block
    /\ Closed(idx)
    /\ dirty \subseteq dirtied /\ dirtied \subseteq DOMAIN idx
    /\ \A x \in DOMAIN idx \ dirtied : /\ x \in DOMAIN index
                                       /\ idx[x].data => index[x].data
                                       /\ idx[x].connected => index[x].connected

\* A write of the index, with the coins or without them.
LEMMA WriteSaves ==
    ASSUME IInv, NEW idx, NEW dirtied, Grows(idx, dirtied)
    PROVE  /\ NoMore(Written(idx, dirtied), idx)
           /\ Saved(idx, {}, Written(idx, dirtied))
           /\ Closed(Written(idx, dirtied))
           /\ Complete(Written(idx, dirtied), diskTip)
           /\ \A b \in Block : Complete(idx, b) => Complete(Written(idx, dirtied), b)
<1> DEFINE W == Written(idx, dirtied)
<1>1. /\ DOMAIN W = dirtied \cup DOMAIN diskIndex
      /\ \A x \in dirtied : W[x].data = idx[x].data /\ W[x].connected = idx[x].connected
      /\ \A x \in DOMAIN diskIndex \ dirtied : W[x] = diskIndex[x]
  BY WrittenIs
<1> HIDE DEF W
<1>2. NoMore(W, idx)
  BY <1>1 DEF IInv, DiskInv, Grows, NoMore
<1>3. \A x \in DOMAIN idx : /\ x \in DOMAIN W
                            /\ idx[x].data => W[x].data
                            /\ idx[x].connected => W[x].connected
  BY <1>1 DEF IInv, DiskInv, Grows, Saved
<1>4. Complete(W, diskTip)
  BY <1>1, <1>3 DEF IInv, DiskInv, Grows, NoMore, Complete
<1>5. Closed(W)
  BY <1>2, <1>3 DEF Grows, NoMore, Closed
<1> QED  BY <1>2, <1>3, <1>4, <1>5 DEF W, Saved, Complete

\* FlushStateToDisk keeps the invariant, whatever it writes.
LEMMA FlushSaves ==
    ASSUME IInv, NEW idx, NEW dirtied, NEW best \in Block, NEW mode,
           Grows(idx, dirtied), Complete(idx, best),
           FlushStateToDisk(mode, idx, dirtied, best)
    PROVE  /\ DiskInv(idx, dirty', diskIndex', diskTip')
           /\ dirty' \subseteq DOMAIN idx
           /\ diskTip' \in Block
<1>1. CASE mode = "none"
  BY <1>1 DEF FlushStateToDisk, DiskInv, IInv, TypeInv, Grows, NoMore, Saved
<1>2. CASE mode # "none"
  <2>1. diskIndex' = Written(idx, dirtied) /\ dirty' = {} /\ diskTip' \in {best, diskTip}
    BY <1>2 DEF FlushStateToDisk
  <2> QED  BY <2>1, WriteSaves DEF DiskInv, IInv, TypeInv
<1> QED  BY <1>1, <1>2

\* The same when nothing is written.
LEMMA NothingWritten ==
    ASSUME IInv, NEW idx, NEW dirtied, Grows(idx, dirtied)
    PROVE  /\ DiskInv(idx, dirtied, diskIndex, diskTip)
           /\ Complete(idx, tip)
BY DEF DiskInv, IInv, Grows, NoMore, Saved, Complete

-----------------------------------------------------------------------------
\* The changes of the index.

\* Failure flags say nothing of data.
LEMMA MarkedIs ==
    ASSUME NEW idx, NEW blocks, NEW flag
    PROVE  /\ DOMAIN Marked(idx, blocks, flag) = DOMAIN idx
           /\ \A x \in DOMAIN idx : /\ Marked(idx, blocks, flag)[x].data = idx[x].data
                                    /\ Marked(idx, blocks, flag)[x].connected = idx[x].connected
BY DEF Marked, Flagged

\* A new entry has no data.
LEMMA AddedIs ==
    ASSUME NEW b
    PROVE  /\ DOMAIN AddToBlockIndex(b) = {b} \cup DOMAIN index
           /\ \A x \in DOMAIN index : AddToBlockIndex(b)[x] = index[x]
           /\ b \notin DOMAIN index => /\ ~AddToBlockIndex(b)[b].data
                                       /\ ~AddToBlockIndex(b)[b].connected
BY DEF AddToBlockIndex, NewIndex

\* Marking blocks as failed leaves the data of the index alone.
LEMMA MarkedGrows ==
    ASSUME IInv, NEW blocks, NEW flag, NEW dirtied,
           dirty \subseteq dirtied, dirtied \subseteq DOMAIN index
    PROVE  Grows(Marked(index, blocks, flag), dirtied)
BY MarkedIs DEF IInv, TypeInv, Grows, NoMore, Closed

\* AddToBlockIndex adds an entry whose parent is there.
LEMMA AddedGrows ==
    ASSUME IInv, NEW b \in Block, NEW dirtied, HeaderAcceptable(b),
           dirty \cup ({b} \ DOMAIN index) \subseteq dirtied, dirtied \subseteq {b} \cup DOMAIN index
    PROVE  Grows(AddToBlockIndex(b), dirtied)
<1>1. Genesis \in DOMAIN index
  BY TreeAssumption DEF IInv, TypeInv, Complete
<1>2. b \notin DOMAIN index => Ancestry[b] \subseteq {b} \cup DOMAIN index
  BY <1>1, AncestryOfChild DEF HeaderAcceptable, IInv, TypeInv, Closed
<1>3. Closed(AddToBlockIndex(b))
  BY <1>2, AddedIs DEF IInv, TypeInv, Closed
<1> QED  BY <1>3, AddedIs DEF IInv, TypeInv, Grows, NoMore

\* An action that leaves the tip and the disk alone.
LEMMA InMemory ==
    ASSUME IInv, Grows(index', dirty'), UNCHANGED <<tip, diskIndex, diskTip>>, TypeInv'
    PROVE  IInv'
BY NothingWritten DEF IInv, DiskInv, Complete, NoMore, Saved

-----------------------------------------------------------------------------
\* One lemma per action.

\* InitBlockIndex: genesis is complete, in memory and on disk.
LEMMA InitLemma ==
    ASSUME Init PROVE IInv
<1>1. Ancestry[Genesis] = {Genesis} /\ Genesis \in Block
  BY BlockTreeAssumption, TreeAssumption
<1>2. TypeInv
  BY <1>1, BlockTreeAssumption DEF Init, TypeInv, Idle, Closed
<1>3. Complete(index, tip) /\ DiskInv(index, dirty, diskIndex, diskTip)
  BY <1>1 DEF Init, DiskInv, Complete, NoMore, Saved, Closed
<1> QED  BY <1>2, <1>3 DEF IInv

\* A new header is dirty.
LEMMA AcceptBlockHeaderLemma ==
    ASSUME IInv, NEW b \in Block, AcceptBlockHeader(b)
    PROVE  IInv'
<1>1. Grows(index', dirty')
  BY AddedGrows DEF AcceptBlockHeader, IInv, TypeInv
<1>2. TypeInv'
  BY <1>1 DEF AcceptBlockHeader, IInv, TypeInv, Grows, NoMore
<1> QED  BY <1>1, <1>2, InMemory DEF AcceptBlockHeader

\* A thread that is put to activate or to rest keeps the types.
LEMMA ThreadTyped ==
    ASSUME TypeInv, NEW t \in Thread, NEW target \in DOMAIN index \cup {None},
           thread' = [thread EXCEPT ![t] = Idle] \/ thread' = [thread EXCEPT ![t] = Activating(target)]
    PROVE  /\ thread' \in [Thread -> [pc : {"idle", "activate", "step"},
                                      target : Block \cup {None}, oldTip : Block \cup {None}]]
           /\ \A u \in Thread : /\ thread'[u].target \in DOMAIN index \cup {None}
                                /\ thread'[u].pc = "step" => thread'[u].target # None
BY DEF TypeInv, Idle, Activating

\* A block that is skipped, malformed or received.
LEMMA ProcessNewBlockLemma ==
    ASSUME IInv, NEW t \in Thread, NEW b \in Block, NEW requested, ProcessNewBlock(t, b, requested)
    PROVE  IInv'
<1> DEFINE idx == AddToBlockIndex(b)
           added == {b} \ DOMAIN index
           skip == idx[b].data \/ (~requested /\ ChainWork[b] <= ChainWork[tip])
<1>0. HeaderAcceptable(b)
  BY DEF ProcessNewBlock
<1>1. UNCHANGED <<setting, tip, diskIndex, diskTip>>
  BY DEF ProcessNewBlock
<1>2. CASE /\ index' = idx
           /\ dirty' = dirty \cup added
           /\ thread' = [thread EXCEPT ![t] = Activating(None)]
           /\ UNCHANGED <<candidates, unlinked, sequence>>
  <2>1. Grows(index', dirty')
    BY <1>0, <1>2, AddedGrows DEF IInv, TypeInv
  <2>2. TypeInv'
    BY <1>1, <1>2, <2>1, ThreadTyped DEF IInv, TypeInv, Grows, NoMore
  <2> QED  BY <1>1, <2>1, <2>2, InMemory
<1>3. CASE /\ index' = Marked(idx, {b}, "VALID")
           /\ dirty' = dirty \cup {b}
           /\ UNCHANGED <<candidates, unlinked, sequence, thread>>
  <2> HIDE DEF idx
  <2>0. /\ DOMAIN index' = DOMAIN idx
        /\ \A x \in DOMAIN idx : /\ index'[x].data = idx[x].data
                                 /\ index'[x].connected = idx[x].connected
        /\ dirty' = dirty \cup {b}
        /\ UNCHANGED <<candidates, thread>>
    BY <1>3, MarkedIs
  <2> USE DEF idx
  <2>1. Grows(index', dirty')
    <3>1. Grows(idx, dirty')
      BY <1>0, <2>0, AddedGrows DEF IInv, TypeInv
    <3> QED  BY <2>0, <3>1 DEF Grows, NoMore, Closed
  <2>2. TypeInv'
    BY <1>1, <2>0, <2>1 DEF IInv, TypeInv, Grows, NoMore
  <2> QED  BY <1>1, <2>1, <2>2, InMemory
<1>4. CASE /\ ReceivedBlockTransactions(idx, b)
           /\ dirty' = dirty \cup {b}
           /\ thread' = [thread EXCEPT ![t] = Activating(None)]
  <2> HIDE DEF idx
  <2>1. /\ DOMAIN index' = DOMAIN idx
        /\ \A x \in DOMAIN idx : /\ index'[x].data = (idx[x].data \/ x = b)
                                 /\ index'[x].connected = idx[x].connected
        /\ candidates' \subseteq candidates \cup DOMAIN idx
    BY <1>4 DEF ReceivedBlockTransactions
  <2> USE DEF idx
  <2>2. Grows(index', dirty')
    <3>1. Grows(idx, dirty')
      BY <1>0, <1>4, AddedGrows DEF IInv, TypeInv
    <3> QED  BY <1>4, <2>1, <3>1 DEF Grows, NoMore, Closed
  <2>3. TypeInv'
    BY <1>1, <1>4, <2>1, <2>2, AddedIs, ThreadTyped DEF IInv, TypeInv, Grows
  <2> QED  BY <1>1, <2>2, <2>3, InMemory
<1> QED  BY <1>2, <1>3, <1>4 DEF ProcessNewBlock

\* The choice of a target marks blocks as failed and nothing else.
LEMMA BeginStepLemma ==
    ASSUME IInv, NEW t \in Thread, BeginStep(t)
    PROVE  IInv'
<1>1. UNCHANGED <<setting, tip, dirty, diskIndex, diskTip>>
  BY DEF BeginStep
<1>2. PICK best \in IF thread[t].target = None THEN MostWork ELSE {thread[t].target} :
          /\ \/ thread[t].target = None /\ FindMostWorkChain(best)
             \/ thread[t].target # None /\ UNCHANGED <<index, candidates>>
          /\ thread' = [thread EXCEPT ![t] =
                           IF best \in {None, tip} THEN Idle
                           ELSE [pc |-> "step", target |-> best, oldTip |-> tip]]
  BY DEF BeginStep
<1>3. best \in DOMAIN index \cup {None}
  BY <1>2 DEF MostWork, Usable, IInv, TypeInv
<1>4. /\ DOMAIN index' = DOMAIN index
      /\ \A x \in DOMAIN index : /\ index'[x].data = index[x].data
                                 /\ index'[x].connected = index[x].connected
      /\ candidates' \subseteq candidates
  BY <1>2, MarkedIs DEF FindMostWorkChain
<1>5. Grows(index', dirty')
  BY <1>1, <1>4 DEF IInv, TypeInv, Grows, NoMore, Closed
<1>6. TypeInv'
  BY <1>1, <1>2, <1>3, <1>4, <1>5 DEF IInv, TypeInv, Idle, Grows
<1> QED  BY <1>1, <1>5, <1>6, InMemory

\* The chain below the tip is complete too.
LEMMA DisconnectTipLemma ==
    ASSUME IInv, NEW t \in Thread, DisconnectTip(t)
    PROVE  IInv'
<1>1. tip \in Block \ {Genesis}
  BY TreeAssumption DEF DisconnectTip, IInv, TypeInv
<1>2. Prev[tip] \in Block /\ Complete(index, Prev[tip])
  BY <1>1, AncestryOfChild DEF IInv, Complete
<1>3. /\ tip' = Prev[tip]
      /\ UNCHANGED <<setting, index, candidates>>
      /\ thread' = thread \/ thread' = [thread EXCEPT ![t] = Idle]
  BY DEF DisconnectTip
<1>4. PICK mode : FlushStateToDisk(mode, index, dirty, Prev[tip])
  BY DEF DisconnectTip
<1>5. Grows(index, dirty)
  BY DEF IInv, TypeInv, Grows, NoMore
<1>6. DiskInv(index, dirty', diskIndex', diskTip') /\ dirty' \subseteq DOMAIN index /\ diskTip' \in Block
  BY <1>2, <1>4, <1>5, FlushSaves
<1>7. TypeInv'
  BY <1>2, <1>3, <1>6, ThreadTyped DEF IInv, TypeInv
<1> QED  BY <1>2, <1>3, <1>6, <1>7 DEF IInv

\* A block that is connected: it is on disk, and its parent is the tip.
LEMMA ConnectedLemma ==
    ASSUME IInv, NEW t \in Thread, NEW next \in Block \ {Genesis}, Prev[next] = tip,
           thread[t].target \in DOMAIN index, Connected(t, next), next \in DOMAIN index,
           UNCHANGED setting
    PROVE  IInv'
<1> DEFINE written == IF index[next].connected /\ index[next].failed = {} THEN {} ELSE {next}
<1>1. /\ DOMAIN index' = DOMAIN index
      /\ \A x \in DOMAIN index : /\ index'[x].data = index[x].data
                                 /\ x # next => index'[x].connected = index[x].connected
      /\ index'[next].data /\ index'[next].connected
      /\ tip' = next
      /\ candidates' \subseteq candidates
  BY DEF Connected, PruneBlockIndexCandidates
<1>2. \/ thread' = thread
      \/ thread' = [thread EXCEPT ![t] = Idle]
      \/ thread' = [thread EXCEPT ![t] = Activating(thread[t].target)]
  BY DEF Connected
<1>3. PICK mode : FlushStateToDisk(mode, index', dirty \cup written, next)
  BY DEF Connected
<1>4. Grows(index', dirty \cup written)
  BY <1>1 DEF IInv, TypeInv, Grows, NoMore, Closed
<1>5. Complete(index', next)
  BY <1>1, AncestryOfChild DEF IInv, Complete
<1>6. /\ DiskInv(index', dirty', diskIndex', diskTip')
      /\ dirty' \subseteq DOMAIN index'
      /\ diskTip' \in Block
  BY <1>3, <1>4, <1>5, FlushSaves
<1>7. TypeInv'
  BY <1>1, <1>2, <1>4, <1>6, ThreadTyped DEF IInv, TypeInv, Grows
<1> QED  BY <1>1, <1>5, <1>6, <1>7 DEF IInv

\* The next block is connected or found invalid.
LEMMA ConnectTipLemma ==
    ASSUME IInv, NEW t \in Thread, ConnectTip(t)
    PROVE  IInv'
<1>1. thread[t].pc = "step" /\ UNCHANGED setting
  BY DEF ConnectTip
<1>2. thread[t].target \in DOMAIN index /\ DOMAIN index \subseteq Block
  BY <1>1 DEF IInv, TypeInv
<1>3. PICK next \in Ancestry[thread[t].target] \ {Genesis} :
          /\ Prev[next] = tip
          /\ \/ next \in Invalid /\ InvalidBlockFound(t, next)
             \/ next \notin Invalid /\ Connected(t, next)
  BY DEF ConnectTip
<1>4. next \in DOMAIN index
  BY <1>2, <1>3 DEF IInv, TypeInv, Closed
<1>5. CASE InvalidBlockFound(t, next)
  <2>1. /\ index' = Marked(index, {next}, "VALID")
        /\ dirty' = dirty \cup {next}
        /\ candidates' \subseteq candidates
        /\ thread' = [thread EXCEPT ![t] = Activating(None)]
        /\ UNCHANGED <<tip, diskIndex, diskTip>>
    BY <1>5 DEF InvalidBlockFound
  <2>2. Grows(index', dirty')
    BY <1>4, <2>1, MarkedGrows DEF IInv, TypeInv
  <2>3. DOMAIN index' = DOMAIN index
    BY <2>1, MarkedIs
  <2>4. TypeInv'
    BY <1>1, <1>4, <2>1, <2>3, ThreadTyped DEF IInv, TypeInv, Closed
  <2> QED  BY <2>1, <2>2, <2>4, InMemory
<1>6. CASE Connected(t, next)
  BY <1>1, <1>2, <1>3, <1>4, <1>6, ConnectedLemma
<1> QED  BY <1>3, <1>5, <1>6

\* The flags of an invalidated block and its descendants say nothing of data.
LEMMA InvalidatedGrows ==
    ASSUME IInv, NEW b, NEW children, NEW dirtied,
           dirty \subseteq dirtied, dirtied \subseteq DOMAIN index
    PROVE  /\ Grows(Marked(Marked(index, {b}, "VALID"), children, "CHILD"), dirtied)
           /\ DOMAIN Marked(Marked(index, {b}, "VALID"), children, "CHILD") = DOMAIN index
           /\ \A x \in DOMAIN index :
                 /\ Marked(Marked(index, {b}, "VALID"), children, "CHILD")[x].data = index[x].data
                 /\ Marked(Marked(index, {b}, "VALID"), children, "CHILD")[x].connected
                      = index[x].connected
<1> DEFINE one == Marked(index, {b}, "VALID")
           two == Marked(one, children, "CHILD")
<1>1. /\ DOMAIN one = DOMAIN index
      /\ \A x \in DOMAIN index : one[x].data = index[x].data /\ one[x].connected = index[x].connected
  BY MarkedIs
<1> HIDE DEF one
<1>2. /\ DOMAIN two = DOMAIN one
      /\ \A x \in DOMAIN one : two[x].data = one[x].data /\ two[x].connected = one[x].connected
  BY MarkedIs
<1> HIDE DEF two
<1>3. /\ DOMAIN two = DOMAIN index
      /\ \A x \in DOMAIN index : two[x].data = index[x].data /\ two[x].connected = index[x].connected
  BY <1>1, <1>2
<1>4. Grows(two, dirtied)
  BY <1>3 DEF IInv, TypeInv, Grows, NoMore, Closed
<1> QED  BY <1>3, <1>4 DEF one, two

\* Also when the flush on the way down has the parent of a disconnected block as
\* its best block.
LEMMA InvalidateBlockLemma ==
    ASSUME IInv, NEW t \in Thread, NEW b \in Block, InvalidateBlock(t, b)
    PROVE  IInv'
<1> DEFINE walked == IF b \in Ancestry[tip] THEN Ancestry[tip] \ Ancestry[Prev[b]] ELSE {}
           to == IF walked = {} THEN tip ELSE Prev[b]
           Failed(children) == Marked(Marked(index, {b}, "VALID"), children, "CHILD")
<1>1. b \in DOMAIN index \ {Genesis}
  BY DEF InvalidateBlock
<1>2. tip \in Block /\ Ancestry[tip] \subseteq DOMAIN index /\ DOMAIN index \subseteq Block
  BY DEF IInv, TypeInv, Complete
<1>3. \A x \in walked : x \in Ancestry[tip] \ {Genesis}
  BY <1>1, AncestryOfChild, TreeAssumption
<1>4. \A x \in Ancestry[tip] \ {Genesis} : Prev[x] \in Block /\ Complete(index, Prev[x])
  <2> TAKE x \in Ancestry[tip] \ {Genesis}
  <2>1. Prev[x] \in Block /\ Ancestry[Prev[x]] \subseteq Ancestry[x]
    BY <1>2, AncestryOfChild
  <2>2. Ancestry[x] \subseteq Ancestry[tip]
    BY <1>2, TreeAssumption
  <2> QED  BY <2>1, <2>2 DEF IInv, Complete
<1>5. to \in Block /\ Complete(index, to)
  BY <1>1, <1>2, <1>4 DEF IInv
<1>6. /\ index' = Failed(walked)
      /\ tip' = to
      /\ candidates' \subseteq candidates \cup DOMAIN index
      /\ thread' = [thread EXCEPT ![t] = Activating(None)]
      /\ UNCHANGED setting
  BY DEF InvalidateBlock
<1> HIDE DEF to
<1>7. dirty \cup {b} \cup walked \subseteq DOMAIN index
  BY <1>1, <1>2, <1>3 DEF IInv, TypeInv
<1>8. /\ Grows(index', dirty \cup {b} \cup walked)
      /\ DOMAIN index' = DOMAIN index
      /\ \A x \in DOMAIN index : /\ index'[x].data = index[x].data
                                 /\ index'[x].connected = index[x].connected
  <2> DEFINE dirtied == dirty \cup {b} \cup walked
  <2>1. dirty \subseteq dirtied /\ dirtied \subseteq DOMAIN index
    BY <1>7
  <2> HIDE DEF dirtied, walked
  <2>2. Grows(Failed(walked), dirtied)
    BY <2>1, InvalidatedGrows
  <2>3. /\ DOMAIN Failed(walked) = DOMAIN index
        /\ \A x \in DOMAIN index : /\ Failed(walked)[x].data = index[x].data
                                   /\ Failed(walked)[x].connected = index[x].connected
    BY <2>1, InvalidatedGrows
  <2>4. index' = Failed(walked)
    BY <1>6
  <2> HIDE DEF Failed
  <2> QED  BY <2>2, <2>3, <2>4 DEF dirtied
<1>9. Complete(index', tip')
  BY <1>5, <1>6, <1>8 DEF Complete
<1>10. /\ DiskInv(index', dirty', diskIndex', diskTip')
       /\ dirty' \subseteq DOMAIN index'
       /\ diskTip' \in Block
  <2>1. CASE FlushStateToDisk("none", index', dirty \cup {b} \cup walked, to)
    BY <2>1, <1>5, <1>6, <1>8, <1>9, FlushSaves
  <2>2. CASE \E flushed \in {Prev[x] : x \in walked} :
                LET children == walked \ Ancestry[flushed]
                IN  /\ diskIndex' = Written(Failed(children), dirty \cup {b} \cup children)
                    /\ diskTip' = flushed
                    /\ dirty' = walked \cap Ancestry[flushed]
    <3>1. PICK flushed \in {Prev[x] : x \in walked} :
                LET children == walked \ Ancestry[flushed]
                IN  /\ diskIndex' = Written(Failed(children), dirty \cup {b} \cup children)
                    /\ diskTip' = flushed
                    /\ dirty' = walked \cap Ancestry[flushed]
      BY <2>2
    <3> DEFINE children == walked \ Ancestry[flushed]
               dirtied == dirty \cup {b} \cup children
               idx == Failed(children)
    <3>2. flushed \in Block /\ Complete(index, flushed)
      BY <1>3, <1>4
    <3>3. dirty \subseteq dirtied /\ dirtied \subseteq DOMAIN index
      BY <1>7
    <3> HIDE DEF children, dirtied
    <3>4. /\ Grows(idx, dirtied)
          /\ DOMAIN idx = DOMAIN index
          /\ \A x \in DOMAIN index : idx[x].data = index[x].data /\ idx[x].connected = index[x].connected
      BY <3>3, InvalidatedGrows
    <3>5. diskIndex' = Written(idx, dirtied) /\ diskTip' = flushed
      BY <3>1 DEF children, dirtied
    <3> HIDE DEF idx
    <3>6. Complete(idx, flushed)
      BY <3>2, <3>4 DEF Complete
    <3>7. /\ NoMore(diskIndex', idx) /\ Saved(idx, {}, diskIndex')
          /\ Closed(diskIndex') /\ Complete(diskIndex', diskTip')
      BY <3>2, <3>4, <3>5, <3>6, WriteSaves
    <3>8. NoMore(diskIndex', index') /\ Saved(index', dirty', diskIndex')
      BY <1>8, <3>4, <3>7 DEF NoMore, Saved
    <3>9. dirty' \subseteq DOMAIN index'
      BY <1>7, <1>8, <3>1
    <3> QED  BY <3>2, <3>5, <3>7, <3>8, <3>9 DEF DiskInv
  <2> QED  BY <1>6, <2>1, <2>2 DEF InvalidateBlock, to
<1>11. TypeInv'
  BY <1>5, <1>6, <1>8, <1>10, ThreadTyped DEF IInv, TypeInv, Grows
<1> QED  BY <1>9, <1>10, <1>11 DEF IInv

\* ResetBlockFailureFlags changes flags only.
LEMMA ReconsiderBlockLemma ==
    ASSUME IInv, NEW t \in Thread, NEW b \in Block, ReconsiderBlock(t, b)
    PROVE  IInv'
<1>1. Ancestry[b] \subseteq DOMAIN index
  BY DEF ReconsiderBlock, IInv, TypeInv, Closed
<1>2. /\ DOMAIN index' = DOMAIN index
      /\ \A x \in DOMAIN index : /\ index'[x].data = index[x].data
                                 /\ index'[x].connected = index[x].connected
      /\ candidates' \subseteq candidates \cup DOMAIN index
      /\ dirty \subseteq dirty' /\ dirty' \subseteq dirty \cup DOMAIN index \cup Ancestry[b]
      /\ thread' = [thread EXCEPT ![t] = Activating(None)]
      /\ UNCHANGED <<setting, tip, diskIndex, diskTip>>
  BY DEF ReconsiderBlock, Reset, Flagged
<1>3. Grows(index', dirty')
  BY <1>1, <1>2 DEF IInv, TypeInv, Grows, NoMore, Closed
<1>4. TypeInv'
  BY <1>2, <1>3, ThreadTyped DEF IInv, TypeInv, Grows
<1> QED  BY <1>2, <1>3, <1>4, InMemory

\* A flush between two operations.
LEMMA PeriodicFlushLemma ==
    ASSUME IInv, PeriodicFlush
    PROVE  IInv'
<1>1. PICK mode : FlushStateToDisk(mode, index, dirty, tip)
  BY DEF PeriodicFlush
<1>2. UNCHANGED <<setting, index, candidates, tip, thread>>
  BY DEF PeriodicFlush
<1>3. Grows(index, dirty) /\ tip \in Block /\ Complete(index, tip)
  BY DEF IInv, TypeInv, Grows, NoMore
<1>4. DiskInv(index, dirty', diskIndex', diskTip') /\ dirty' \subseteq DOMAIN index /\ diskTip' \in Block
  BY <1>1, <1>3, FlushSaves
<1> QED  BY <1>2, <1>4 DEF IInv, TypeInv

\* LoadBlockIndexDB: memory starts as the disk.
LEMMA CrashLemma ==
    ASSUME IInv, Crash
    PROVE  IInv'
<1>1. PICK disk \in {diskIndex, Written(index, dirty)} :
          diskIndex' = disk /\ LoadBlockIndexDB(disk)
  BY DEF Crash
<1>2. dirty' = {} /\ diskTip' = diskTip /\ setting' = setting
  BY DEF Crash
<1>3. Complete(disk, diskTip) /\ Closed(disk) /\ DOMAIN disk \subseteq Block
  <2>1. Grows(index, dirty)
    BY DEF IInv, TypeInv, Grows, NoMore
  <2> QED  BY <1>1, <2>1, WriteSaves DEF IInv, DiskInv, TypeInv, NoMore
<1>4. /\ DOMAIN index' = DOMAIN disk
      /\ \A x \in DOMAIN disk : /\ index'[x].data = disk[x].data
                                /\ index'[x].connected = disk[x].connected
      /\ tip' = diskTip
      /\ candidates' \subseteq DOMAIN disk
  BY <1>1 DEF LoadBlockIndexDB, PruneBlockIndexCandidates
<1>5. PICK t \in Thread : thread' = [u \in Thread |-> IF u = t THEN Activating(None) ELSE Idle]
  BY DEF Crash
<1>6. Complete(index', tip') /\ DiskInv(index', dirty', diskIndex', diskTip')
  BY <1>1, <1>2, <1>3, <1>4 DEF Complete, DiskInv, NoMore, Saved
<1>7. TypeInv'
  BY <1>2, <1>3, <1>4, <1>5 DEF IInv, TypeInv, Closed, Activating, Idle
<1> QED  BY <1>6, <1>7 DEF IInv

-----------------------------------------------------------------------------
\* Every step keeps the inductive invariant.
LEMMA NextLemma ==
    ASSUME IInv, [Next]_vars
    PROVE  IInv'
<1>1. setting.blocks \subseteq Block
  BY BlockTreeAssumption DEF IInv, TypeInv
<1>2. CASE \E b \in setting.blocks : AcceptBlockHeader(b)
  BY <1>1, <1>2, AcceptBlockHeaderLemma
<1>3. CASE \E t \in Thread, b \in setting.blocks, requested \in BOOLEAN :
              ProcessNewBlock(t, b, requested)
  BY <1>1, <1>3, ProcessNewBlockLemma
<1>4. CASE \E t \in Thread : BeginStep(t)
  BY <1>4, BeginStepLemma
<1>5. CASE \E t \in Thread : DisconnectTip(t)
  BY <1>5, DisconnectTipLemma
<1>6. CASE \E t \in Thread : ConnectTip(t)
  BY <1>6, ConnectTipLemma
<1>7. CASE \E t \in Thread, b \in Block : InvalidateBlock(t, b)
  BY <1>7, InvalidateBlockLemma
<1>8. CASE \E t \in Thread, b \in Block : ReconsiderBlock(t, b)
  BY <1>8, ReconsiderBlockLemma
<1>9. CASE PeriodicFlush
  BY <1>9, PeriodicFlushLemma
<1>10. CASE Crash
  BY <1>10, CrashLemma
<1>11. CASE UNCHANGED vars
  BY <1>11 DEF vars, IInv, TypeInv, Complete, DiskInv, NoMore, Saved, Closed
<1> QED
  BY <1>2, <1>3, <1>4, <1>5, <1>6, <1>7, <1>8, <1>9, <1>10, <1>11 DEF Next

\* The inductive invariant holds for every tree of blocks, every number of
\* threads and every setting.
THEOREM ChainInvariant == Spec => []IInv
<1>1. Init => IInv
  BY InitLemma
<1>2. IInv /\ [Next]_vars => IInv'
  BY NextLemma
<1> QED  BY <1>1, <1>2, PTL DEF Spec

\* FlushStateToDisk, ConnectTip, InvalidateBlock and LoadBlockIndexDB together
\* keep the disk in a state the node can be started from: at every moment the
\* coins' best block and all its ancestors are in the index on disk with data
\* and undo data.
THEOREM DiskIsRecoverable == Spec => []DiskRecoverable
<1>1. IInv => DiskRecoverable
  BY DEF IInv, DiskInv, Complete, DiskRecoverable
<1> QED  BY <1>1, ChainInvariant, PTL

\* The blocks of the active chain are in the index with data and undo data, so
\* that ActivateBestChainStep can always disconnect them (DisconnectTip reads
\* both from disk).
ActiveChainComplete == Complete(index, tip)
THEOREM ActiveChainIsComplete == Spec => []ActiveChainComplete
<1>1. IInv => ActiveChainComplete
  BY DEF IInv, ActiveChainComplete
<1> QED  BY <1>1, ChainInvariant, PTL
=============================================================================
