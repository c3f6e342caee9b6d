--------------------------- MODULE OrphanPoolProofs ---------------------------
(***************************************************************************)
(* The index of the orphan pool is exact, and the pool bounded, for any    *)
(* transactions, peers and settings.                                       *)
(***************************************************************************)
EXTENDS OrphanPool, FiniteSetTheorems, WellFoundedInduction, TLAPS

\* The index that belongs to a set of orphans.
IndexOf(D) == [o \in SpentBy(D) |-> {h \in D : o \in Spends[h]}]

\* Types, and that the next sweep is never later than for an orphan that is
\* added now.
Shape ==
    /\ setting \in Settings
    /\ node \in [Peer -> {"new", "up", "gone"}]
    /\ DOMAIN orphans \subseteq Tx
    /\ orphans \in [DOMAIN orphans -> [from : Peer, expire : Nat]]
    /\ now \in Nat /\ nextSweep \in Nat
    /\ nextSweep <= now + ExpireTime + ExpireInterval

IInv == Shape /\ IndexExact /\ OriginsConnected /\ OrphansBounded

-----------------------------------------------------------------------------
\* The least element of a set of numbers is one of them.
LEMMA MinOfNaturals ==
    ASSUME NEW T \in SUBSET Nat, T # {}
    PROVE  Min(T) \in T /\ \A y \in T : Min(T) <= y
<1>1. OpToRel(<, Nat) = {ss \in Nat \X Nat : ss[1] < ss[2]}
  BY Zenon DEF OpToRel
<1>2. IsWellFoundedOn({ss \in Nat \X Nat : ss[1] < ss[2]}, Nat)
  BY <1>1, NatLessThanWellFounded, Zenon
<1>3. PICK x \in T : \A y \in T : ~(<<y, x>> \in {ss \in Nat \X Nat : ss[1] < ss[2]})
  BY <1>2, WFMin, Zenon
<1>4. ASSUME NEW y \in T PROVE x <= y
  <2>1. x \in Nat /\ y \in Nat
    OBVIOUS
  <2>2. <<y, x>> \in Nat \X Nat /\ <<y, x>>[1] = y /\ <<y, x>>[2] = x
    BY <2>1
  <2>3. ~(y < x)
    BY <1>3, <2>2
  <2> QED
    BY <2>1, <2>3
<1> QED
  BY <1>4 DEF Min

\* EraseOrphanTx leaves the index of the orphans that are left.
LEMMA EraseKeepsIndex ==
    ASSUME NEW D \in SUBSET Tx, NEW S \in SUBSET D
    PROVE  EraseFromIndex(IndexOf(D), S) = IndexOf(D \ S)
<1>1. \A o \in DOMAIN IndexOf(D) : Without(IndexOf(D), S, o) = {h \in D \ S : o \in Spends[h]}
  BY DEF IndexOf, Without
<1>2. {o \in DOMAIN IndexOf(D) : Without(IndexOf(D), S, o) # {}} = SpentBy(D \ S)
  <2>1. DOMAIN IndexOf(D) = SpentBy(D)
    BY DEF IndexOf
  <2>2. \A o : o \in SpentBy(D \ S) <=> \E h \in D \ S : o \in Spends[h]
    BY DEF SpentBy
  <2>3. SpentBy(D \ S) \subseteq SpentBy(D)
    BY DEF SpentBy
  <2> QED
    BY <1>1, <2>1, <2>2, <2>3
<1> QED
  BY <1>1, <1>2 DEF EraseFromIndex, IndexOf

\* AddOrphanTx makes the index of the orphans with the new one.
LEMMA AddKeepsIndex ==
    ASSUME NEW D \in SUBSET Tx, NEW h \in Tx \ D
    PROVE  AddToIndex(IndexOf(D), h) = IndexOf(D \cup {h})
<1>1. DOMAIN IndexOf(D) \cup Spends[h] = SpentBy(D \cup {h})
  BY DEF IndexOf, SpentBy
<1>2. \A o \in SpentBy(D \cup {h}) :
         (IF o \in DOMAIN IndexOf(D) THEN IndexOf(D)[o] ELSE {}) \cup (IF o \in Spends[h] THEN {h} ELSE {})
         = {t \in D \cup {h} : o \in Spends[t]}
  BY DEF IndexOf, SpentBy
<1> QED
  BY <1>1, <1>2 DEF AddToIndex, IndexOf

-----------------------------------------------------------------------------
\* EraseOrphanTx on any set of transactions keeps the index and the bounds.
LEMMA EraseKeeps ==
    ASSUME IInv, NEW S, EraseOrphans(S), UNCHANGED <<setting, now, nextSweep>>
    PROVE  /\ DOMAIN orphans' = DOMAIN orphans \ S
           /\ \A h \in DOMAIN orphans' : orphans'[h] = orphans[h]
           /\ orphans' \in [DOMAIN orphans' -> [from : Peer, expire : Nat]]
           /\ IndexExact'
           /\ OrphansBounded'
<1>1. DOMAIN orphans' = DOMAIN orphans \ S /\ \A h \in DOMAIN orphans' : orphans'[h] = orphans[h]
  BY DEF EraseOrphans, Restrict
<1>2. orphans' \in [DOMAIN orphans' -> [from : Peer, expire : Nat]]
  BY <1>1 DEF IInv, Shape, EraseOrphans, Restrict
<1>3. IndexExact'
  <2>1. byPrev = IndexOf(DOMAIN orphans)
    BY DEF IInv, IndexExact, IndexOf
  <2>2. byPrev' = EraseFromIndex(IndexOf(DOMAIN orphans), S \cap DOMAIN orphans)
    BY <2>1 DEF EraseOrphans
  <2>3. byPrev' = IndexOf(DOMAIN orphans \ (S \cap DOMAIN orphans))
    BY <2>2, EraseKeepsIndex DEF IInv, Shape
  <2>4. DOMAIN orphans \ (S \cap DOMAIN orphans) = DOMAIN orphans'
    BY <1>1
  <2> QED
    BY <2>3, <2>4 DEF IndexExact, IndexOf, SpentBy
<1>4. OrphansBounded'
  <2>1. IsFiniteSet(DOMAIN orphans)
    BY OrphanAssumption, FS_Subset DEF IInv, Shape
  <2>2. Cardinality(DOMAIN orphans') <= Cardinality(DOMAIN orphans)
    BY <1>1, <2>1, FS_Subset
  <2>3. Cardinality(DOMAIN orphans) \in Nat /\ Cardinality(DOMAIN orphans') \in Nat
    BY <1>1, <2>1, FS_CardinalityType, FS_Subset
  <2>4. setting.maxOrphans \in Nat
    BY OrphanAssumption DEF IInv, Shape
  <2>5. Cardinality(DOMAIN orphans') <= setting'.maxOrphans
    BY <2>2, <2>3, <2>4 DEF IInv, OrphansBounded
  <2> QED
    BY <1>1, <2>5 DEF IInv, OrphansBounded
<1> QED
  BY <1>1, <1>2, <1>3, <1>4

\* The sweep comes an interval after the first orphan that is not expired, at
\* the latest, and not later than for one that is added now.
LEMMA NextSweepInTime ==
    ASSUME now \in Nat, NEW D, NEW S \in [D -> [from : Peer, expire : Nat]]
    PROVE  /\ NextSweep(S) \in Nat
           /\ NextSweep(S) <= now + ExpireTime
           /\ \A h \in D \ Expired(S) : NextSweep(S) <= S[h].expire + ExpireInterval
<1> DEFINE C == {now + ExpireTime - ExpireInterval} \cup {S[h].expire : h \in DOMAIN S \ Expired(S)}
<1>1. now + ExpireTime - ExpireInterval \in Nat
  BY OrphanAssumption
<1>2. DOMAIN S = D
  OBVIOUS
<1>3. C \in SUBSET Nat /\ C # {}
  BY <1>1, <1>2
<1>4. Min(C) \in C /\ \A y \in C : Min(C) <= y
  BY <1>3, MinOfNaturals
<1>5. NextSweep(S) = Min(C) + ExpireInterval
  BY DEF NextSweep
<1>6. Min(C) \in Nat
  BY <1>3, <1>4
<1>7. Min(C) <= now + ExpireTime - ExpireInterval
  BY <1>4
<1>8. ASSUME NEW h \in D \ Expired(S) PROVE Min(C) <= S[h].expire /\ S[h].expire \in Nat
  BY <1>2, <1>4
<1> HIDE DEF C
<1> QED
  BY <1>5, <1>6, <1>7, <1>8, OrphanAssumption

\* Random eviction leaves as many as allowed.
LEMMA EvictionLeaves ==
    ASSUME NEW left, IsFiniteSet(left), setting \in Settings, NEW evicted \in Evictions(left)
    PROVE  evicted \subseteq left /\ Cardinality(left \ evicted) <= setting.maxOrphans
<1>1. setting.maxOrphans \in Nat /\ Cardinality(left) \in Nat
  BY OrphanAssumption, FS_CardinalityType
<1>2. CASE Cardinality(left) <= setting.maxOrphans
  <2>1. evicted = {} /\ left \ evicted = left
    BY <1>2 DEF Evictions
  <2> QED
    BY <1>2, <2>1
<1>3. CASE ~(Cardinality(left) <= setting.maxOrphans)
  <2>1. evicted \subseteq left /\ Cardinality(evicted) = Cardinality(left) - setting.maxOrphans
    BY <1>3 DEF Evictions, kSubset
  <2>2. left \cap evicted = evicted
    BY <2>1
  <2>3. Cardinality(left \ evicted) = Cardinality(left) - Cardinality(evicted)
    BY <2>2, FS_Difference
  <2> QED
    BY <1>1, <2>1, <2>3
<1> QED
  BY <1>2, <1>3

\* LimitOrphanTxSize keeps the index and establishes the bounds.
LEMMA LimitKeeps ==
    ASSUME setting \in Settings, now \in Nat, nextSweep \in Nat,
           nextSweep <= now + ExpireTime + ExpireInterval,
           NEW D \in SUBSET Tx, NEW S \in [D -> [from : Peer, expire : Nat]],
           \A h \in D : nextSweep <= S[h].expire + ExpireInterval,
           LimitOrphanTxSize(S, IndexOf(D)), UNCHANGED <<setting, now>>
    PROVE  /\ DOMAIN orphans' \subseteq D
           /\ \A h \in DOMAIN orphans' : orphans'[h] = S[h]
           /\ orphans' \in [DOMAIN orphans' -> [from : Peer, expire : Nat]]
           /\ nextSweep' \in Nat /\ nextSweep' <= now + ExpireTime + ExpireInterval
           /\ IndexExact'
           /\ OrphansBounded'
<1> DEFINE swept == IF nextSweep <= now THEN Expired(S) ELSE {}
<1>1. DOMAIN S = D /\ swept \subseteq D
  BY DEF Expired
<1>2. PICK evicted \in Evictions(D \ swept) :
         /\ orphans' = Restrict(S, D \ (swept \cup evicted))
         /\ byPrev' = EraseFromIndex(IndexOf(D), swept \cup evicted)
         /\ nextSweep' = IF nextSweep <= now THEN NextSweep(S) ELSE nextSweep
  BY <1>1 DEF LimitOrphanTxSize
<1>3. IsFiniteSet(D \ swept)
  BY OrphanAssumption, FS_Subset
<1>4. evicted \subseteq D \ swept /\ Cardinality((D \ swept) \ evicted) <= setting.maxOrphans
  BY <1>3, EvictionLeaves
<1>5. /\ DOMAIN orphans' = D \ (swept \cup evicted)
      /\ \A h \in DOMAIN orphans' : orphans'[h] = S[h]
      /\ orphans' \in [DOMAIN orphans' -> [from : Peer, expire : Nat]]
  BY <1>2 DEF Restrict
<1>6. IndexExact'
  <2>1. swept \cup evicted \in SUBSET D
    BY <1>1, <1>4
  <2>2. byPrev' = IndexOf(D \ (swept \cup evicted))
    BY <1>2, <2>1, EraseKeepsIndex
  <2> QED
    BY <1>5, <2>2 DEF IndexExact, IndexOf, SpentBy
<1>7. Cardinality(DOMAIN orphans') <= setting'.maxOrphans
  <2>1. DOMAIN orphans' = (D \ swept) \ evicted
    BY <1>5
  <2> QED
    BY <1>4, <2>1
<1>8. nextSweep' \in Nat /\ nextSweep' <= now + ExpireTime + ExpireInterval
  BY <1>2, NextSweepInTime, OrphanAssumption
<1>9. ASSUME NEW h \in DOMAIN orphans' PROVE nextSweep' <= orphans'[h].expire + ExpireInterval
  <2>1. h \in D \ swept /\ orphans'[h] = S[h]
    BY <1>5
  <2>2. CASE nextSweep <= now
    BY <1>2, <2>1, <2>2, NextSweepInTime
  <2>3. CASE ~(nextSweep <= now)
    BY <1>2, <2>1, <2>3
  <2> QED
    BY <2>2, <2>3
<1> QED
  BY <1>5, <1>6, <1>7, <1>8, <1>9 DEF OrphansBounded

-----------------------------------------------------------------------------
\* The node starts without orphans.
LEMMA InitIInv == Init => IInv
<1> SUFFICES ASSUME Init PROVE IInv
  OBVIOUS
<1>1. DOMAIN orphans = {}
  BY DEF Init
<1>2. Shape
  BY <1>1, OrphanAssumption DEF Init, Shape
<1>3. IndexExact
  BY <1>1 DEF Init, IndexExact, SpentBy
<1>4. OrphansBounded
  BY <1>1, FS_EmptySet, OrphanAssumption DEF Init, OrphansBounded
<1> QED
  BY <1>1, <1>2, <1>3, <1>4 DEF IInv, OriginsConnected

\* The steps that only erase orphans: a block that is connected, and the end of
\* the work queue.
LEMMA ErasingKeepsIInv ==
    ASSUME IInv, NEW S, EraseOrphans(S), UNCHANGED <<setting, node, now, nextSweep>>
    PROVE  IInv'
<1>1. /\ DOMAIN orphans' = DOMAIN orphans \ S
      /\ \A h \in DOMAIN orphans' : orphans'[h] = orphans[h]
      /\ orphans' \in [DOMAIN orphans' -> [from : Peer, expire : Nat]]
      /\ IndexExact' /\ OrphansBounded'
  BY EraseKeeps
<1>2. Shape'
  BY <1>1 DEF IInv, Shape
<1>3. OriginsConnected'
  BY <1>1 DEF IInv, OriginsConnected
<1> QED
  BY <1>1, <1>2, <1>3 DEF IInv

\* The steps that do not look at the orphans.
LEMMA SameOrphansKeepIInv ==
    ASSUME IInv, UNCHANGED <<setting, node, orphans, byPrev, now, nextSweep>>
    PROVE  IInv'
BY DEF IInv, Shape, IndexExact, OriginsConnected, OrphansBounded

\* The message "tx" with missing parents.
LEMMA AddingKeepsIInv ==
    ASSUME IInv, NEW p \in Peer, NEW h \in Tx \ DOMAIN orphans, node[p] = "up",
           AddOrphanTx(h, p), UNCHANGED <<setting, node, now>>
    PROVE  IInv'
<1>1. byPrev = IndexOf(DOMAIN orphans) /\ DOMAIN orphans \in SUBSET Tx
  BY DEF IInv, Shape, IndexExact, IndexOf
<1> DEFINE D == DOMAIN orphans \cup {h}
           More == [t \in D |-> IF t = h THEN [from |-> p, expire |-> now + ExpireTime] ELSE orphans[t]]
<1>2. \E E \in SUBSET D : \E S \in [E -> [from : Peer, expire : Nat]] :
         /\ \A t \in E : node[S[t].from] = "up" /\ nextSweep <= S[t].expire + ExpireInterval
         /\ LimitOrphanTxSize(S, IndexOf(E))
  <2>1. CASE h \in Large
    <3>1. LimitOrphanTxSize(orphans, IndexOf(DOMAIN orphans))
      BY <1>1, <2>1 DEF AddOrphanTx
    <3>2. \A t \in DOMAIN orphans : node[orphans[t].from] = "up" /\ nextSweep <= orphans[t].expire + ExpireInterval
      BY DEF IInv, OriginsConnected, OrphansBounded
    <3> QED
      BY <3>1, <3>2 DEF IInv, Shape
  <2>2. CASE h \notin Large
    <3>1. LimitOrphanTxSize(More, AddToIndex(byPrev, h))
      BY <2>2 DEF AddOrphanTx
    <3>2. AddToIndex(byPrev, h) = IndexOf(D)
      BY <1>1, AddKeepsIndex
    <3>3. More \in [D -> [from : Peer, expire : Nat]]
      BY OrphanAssumption DEF IInv, Shape
    <3>4. \A t \in D : node[More[t].from] = "up"
      BY DEF IInv, OriginsConnected
    <3>5. \A t \in D : nextSweep <= More[t].expire + ExpireInterval
      BY OrphanAssumption DEF IInv, OrphansBounded, Shape
    <3> HIDE DEF More
    <3> QED
      BY <3>1, <3>2, <3>3, <3>4, <3>5
  <2> QED
    BY <2>1, <2>2
<1>3. PICK E \in SUBSET D : \E S \in [E -> [from : Peer, expire : Nat]] :
         /\ \A t \in E : node[S[t].from] = "up" /\ nextSweep <= S[t].expire + ExpireInterval
         /\ LimitOrphanTxSize(S, IndexOf(E))
  BY <1>2
<1>4. PICK S \in [E -> [from : Peer, expire : Nat]] :
         /\ \A t \in E : node[S[t].from] = "up" /\ nextSweep <= S[t].expire + ExpireInterval
         /\ LimitOrphanTxSize(S, IndexOf(E))
  BY <1>3
<1>5. E \in SUBSET Tx
  BY <1>1
<1>6. setting \in Settings /\ now \in Nat /\ nextSweep \in Nat /\ nextSweep <= now + ExpireTime + ExpireInterval
  BY DEF IInv, Shape
<1>7. /\ DOMAIN orphans' \subseteq E
      /\ \A t \in DOMAIN orphans' : orphans'[t] = S[t]
      /\ orphans' \in [DOMAIN orphans' -> [from : Peer, expire : Nat]]
      /\ nextSweep' \in Nat /\ nextSweep' <= now + ExpireTime + ExpireInterval
      /\ IndexExact' /\ OrphansBounded'
  BY <1>4, <1>5, <1>6, LimitKeeps
<1>8. Shape'
  BY <1>5, <1>6, <1>7 DEF IInv, Shape
<1>9. OriginsConnected'
  BY <1>4, <1>7 DEF OriginsConnected
<1> QED
  BY <1>7, <1>8, <1>9 DEF IInv

\* Every step keeps the inductive invariant.
LEMMA NextKeepsIInv == IInv /\ [Next]_vars => IInv'
<1> SUFFICES ASSUME IInv, [Next]_vars PROVE IInv'
  OBVIOUS
<1>1. setting.txs \subseteq Tx /\ setting.peers \subseteq Peer
  BY OrphanAssumption DEF IInv, Shape
<1>2. ASSUME NEW p \in setting.peers, InitializeNode(p) PROVE IInv'
  <2>1. Shape'
    BY <1>1, <1>2 DEF IInv, Shape, InitializeNode
  <2>2. OriginsConnected'
    BY <1>1, <1>2 DEF IInv, Shape, OriginsConnected, InitializeNode
  <2> QED
    BY <1>2, <2>1, <2>2 DEF IInv, InitializeNode, IndexExact, OrphansBounded
<1>3. ASSUME NEW p \in setting.peers, FinalizeNode(p) PROVE IInv'
  <2> DEFINE S == {h \in DOMAIN orphans : orphans[h].from = p}
  <2>1. EraseOrphans(S) /\ UNCHANGED <<setting, now, nextSweep>> /\ node' = [node EXCEPT ![p] = "gone"]
    BY <1>3 DEF FinalizeNode, EraseOrphansFor
  <2>2. /\ DOMAIN orphans' = DOMAIN orphans \ S
        /\ \A h \in DOMAIN orphans' : orphans'[h] = orphans[h]
        /\ orphans' \in [DOMAIN orphans' -> [from : Peer, expire : Nat]]
        /\ IndexExact' /\ OrphansBounded'
    BY <2>1, EraseKeeps
  <2>3. Shape'
    BY <1>1, <2>1, <2>2 DEF IInv, Shape
  <2>4. OriginsConnected'
    BY <1>1, <2>1, <2>2 DEF IInv, Shape, OriginsConnected
  <2> QED
    BY <2>2, <2>3, <2>4 DEF IInv
<1>4. ASSUME NEW p \in setting.peers, NEW h \in setting.txs, ReceiveTx(p, h) PROVE IInv'
  <2>1. UNCHANGED <<setting, node, now>> /\ node[p] = "up"
    BY <1>4 DEF ReceiveTx
  <2>2. ASSUME NEW rejected, Refused(rejected) PROVE IInv'
    BY <2>1, <2>2, SameOrphansKeepIInv DEF Refused
  <2>3. ASSUME Accepted(h) PROVE IInv'
    <3>1. \E S : EraseOrphans(S) /\ UNCHANGED nextSweep
      BY <2>3 DEF Accepted
    <3> QED
      BY <2>1, <3>1, ErasingKeepsIInv
  <2>4. ASSUME Missing(h, p), ~AlreadyHave(h) PROVE IInv'
    <3>1. h \in Tx \ DOMAIN orphans /\ p \in Peer
      BY <1>1, <2>4 DEF AlreadyHave
    <3>2. CASE UNCHANGED <<orphans, byPrev, nextSweep>>
      BY <2>1, <3>2, SameOrphansKeepIInv
    <3>3. CASE AddOrphanTx(h, p)
      BY <2>1, <3>1, <3>3, AddingKeepsIInv
    <3> QED
      BY <2>4, <3>2, <3>3 DEF Missing
  <2> QED
    BY <1>4, <2>2, <2>3, <2>4 DEF ReceiveTx
<1>5. ASSUME NEW h \in setting.txs, ConnectBlock(h) PROVE IInv'
  BY <1>5, ErasingKeepsIInv DEF ConnectBlock
<1>6. ASSUME NEW h \in setting.txs, AcceptLocal(h) \/ LeavePool(h) PROVE IInv'
  BY <1>6, SameOrphansKeepIInv DEF AcceptLocal, LeavePool
<1>7. CASE DisconnectBlock
  BY <1>7, SameOrphansKeepIInv DEF DisconnectBlock
<1>8. CASE Tick
  <2>1. Shape'
    BY <1>8, OrphanAssumption DEF Tick, IInv, Shape
  <2> QED
    BY <1>8, <2>1 DEF Tick, IInv, IndexExact, OriginsConnected, OrphansBounded
<1>9. CASE UNCHANGED vars
  BY <1>9, SameOrphansKeepIInv DEF vars
<1> QED
  BY <1>2, <1>3, <1>4, <1>5, <1>6, <1>7, <1>8, <1>9 DEF Next

\* The index of the orphan pool never holds an iterator of an erased orphan and
\* never misses one, whatever peers, blocks and the clock do.
THEOREM OrphanIndexIsExact == Spec => []IndexExact
<1>1. IInv => IndexExact
  BY DEF IInv
<1> QED
  BY <1>1, InitIInv, NextKeepsIInv, PTL DEF Spec

\* No orphan outlives the connection of the peer that sent it.
THEOREM OrphanOriginsConnected == Spec => []OriginsConnected
<1>1. IInv => OriginsConnected
  BY DEF IInv
<1> QED
  BY <1>1, InitIInv, NextKeepsIInv, PTL DEF Spec

\* The orphan pool stays within -maxorphantx, and the sweep that removes an
\* expired orphan is never scheduled later than an interval after its expiry.
THEOREM OrphanPoolIsBounded == Spec => []OrphansBounded
<1>1. IInv => OrphansBounded
  BY DEF IInv
<1> QED
  BY <1>1, InitIInv, NextKeepsIInv, PTL DEF Spec
=============================================================================
