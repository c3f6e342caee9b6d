------------------------------ MODULE OrphanPool ------------------------------
(***************************************************************************)
(* Transactions whose parents are not known yet (main.cpp): they wait in   *)
(* mapOrphanTransactions, found through an index by the outpoints they     *)
(* spend, and enter the memory pool when their parents do. They are        *)
(* bounded by random eviction, an expiry that is swept now and then, and   *)
(* the disconnection of the peer that sent them; blocks erase those they   *)
(* include or preclude.                                                    *)
(*                                                                         *)
(* Every handler holds cs_main from beginning to end. The memory pool is a *)
(* set of transactions here and AcceptToMemoryPool a verdict on one of     *)
(* them (module Mempool has its detail); the chain is a sequence of sets   *)
(* of transactions, which is also the identity of its tip.                 *)
(***************************************************************************)
EXTENDS Integers, Sequences, FiniteSets, SequencesExt, FiniteSetsExt, Functions

CONSTANTS Tx,              \* transactions
          Spends,          \* the outpoints <<tx, n>> a transaction spends
          Outputs,         \* how many outputs it has
          Verdict,         \* what validation says of it, once it has its inputs
          Large,           \* the ones that are too large to keep as orphans
          Root,            \* a transaction that was confirmed long ago
          Peer,            \* node ids, each used once
          ExpireTime, ExpireInterval, \* ORPHAN_TX_EXPIRE_TIME, ORPHAN_TX_EXPIRE_INTERVAL
          Settings         \* -maxorphantx, and the bounds of an instance

Outpoint == UNION {{t} \X (1..Outputs[t]) : t \in Tx \cup {Root}}

ASSUME OrphanAssumption ==
    /\ Root \notin Tx
    /\ IsFiniteSet(Tx)
    /\ Outputs \in [Tx \cup {Root} -> Nat]
    /\ Spends \in [Tx -> SUBSET Outpoint]
    /\ Verdict \in [Tx -> {"accepted", "refused", "stripped", "invalid"}]
    /\ Large \subseteq Tx
    /\ Settings \subseteq [maxOrphans : Nat, txs : SUBSET Tx, peers : SUBSET Peer, time : Nat, blocks : Nat]
    /\ ExpireTime \in Nat /\ ExpireInterval \in Nat /\ ExpireInterval <= ExpireTime

VARIABLES setting,
          node,       \* mapNodeState: peer -> "new", "up" or "gone"
          orphans,    \* mapOrphanTransactions: tx -> fromPeer and nTimeExpire
          byPrev,     \* mapOrphanTransactionsByPrev: outpoint -> orphans
          rejects,    \* recentRejects
          rejectsTip, \* hashRecentRejectsChainTip
          pool,       \* the memory pool
          chain,      \* the active chain above Root
          mined,      \* what pcoinsTip may have in its cache: all that was ever connected
          now, nextSweep

vars == <<setting, node, orphans, byPrev, rejects, rejectsTip, pool, chain, mined, now, nextSweep>>

-----------------------------------------------------------------------------
\* The two maps.

\* Mutant: the index is not made for an outpoint that is in it.
AddToIndexOnce(ix, h) ==
    [o \in DOMAIN ix \cup Spends[h] |-> IF o \in DOMAIN ix THEN ix[o] ELSE {h}]

AddToIndex(ix, h) ==
    [o \in DOMAIN ix \cup Spends[h] |->
        (IF o \in DOMAIN ix THEN ix[o] ELSE {}) \cup (IF o \in Spends[h] THEN {h} ELSE {})]

\* What EraseOrphanTx, called for each of the transactions, leaves of the index:
\* their iterators go, and so does an entry without iterators.
Without(ix, S, o) == ix[o] \ {h \in S : o \in Spends[h]}
EraseFromIndex(ix, S) ==
    [o \in {p \in DOMAIN ix : Without(ix, S, p) # {}} |-> Without(ix, S, o)]

\* EraseOrphanTx for each of the transactions that is an orphan.
EraseOrphans(S) ==
    /\ orphans' = Restrict(orphans, DOMAIN orphans \ S)
    /\ byPrev' = EraseFromIndex(byPrev, S \cap DOMAIN orphans)

-----------------------------------------------------------------------------
\* AcceptToMemoryPool.

Confirmed(c) == UNION Range(c)
SpentBy(S) == UNION {Spends[t] : t \in S}
OutputsOf(t) == {t} \X (1..Outputs[t])

\* CCoinsView::HaveCoins of the chain: some output of the transaction is
\* unspent; of the pool: the transaction is there.
ChainHasCoins(c, t) == t \in Confirmed(c) \cup {Root} /\ OutputsOf(t) \ SpentBy(Confirmed(c)) # {}
HaveCoins(P, c, t) == t \in P \/ ChainHasCoins(c, t)
Available(P, c, o) == o[1] \in P \/ (ChainHasCoins(c, o[1]) /\ o \notin SpentBy(Confirmed(c)))

AcceptToMemoryPool(P, c, t) ==
    IF t \in P \/ Spends[t] \cap SpentBy(P) # {} \/ ChainHasCoins(c, t) THEN "refused"
    ELSE IF \E o \in Spends[t] : ~HaveCoins(P, c, o[1]) THEN "missing"
    ELSE IF \E o \in Spends[t] : ~Available(P, c, o) THEN "refused"
    ELSE Verdict[t]

\* The transactions of S and what depends on them in the pool.
WithDependents(P, S) ==
    FoldLeft(LAMBDA Q, n : Q \cup {t \in P : \E o \in Spends[t] : o[1] \in Q}, S, [n \in 1..Cardinality(P) |-> n])

-----------------------------------------------------------------------------
\* The orphans that depend on a transaction that was accepted.

SeqOfOutputs(t) == [n \in 1..Outputs[t] |-> <<t, n>>]

\* Mutant: the outputs of a resolved orphan are not looked at.
ResolveOneStep(r, h, verdict) ==
    CASE verdict = "accepted" -> [r EXCEPT !.pool = @ \cup {h}, !.erase = @ \cup {h}]
      [] verdict = "missing" -> r
      [] verdict = "stripped" -> [r EXCEPT !.erase = @ \cup {h}]
      [] OTHER -> [r EXCEPT !.rejects = @ \cup {h}, !.erase = @ \cup {h}]

\* One orphan: accepted ones and ones with all inputs that are not accepted are
\* put into vEraseQueue; the peer of an invalid one is in setMisbehaving. Only a
\* witness that may have been stripped keeps a refused one out of recentRejects.
ResolveOrphan(r, h, verdict) ==
    CASE verdict = "accepted" ->
            [r EXCEPT !.pool = @ \cup {h}, !.erase = @ \cup {h}, !.queue = @ \o SeqOfOutputs(h)]
      [] verdict = "missing" -> r
      [] verdict = "invalid" ->
            [r EXCEPT !.rejects = @ \cup {h}, !.erase = @ \cup {h},
                      !.misbehaving = @ \cup {orphans[h].from}]
      [] verdict = "stripped" -> [r EXCEPT !.erase = @ \cup {h}]
      [] verdict = "refused" -> [r EXCEPT !.rejects = @ \cup {h}, !.erase = @ \cup {h}]

Visit(r, h) ==
    IF orphans[h].from \in r.misbehaving THEN r
    ELSE ResolveOrphan(r, h, AcceptToMemoryPool(r.pool, chain, h))

\* The first outpoint of vWorkQueue. The orphans of an outpoint are visited in
\* the order of their addresses.
ProcessFront(r, order) ==
    IF r.queue = <<>> THEN r
    ELSE FoldLeft(Visit, [r EXCEPT !.queue = Tail(@)],
                  SelectSeq(order, LAMBDA h : Head(r.queue) \in DOMAIN byPrev /\ h \in byPrev[Head(r.queue)]))

\* Each outpoint is queued at most once, when its transaction is accepted.
ProcessWorkQueue(r, order) ==
    FoldLeft(LAMBDA x, n : ProcessFront(x, order), r, [n \in 1..Cardinality(Outpoint) |-> n])

-----------------------------------------------------------------------------
Init == /\ setting \in Settings
        /\ node = [p \in Peer |-> "new"]
        /\ orphans = <<>> /\ byPrev = <<>>
        /\ rejects = {} /\ rejectsTip = <<>>
        /\ pool = {} /\ chain = <<>> /\ mined = {}
        /\ now = 0 /\ nextSweep = 0

InitializeNode(p) == /\ node[p] = "new"
                     /\ node' = [node EXCEPT ![p] = "up"]
                     /\ UNCHANGED <<setting, orphans, byPrev, rejects, rejectsTip, pool, chain, mined, now, nextSweep>>

EraseOrphansFor(p) == EraseOrphans({h \in DOMAIN orphans : orphans[h].from = p})

FinalizeNode(p) == /\ node[p] = "up"
                   /\ node' = [node EXCEPT ![p] = "gone"]
                   /\ EraseOrphansFor(p)
                   /\ UNCHANGED <<setting, rejects, rejectsTip, pool, chain, mined, now, nextSweep>>

-----------------------------------------------------------------------------
\* LimitOrphanTxSize.

Expired(S) == {h \in DOMAIN S : S[h].expire <= now}

\* Mutant: the sweep is due an interval after the last entry that expires.
NextSweepLate(S) ==
    Max({now + ExpireTime - ExpireInterval} \cup {S[h].expire : h \in DOMAIN S \ Expired(S)}) + ExpireInterval

NextSweep(S) ==
    Min({now + ExpireTime - ExpireInterval} \cup {S[h].expire : h \in DOMAIN S \ Expired(S)}) + ExpireInterval

\* The random evictions.
Evictions(left) ==
    IF Cardinality(left) <= setting.maxOrphans THEN {{}} ELSE kSubset(Cardinality(left) - setting.maxOrphans, left)

LimitOrphanTxSize(S, ix) ==
    LET swept == IF nextSweep <= now THEN Expired(S) ELSE {}
    IN  \E evicted \in Evictions(DOMAIN S \ swept) :
            /\ orphans' = Restrict(S, DOMAIN S \ (swept \cup evicted))
            /\ byPrev' = EraseFromIndex(ix, swept \cup evicted)
            /\ nextSweep' = IF nextSweep <= now THEN NextSweep(S) ELSE nextSweep

\* AddOrphanTx, for a transaction that is not an orphan yet, and the limit.
AddOrphanTx(h, p) ==
    IF h \in Large THEN LimitOrphanTxSize(orphans, byPrev)
    ELSE LimitOrphanTxSize([t \in DOMAIN orphans \cup {h} |->
                               IF t = h THEN [from |-> p, expire |-> now + ExpireTime] ELSE orphans[t]],
                           AddToIndex(byPrev, h))

-----------------------------------------------------------------------------
\* The message "tx".

\* AlreadyHave forgets the rejects of an earlier tip. What was connected once,
\* even if it was spent or disconnected since, may have an entry in the cache
\* of coins and be taken for one we have.
FreshRejects == IF rejectsTip = chain THEN rejects ELSE {}

AlreadyHave(h) == h \in FreshRejects \cup pool \cup DOMAIN orphans

\* The transaction is new and accepted: so are the orphans that wait for it.
Accepted(h) == \E order \in SetToSeqs(DOMAIN orphans) :
    LET r == ProcessWorkQueue([pool |-> pool \cup {h}, queue |-> SeqOfOutputs(h), erase |-> {},
                               rejects |-> FreshRejects, misbehaving |-> {}], order)
    IN  /\ pool' = r.pool
        /\ rejects' = r.rejects
        /\ EraseOrphans(r.erase)
        /\ UNCHANGED nextSweep

\* It has parents we do not know: kept unless one of them was rejected.
Missing(h, p) ==
    /\ rejects' = FreshRejects
    /\ IF \E o \in Spends[h] : o[1] \in FreshRejects
       THEN UNCHANGED <<orphans, byPrev, nextSweep>>
       ELSE AddOrphanTx(h, p)
    /\ UNCHANGED pool

\* It is refused, or was known already, which counts as a rejection.
Refused(rejected) ==
              /\ rejects' = FreshRejects \cup rejected
              /\ UNCHANGED <<orphans, byPrev, pool, nextSweep>>

ReceiveTx(p, h) ==
    /\ node[p] = "up"
    /\ rejectsTip' = chain
    /\ \/ (AlreadyHave(h) \/ h \in mined) /\ Refused({h})
       \/ ~AlreadyHave(h) /\ CASE AcceptToMemoryPool(pool, chain, h) = "accepted" -> Accepted(h)
                               [] AcceptToMemoryPool(pool, chain, h) = "missing" -> Missing(h, p)
                               [] AcceptToMemoryPool(pool, chain, h) = "stripped" -> Refused({})
                               [] OTHER -> Refused({h})
    /\ UNCHANGED <<setting, node, chain, mined, now>>

-----------------------------------------------------------------------------
\* The rest of the node.

\* A transaction of the wallet or of an RPC command; orphans are not looked at.
AcceptLocal(h) == /\ AcceptToMemoryPool(pool, chain, h) = "accepted"
                  /\ pool' = pool \cup {h}
                  /\ UNCHANGED <<setting, node, orphans, byPrev, rejects, rejectsTip, chain, mined, now, nextSweep>>

\* A block with one transaction, that need not be in the pool: orphans that
\* spend the same outpoints are erased, conflicts leave the pool.
ConnectBlock(h) ==
    /\ Len(chain) < setting.blocks
    /\ h \notin Confirmed(chain) /\ Verdict[h] \in {"accepted", "refused"}
    /\ \A o \in Spends[h] : Available({}, chain, o)
    /\ chain' = Append(chain, {h}) /\ mined' = mined \cup {h}
    /\ pool' = pool \ ({h} \cup WithDependents(pool, {t \in pool : t # h /\ Spends[t] \cap Spends[h] # {}}))
    /\ EraseOrphans(UNION {byPrev[o] : o \in Spends[h] \cap DOMAIN byPrev})
    /\ UNCHANGED <<setting, node, rejects, rejectsTip, now, nextSweep>>

\* The transaction of the block is tried and removed again. What depends on it
\* goes with it only if it is not accepted (module Mempool), or when the pool
\* is looked through afterwards; orphans are not looked at.
DisconnectBlock ==
    /\ chain # <<>>
    /\ chain' = Front(chain)
    /\ \E h \in Last(chain), lost \in SUBSET {t \in pool : \E o \in Spends[t] : ~Available(pool, chain', o)} :
          pool' = pool \ WithDependents(pool, IF AcceptToMemoryPool(pool, chain', h) = "accepted" THEN lost ELSE {h} \cup lost)
    /\ UNCHANGED <<setting, node, orphans, byPrev, rejects, rejectsTip, mined, now, nextSweep>>

\* Expiry and eviction in the pool: a transaction that no other one spends.
LeavePool(h) == /\ h \in pool
                /\ \A t \in pool : \A o \in Spends[t] : o[1] # h
                /\ pool' = pool \ {h}
                /\ UNCHANGED <<setting, node, orphans, byPrev, rejects, rejectsTip, chain, mined, now, nextSweep>>

Tick == /\ now < setting.time
        /\ now' = now + 1
        /\ UNCHANGED <<setting, node, orphans, byPrev, rejects, rejectsTip, pool, chain, mined, nextSweep>>

Next == \/ \E p \in setting.peers : InitializeNode(p) \/ FinalizeNode(p)
        \/ \E p \in setting.peers, h \in setting.txs : ReceiveTx(p, h)
        \/ \E h \in setting.txs : AcceptLocal(h) \/ ConnectBlock(h) \/ LeavePool(h)
        \/ DisconnectBlock
        \/ Tick

Spec == Init /\ [][Next]_vars

-----------------------------------------------------------------------------
\* Properties.

\* mapOrphanTransactionsByPrev holds, for each outpoint, exactly the orphans
\* that spend it: no iterator of an erased orphan, which EraseOrphanTx, the
\* work queue and ConnectBlock would dereference, and none forgotten.
IndexExact ==
    byPrev = [o \in SpentBy(DOMAIN orphans) |-> {h \in DOMAIN orphans : o \in Spends[h]}]

\* An orphan's peer is connected, so that Misbehaving and State(fromPeer) find
\* the one that sent it.
OriginsConnected == \A h \in DOMAIN orphans : node[orphans[h].from] = "up"

\* There are never more than -maxorphantx orphans, and the next sweep is due
\* when one has been expired for an interval: LimitOrphanTxSize keeps the time
\* of the sweep across additions and other removals.
OrphansBounded ==
    /\ Cardinality(DOMAIN orphans) <= setting.maxOrphans
    /\ \A h \in DOMAIN orphans : nextSweep <= orphans[h].expire + ExpireInterval

\* A transaction that is received and accepted resolves, in the same step and
\* through any number of generations, the orphans that depend on it. One that
\* is left and spends an output of what was accepted still misses a parent, or
\* comes from a peer that was found misbehaving in the same step.
ResolvedAtOnce ==
    [][(\E p \in setting.peers, h \in setting.txs : ReceiveTx(p, h)) =>
       \A t \in DOMAIN orphans' :
          (\E o \in Spends[t] : o[1] \in pool' \ pool) =>
             \/ AcceptToMemoryPool(pool', chain', t) = "missing"
             \/ \E g \in DOMAIN orphans \ DOMAIN orphans' :
                   orphans[g].from = orphans[t].from /\ Verdict[g] = "invalid"]_vars
=============================================================================
