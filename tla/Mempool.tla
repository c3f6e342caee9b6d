------------------------------- MODULE Mempool -------------------------------
(***************************************************************************)
(* The memory pool (txmempool.cpp) and how main.cpp drives it: a           *)
(* transaction is accepted, may replace others, is prioritised, expires or *)
(* is evicted, is confirmed or conflicts with a confirmed one, and the     *)
(* pool is brought in line with the chain after a reorganization.          *)
(*                                                                         *)
(* The pool keeps, for every entry, links to its parents and children and  *)
(* running totals over all its ancestors and descendants. All transactions *)
(* have the same size, the unit of rates, and enough fees for relay; what  *)
(* CheckTransaction, the standardness rules and scripts decide is left to  *)
(* the choice of Tx. Time based locks and the Dandelion stem pool, a       *)
(* second CTxMemPool driven the same way, are left out.                    *)
(***************************************************************************)
EXTENDS Integers, Sequences, SequencesExt, FiniteSets, FiniteSetsExt, Functions

CONSTANTS Tx,              \* transactions
          Coinbase,        \* those of them that create coins
          Ins,             \* transaction -> sequence of outpoints <<transaction, n>>
          Outs,            \* outputs of a transaction: 1..Outs
          Fee,             \* transaction -> fee
          LockTime,        \* transaction -> nLockTime, a height, 0 for none
          Relative,        \* transaction -> relative lock of its inputs, -1 for none
          SequenceFinal,   \* transactions whose inputs are all SEQUENCE_FINAL
          Replaceable,     \* transactions that signal replacement
          Block, Txs,      \* blocks; block -> sequence of transactions
          Prev,            \* block -> parent
          FirstChain,      \* the active chain at the start
          Maturity,        \* nCoinbaseMaturity
          MinFee,          \* minRelayTxFee and minReasonableRelayFee
          AncestorLimit, DescendantLimit, PoolLimit,
          MaxReplaced,     \* maxDescendantsToVisit
          Delta,           \* fee deltas of prioritisetransaction
          MaxDeltas,       \* how many are kept at a time, a bound of the model
          Reorg,           \* "any", or "unspent": see MayDisconnect
          Prioritise       \* "any", or "leaf": see MayPrioritise

ASSUME MempoolAssumption ==
    /\ Coinbase \subseteq Tx
    /\ Ins \in [Tx -> Seq(Tx \X (1..Outs))]
    /\ SequenceFinal \subseteq {t \in Tx \ Replaceable : Relative[t] = -1}
    /\ Fee \in [Tx -> Nat] /\ LockTime \in [Tx -> Nat] /\ Relative \in [Tx -> Int]
    /\ FirstChain \in Seq(Block)
    /\ Reorg \in {"any", "unspent"}
    /\ Prioritise \in {"any", "leaf"}

VARIABLES chain, \* chainActive; pcoinsTip is always at its tip
          pool,  \* the CTxMemPool
          phase  \* "idle", or how far a reorganization under cs_main is

vars == <<chain, pool, phase>>

-----------------------------------------------------------------------------
\* The coins of a chain.
Inputs(t) == Range(Ins[t])
Confirmed(c) == UNION {Range(Txs[b]) : b \in Range(c)}
Spent(c) == UNION {Inputs(t) : t \in Confirmed(c)}
Unspent(c, o) == o[1] \in Confirmed(c) /\ o \notin Spent(c)
HaveCoins(c, t) == \E n \in 1..Outs : Unspent(c, <<t, n>>)

\* The height of a block is its index, from 1; that of the next one Len(c) + 1.
HeightOf(c, t) == CHOOSE h \in DOMAIN c : t \in Range(Txs[c[h]])

-----------------------------------------------------------------------------
\* The pool: mapTx with mapLinks (entries), mapNextTx (next), the entries by
\* time (arrival), mapDeltas, rollingMinimumFeeRate and
\* blockSinceLastRollingFeeBump.
EmptyPool == [entries |-> << >>, next |-> << >>, arrival |-> << >>,
              deltas |-> << >>, rolling |-> 0, bump |-> FALSE]

In(p) == DOMAIN p.entries
DeltaOf(p, t) == IF t \in DOMAIN p.deltas THEN p.deltas[t] ELSE 0
Fees(p, S) == MapThenSumSet(LAMBDA t : p.entries[t].fee, S)

\* What can be reached from S along links, S included.
Reach(links, S) ==
    LET step[n \in 0..Cardinality(Tx)] ==
            IF n = 0 THEN S ELSE LET near == step[n - 1] IN near \cup UNION {links[t] : t \in near}
    IN  step[Cardinality(Tx)]

\* CalculateDescendants of S, with S.
Descendants(p, S) == Reach([t \in In(p) |-> p.entries[t].children], S)

\* CalculateMemPoolAncestors from a set of parents, which are included.
Ancestors(p, parents) == Reach([t \in In(p) |-> p.entries[t].parents], parents)
PoolParents(p, t) == {o[1] : o \in Inputs(t)} \cap In(p)

\* addUnchecked: 'anc' are the pool's ancestors of t.
AddUnchecked(p, t, lp, coinbase, anc) ==
    LET fee == Fee[t] + DeltaOf(p, t)
        new == [fee |-> fee, parents |-> PoolParents(p, t), children |-> {},
                countA |-> 1 + Cardinality(anc), feesA |-> fee + Fees(p, anc),
                countD |-> 1, feesD |-> fee, lp |-> lp, coinbase |-> coinbase]
    IN  [p EXCEPT
           !.entries = [x \in In(p) \cup {t} |->
                           IF x = t THEN new
                           ELSE [p.entries[x] EXCEPT
                                   !.countD = @ + (IF x \in anc THEN 1 ELSE 0),
                                   !.feesD = @ + (IF x \in anc THEN fee ELSE 0),
                                   !.children = @ \cup (IF x \in new.parents THEN {t} ELSE {})]],
           !.next = [o \in Inputs(t) \ DOMAIN @ |-> t] @@ @,
           !.arrival = Append(@, t)]

\* RemoveStaged: the totals of the ancestors, and if asked of the descendants,
\* are taken back along the links, then the links are cut.
RemoveStaged(p, S, updateDescendants) ==
    LET Below(x) == IF updateDescendants
                    THEN {r \in S : x \in Descendants(p, {r})} ELSE {}
        Above(x) == {r \in S : x \in Ancestors(p, p.entries[r].parents)}
    IN  [p EXCEPT
           !.entries = [x \in In(p) \ S |->
                           [p.entries[x] EXCEPT
                              !.countA = @ - Cardinality(Below(x)),
                              !.feesA = @ - Fees(p, Below(x)),
                              !.countD = @ - Cardinality(Above(x)),
                              !.feesD = @ - Fees(p, Above(x)),
                              !.parents = @ \ {r \in S : x \in p.entries[r].children},
                              !.children = @ \ {r \in S : x \in p.entries[r].parents}]],
           !.next = [o \in DOMAIN @ \ UNION {Inputs(r) : r \in S} |-> @[o]],
           !.arrival = SelectSeq(@, LAMBDA x : x \notin S)]

\* removeRecursive: t and all that depends on it, or if t is not in the pool
\* what spends it there.
RemoveRecursive(p, t) ==
    LET spenders == {p.next[o] : o \in {<<t, n>> : n \in 1..Outs} \cap DOMAIN p.next}
    IN  RemoveStaged(p, Descendants(p, IF t \in In(p) THEN {t} ELSE spenders), FALSE)

ClearPrioritisation(p, t) == [p EXCEPT !.deltas = Restrict(@, DOMAIN @ \ {t})]

\* Mutant: a transaction that conflicts with a confirmed one stays.
RemoveConflictsNot(p, t) == p

\* removeConflicts
RemoveConflicts(p, t) ==
    LET Drop(q, o) == IF o \in DOMAIN q.next /\ q.next[o] # t
                        THEN ClearPrioritisation(RemoveRecursive(q, q.next[o]), q.next[o])
                        ELSE q
    IN  FoldLeft(Drop, p, Ins[t])

\* Mutant: the descendants that stay keep their totals.
RemoveForBlockAlone(p, b) ==
    LET Confirm(q, t) ==
            ClearPrioritisation(RemoveConflicts(
                IF t \in In(q) THEN RemoveStaged(q, {t}, FALSE) ELSE q, t), t)
    IN  [FoldLeft(Confirm, p, Txs[b]) EXCEPT !.bump = TRUE]

\* removeForBlock
RemoveForBlock(p, b) ==
    LET Confirm(q, t) ==
            ClearPrioritisation(RemoveConflicts(
                IF t \in In(q) THEN RemoveStaged(q, {t}, TRUE) ELSE q, t), t)
    IN  [FoldLeft(Confirm, p, Txs[b]) EXCEPT !.bump = TRUE]

-----------------------------------------------------------------------------
\* Expiry and eviction.

\* Expire: the k oldest entries, all if there are fewer, and what depends on them.
Expire(p, k) == RemoveStaged(p, Descendants(p, Range(SubSeq(p.arrival, 1, Min({k, Len(p.arrival)})))), FALSE)

\* CompareTxMemPoolEntryByDescendantScore: a is evicted before b.
DescendantScoreLess(p, a, b) ==
    LET Score(t) == LET e == p.entries[t]
                    IN  IF e.feesD > e.fee * e.countD THEN <<e.feesD, e.countD>> ELSE <<e.fee, 1>>
        Age(t) == CHOOSE i \in DOMAIN p.arrival : p.arrival[i] = t
        f1 == Score(a)[1] * Score(b)[2]
        f2 == Score(a)[2] * Score(b)[1]
    IN  f1 < f2 \/ (f1 = f2 /\ Age(a) > Age(b))

\* One round of TrimToSize, with trackPackageRemoved.
EvictWorst(p) ==
    LET worst == CHOOSE t \in In(p) : \A u \in In(p) \ {t} : DescendantScoreLess(p, t, u)
        removed == (p.entries[worst].feesD \div p.entries[worst].countD) + MinFee
        q == RemoveStaged(p, Descendants(p, {worst}), FALSE)
    IN  IF removed > p.rolling THEN [q EXCEPT !.rolling = removed, !.bump = FALSE] ELSE q

\* Mutant: old entries go, the size is not looked at.
LimitMempoolSizeExpireOnly(p, k) == Expire(p, k)

\* LimitMempoolSize
LimitMempoolSize(p, k) ==
    LET trim[n \in 0..Cardinality(Tx)] ==
            LET q == IF n = 0 THEN Expire(p, k) ELSE trim[n - 1]
            IN  IF Cardinality(In(q)) > PoolLimit THEN EvictWorst(q) ELSE q
    IN  trim[Cardinality(Tx)]

\* GetMinFee: the rolling fee decays with time, but only after a block.
Decayed(p) == IF p.bump THEN 0..p.rolling ELSE {p.rolling}
MinFeeOf(p, rolling) ==
    IF ~p.bump \/ p.rolling = 0 THEN p.rolling
    ELSE IF rolling < MinFee \div 2 THEN 0 ELSE Max({rolling, MinFee})

-----------------------------------------------------------------------------
\* Acceptance; c is the chain the coins are of, and h the height of the next
\* block by chainActive.
IsFinalTx(t, h) == LockTime[t] = 0 \/ LockTime[t] < h \/ t \in SequenceFinal

InputKnown(p, c, o) == o[1] \in In(p) \/ HaveCoins(c, o[1])

\* CalculateSequenceLocks: the last height at which t is locked.
LockedUntil(p, c, h, t) ==
    IF Relative[t] = -1 THEN -1
    ELSE Max({(IF o[1] \in In(p) THEN h ELSE HeightOf(c, o[1])) + Relative[t] - 1 : o \in Inputs(t)})

\* CheckSequenceLocks's lock points: the highest block with an input of t that
\* has a relative lock, the first one if there is none.
LockPoints(p, c, h, t) ==
    LET heights == IF Relative[t] = -1 THEN {}
                   ELSE {HeightOf(c, o[1]) : o \in {i \in Inputs(t) : i[1] \notin In(p)}}
    IN  [height |-> LockedUntil(p, c, h, t), block |-> c[Max({1} \cup heights)]]

\* Consensus::CheckTxInputs, on coinbases.
Mature(c, t) == \A o \in Inputs(t) :
                    o[1] \in Coinbase /\ o[1] \in Confirmed(c)
                        => Len(c) + 1 - HeightOf(c, o[1]) >= Maturity

SpendsCoinbase(t) == \E o \in Inputs(t) : o[1] \in Coinbase

\* Mutant: what depends on the conflicts does not count.
ReplacementPaysForConflicts(p, t, conflicts) ==
    /\ \A x \in conflicts : Fee[t] + DeltaOf(p, t) > p.entries[x].fee
    /\ MapThenSumSet(LAMBDA x : p.entries[x].countD, conflicts) <= MaxReplaced
    /\ \A o \in Inputs(t) : o[1] \in In(p) => \E x \in conflicts : o[1] \in {i[1] : i \in Inputs(x)}
    /\ Fee[t] + DeltaOf(p, t) - Fees(p, conflicts) >= MinFee

\* The rules for a replacement: a better rate than each conflict, not too many
\* conflicts and descendants (some may be counted twice), no new unconfirmed
\* input, and more fees than all that is replaced.
ReplacementPays(p, t, conflicts) ==
    /\ \A x \in conflicts : Fee[t] + DeltaOf(p, t) > p.entries[x].fee
    /\ MapThenSumSet(LAMBDA x : p.entries[x].countD, conflicts) <= MaxReplaced
    /\ \A o \in Inputs(t) : o[1] \in In(p) => \E x \in conflicts : o[1] \in {i[1] : i \in Inputs(x)}
    /\ Fee[t] + DeltaOf(p, t) - Fees(p, Descendants(p, conflicts)) >= MinFee

Conflicts(p, t) == {p.next[o] : o \in Inputs(t) \cap DOMAIN p.next}

\* What does not depend on the coins: no coinbase, final in the next block.
Loose(t, h) == t \notin Coinbase /\ IsFinalTx(t, h)

\* AcceptToMemoryPoolWorker's conditions, in its order.
Acceptable(p, c, h, t, minFee) ==
    LET anc == Ancestors(p, PoolParents(p, t))
        conflicts == Conflicts(p, t)
    IN  /\ Loose(t, h)
        /\ t \notin In(p)
        /\ conflicts \subseteq Replaceable
        /\ ~HaveCoins(c, t)
        /\ \A o \in Inputs(t) : InputKnown(p, c, o)
        /\ \A o \in Inputs(t) : o[1] \in In(p) \/ Unspent(c, o)
        /\ LockedUntil(p, c, h, t) < h
        /\ minFee = 0 \/ Fee[t] + DeltaOf(p, t) >= minFee
        /\ Cardinality(anc) + 1 <= AncestorLimit
        /\ \A a \in anc : p.entries[a].countD + 1 <= DescendantLimit
        /\ conflicts \cap anc = {}
        /\ conflicts # {} => ReplacementPays(p, t, conflicts)
        /\ Mature(c, t)

\* The pool after an acceptance, before it is limited.
Accepted(p, c, h, t) ==
    LET anc == Ancestors(p, PoolParents(p, t))
        q == RemoveStaged(p, Descendants(p, Conflicts(p, t)), FALSE)
    IN  AddUnchecked(q, t, LockPoints(p, c, h, t), SpendsCoinbase(t), anc)

AcceptToMemoryPool(t) ==
    /\ phase = "idle"
    /\ \E rolling \in Decayed(pool) :
          LET p == [pool EXCEPT !.rolling = IF rolling < MinFee \div 2 THEN 0 ELSE rolling]
          IN  /\ Acceptable(p, chain, Len(chain) + 1, t, MinFeeOf(pool, rolling))
              /\ \E k \in 0..Len(pool.arrival) :
                    pool' = LimitMempoolSize(Accepted(p, chain, Len(chain) + 1, t), k)
    /\ UNCHANGED <<chain, phase>>

\* The entry's own totals and its ancestors' are updated.
Prioritised(p, t, d) ==
    LET anc == Ancestors(p, p.entries[t].parents)
        q == [p EXCEPT !.deltas = (t :> DeltaOf(p, t) + d) @@ @]
    IN  IF t \notin In(p) THEN q
        ELSE [q EXCEPT !.entries = [x \in In(p) |->
                 CASE x = t -> [p.entries[x] EXCEPT !.fee = @ + d, !.feesA = @ + d, !.feesD = @ + d]
                   [] x \in anc -> [p.entries[x] EXCEPT !.feesD = @ + d]
                   [] OTHER -> p.entries[x]]]

\* PrioritiseTransaction, bounded.
PrioritiseTransaction(t, d) ==
    /\ phase = "idle"
    /\ t \notin DOMAIN pool.deltas /\ Cardinality(DOMAIN pool.deltas) < MaxDeltas
    /\ pool' = Prioritised(pool, t, d)
    /\ UNCHANGED <<chain, phase>>

-----------------------------------------------------------------------------
\* The chain moves. ActivateBestChainStep holds cs_main from the first
\* disconnection to the end of FinishStep.

\* removeForReorg: transactions that are not final any more, whose lock points
\* no longer hold, or that spend a coinbase that is immature or gone.
LockPointsFail(p, c, t) ==
    IF p.entries[t].lp.block \in Range(c) THEN p.entries[t].lp.height >= Len(c) + 1
    ELSE \/ \E o \in Inputs(t) : ~InputKnown(p, c, o)
         \/ LockedUntil(p, c, Len(c) + 1, t) >= Len(c) + 1

CoinbaseFails(p, c, t) ==
    /\ p.entries[t].coinbase
    /\ \E o \in Inputs(t) :
          /\ o[1] \notin In(p)
          /\ \/ ~HaveCoins(c, o[1])
             \/ o[1] \in Coinbase /\ Len(c) + 1 - HeightOf(c, o[1]) < Maturity

\* Mutant: only the locks are looked at again.
UnfitIgnoringCoinbase(p, c, t) == ~IsFinalTx(t, Len(c) + 1) \/ LockPointsFail(p, c, t)

Unfit(p, c, t) == ~IsFinalTx(t, Len(c) + 1) \/ LockPointsFail(p, c, t) \/ CoinbaseFails(p, c, t)

RemoveForReorg(p, c) ==
    LET unfit == {t \in In(p) : Unfit(p, c, t)}
        Relocked(t) == IF p.entries[t].lp.block \in Range(c) THEN p.entries[t]
                       ELSE [p.entries[t] EXCEPT !.lp = LockPoints(p, c, Len(c) + 1, t)]
        q == [p EXCEPT !.entries = [t \in In(p) |-> IF t \in unfit THEN p.entries[t] ELSE Relocked(t)]]
    IN  FoldSet(LAMBDA t, r : RemoveRecursive(r, t), q, unfit)

\* A block that extends c and whose transactions are valid there.
Connectable(c, b) ==
    LET h == Len(c) + 1
    IN  /\ Prev[b] = Last(c)
        /\ \A i \in DOMAIN Txs[b] :
              LET t == Txs[b][i]
                  before == {Txs[b][j] : j \in 1..(i - 1)}
              IN  /\ IsFinalTx(t, h)
                  /\ Mature(c, t)
                  /\ \A o \in Inputs(t) :
                        /\ Unspent(c, o) \/ o[1] \in before
                        /\ \A x \in before : o \notin Inputs(x)
                  /\ \A o \in Inputs(t) : Relative[t] # -1 =>
                        (IF o[1] \in before THEN h ELSE HeightOf(c, o[1])) + Relative[t] - 1 < h

\* ConnectTip
ConnectTip(b) ==
    /\ Connectable(chain, b)
    /\ chain' = Append(chain, b)
    /\ pool' = RemoveForBlock(pool, b)
    /\ phase' = IF phase = "idle" THEN "idle" ELSE "reconnecting"

\* DisconnectTip: each transaction of the block is offered to the pool, with
\* the coins of the shorter chain and the height of the longer one, without
\* limits, and removed again unless it is an accepted coinbase; since no
\* coinbase is accepted, UpdateTransactionsFromBlock is called with nothing.
DisconnectTip ==
    LET b == Last(chain)
        shorter == Front(chain)
        h == Len(chain) + 1
        Offer(p, t) ==
            LET minFee == MinFeeOf(p, p.rolling)
                q == IF Acceptable(p, shorter, h, t, minFee) THEN Accepted(p, shorter, h, t) ELSE p
            IN  RemoveRecursive(q, t)
    IN  /\ phase # "reconnecting"
        /\ Len(chain) > 1
        /\ chain' = shorter
        /\ pool' = FoldLeft(Offer, pool, Txs[b])
        /\ phase' = "disconnecting"

\* The end of ActivateBestChainStep.
FinishStep ==
    /\ phase # "idle"
    /\ \E k \in 0..Len(pool.arrival) : pool' = LimitMempoolSize(RemoveForReorg(pool, chain), k)
    /\ phase' = "idle"
    /\ UNCHANGED chain

\* The end of InvalidateBlock, which only disconnects.
FinishInvalidate ==
    /\ phase = "disconnecting"
    /\ \E k \in 0..Len(pool.arrival) : pool' = RemoveForReorg(LimitMempoolSize(pool, k), chain)
    /\ phase' = "idle"
    /\ UNCHANGED chain

-----------------------------------------------------------------------------
Init == chain = FirstChain /\ pool = EmptyPool /\ phase = "idle"

\* With "unspent", a block is disconnected only if the pool's spenders of its
\* transactions, coinbase apart, have a relative lock that depends on it.
MayDisconnect ==
    Reorg = "unspent" => \A t \in In(pool) :
        (\E o \in Inputs(t) : o[1] \in Range(Txs[Last(chain)]) \ Coinbase)
            => pool.entries[t].lp.block = Last(chain)

\* With "leaf", only a transaction nothing in the pool depends on is prioritised.
MayPrioritise(t) ==
    Prioritise = "leaf" /\ t \in In(pool) => pool.entries[t].children = {}

Next == \/ \E t \in Tx : AcceptToMemoryPool(t)
        \/ \E t \in Tx, d \in Delta : MayPrioritise(t) /\ PrioritiseTransaction(t, d)
        \/ \E b \in DOMAIN Prev : ConnectTip(b)
        \/ MayDisconnect /\ DisconnectTip
        \/ FinishStep
        \/ FinishInvalidate

Spec == Init /\ [][Next]_vars

-----------------------------------------------------------------------------
TrueParents(t) == {o[1] : o \in Inputs(t)} \cap In(pool)
TrueChildren(t) == {u \in In(pool) : t \in TrueParents(u)}
TrueAncestors(t) == Reach([x \in In(pool) |-> TrueParents(x)], {t})
TrueDescendants(t) == Reach([x \in In(pool) |-> TrueChildren(x)], {t})

\* CTxMemPool::check: every input refers to an available coin or an output of
\* another entry, no two entries spend the same one, and mapNextTx says so.
InputsAvailable ==
    phase = "idle" =>
        /\ \A t \in In(pool) : \A o \in Inputs(t) :
              /\ o[1] \in In(pool) \/ Unspent(chain, o)
              /\ o \in DOMAIN pool.next /\ pool.next[o] = t
        /\ \A o \in DOMAIN pool.next : pool.next[o] \in In(pool)

\* CTxMemPool::check: the links and the running totals of every entry agree
\* with what the inputs say, whatever was added, removed or confirmed in between.
TotalsRight ==
    phase = "idle" => \A t \in In(pool) :
        LET e == pool.entries[t]
        IN  /\ e.parents = TrueParents(t)
            /\ e.children = TrueChildren(t)
            /\ e.countA = Cardinality(TrueAncestors(t)) /\ e.feesA = Fees(pool, TrueAncestors(t))
            /\ e.countD = Cardinality(TrueDescendants(t)) /\ e.feesD = Fees(pool, TrueDescendants(t))

\* What removeForReorg and the checks at entry are for: every entry could be in
\* the next block, final, with mature coinbases and its relative locks met.
EntriesMinable ==
    phase = "idle" => \A t \in In(pool) :
        /\ IsFinalTx(t, Len(chain) + 1)
        /\ Mature(chain, t)
        /\ LockedUntil(pool, chain, Len(chain) + 1, t) < Len(chain) + 1

\* The limits of the pool and of chains of unconfirmed transactions hold, also
\* after reorganizations, which ignore them on the way.
LimitsHold ==
    phase = "idle" =>
        /\ Cardinality(In(pool)) <= PoolLimit
        /\ \A t \in In(pool) : /\ Cardinality(TrueAncestors(t)) <= AncestorLimit
                               /\ Cardinality(TrueDescendants(t)) <= DescendantLimit

\* Replacement pays: what enters the pool pays more than all it drives out, the
\* replaced transactions and everything that depends on them.
ReplacementsPay ==
    [][\A t \in In(pool)' \ In(pool) :
          LET out == UNION {TrueDescendants(x) : x \in {y \in In(pool) : Inputs(y) \cap Inputs(t) # {}}}
          IN  out # {} => pool'.entries[t].fee >= Fees(pool, out) + MinFee]_vars
=============================================================================
