------------------------------ MODULE StateView ------------------------------
(***************************************************************************)
(* The coins part of CStateViewCache (coins.cpp) in the stack the node     *)
(* uses: the chainstate database (CStateViewDB), the cache pcoinsTip over  *)
(* it, and the short-lived cache "view" that ConnectTip and DisconnectTip  *)
(* put over pcoinsTip for one block.                                       *)
(*                                                                         *)
(* A cache entry carries two flags. DIRTY: it may differ from the parent's *)
(* version. FRESH: the parent has no unspent version. The flags let a      *)
(* flush skip clean entries and forget entries that were created and       *)
(* spent above the parent; a wrong flag resurrects a spent coin or loses a *)
(* new one.                                                                *)
(*                                                                         *)
(* All of this runs under cs_main. A CCoinsModifier lives for one action:  *)
(* its constructor, the caller's edit and its destructor.                  *)
(***************************************************************************)
CONSTANTS Txid,     \* transaction ids
          Coins,    \* the possible contents of a CCoins
          Pruned,   \* the contents with no unspent output
          Block,    \* block hashes
          NullHash, \* the null uint256
          NoEntry   \* marks a txid that a cache has no entry for

Flag == {"DIRTY", "FRESH"}

\* CCoinsCacheEntry
Entry == [coins : Coins, flags : SUBSET Flag]

ASSUME PrunedAssumption == Pruned \in Coins
ASSUME NullHashAssumption == NullHash \notin Block
ASSUME NoEntryAssumption == NoEntry \notin Entry

VARIABLES db,        \* the database: txid -> coins (an erased key is Pruned)
          dbBest,    \* DB_BEST_BLOCK
          tip,       \* pcoinsTip's cacheCoins
          tipBest,   \* pcoinsTip's hashBlock, NullHash until first asked for
          view,      \* the child's cacheCoins
          viewBest,  \* the child's hashBlock
          open       \* is there a child view

vars == <<db, dbBest, tip, tipBest, view, viewBest, open>>

Cache == [Txid -> Entry \cup {NoEntry}]

EmptyCache == [t \in Txid |-> NoEntry]

TypeOK == /\ db \in [Txid -> Coins]
          /\ dbBest \in Block
          /\ tip \in Cache
          /\ tipBest \in Block \cup {NullHash}
          /\ view \in Cache
          /\ viewBest \in Block \cup {NullHash}
          /\ open \in BOOLEAN

IsPruned(c) == c = Pruned

-----------------------------------------------------------------------------
\* What a reader of a cache over a base sees.
Visible(cache, base) ==
    [t \in Txid |-> IF cache[t] = NoEntry THEN base[t] ELSE cache[t].coins]

TipCoins == Visible(tip, db)
ViewCoins == Visible(view, TipCoins)

\* GetBestBlock: a null hashBlock is looked up in the base.
BestOf(best, base) == IF best = NullHash THEN base ELSE best
TipBest == BestOf(tipBest, dbBest)
ViewBest == BestOf(viewBest, TipBest)

\* FetchCoins: a miss copies the base's version, if it has one, into the cache.
\* Whether the base has a pruned version or none makes a difference only to
\* whether an entry appears, so 'found' is the answer of base->GetCoins.
FetchCoins(cache, t, found, c) ==
    IF cache[t] # NoEntry \/ ~found
    THEN cache
    ELSE [cache EXCEPT ![t] =
             [coins |-> c, flags |-> IF IsPruned(c) THEN {"FRESH"} ELSE {}]]

\* GetCoins of the database finds exactly the unpruned coins; GetCoins of a
\* cache finds what FetchCoins leaves in it.
DbHas(t) == ~IsPruned(db[t])
TipFetched(t) == FetchCoins(tip, t, DbHas(t), db[t])
ViewFetched(t) == FetchCoins(view, t, TipFetched(t)[t] # NoEntry, TipCoins[t])

\* ModifyCoins: the entry the modifier gets to edit.
ModifiableEntry(t) ==
    IF view[t] # NoEntry
    THEN [coins |-> view[t].coins, flags |-> view[t].flags \cup {"DIRTY"}]
    ELSE [coins |-> TipCoins[t],
          flags |-> IF IsPruned(TipCoins[t]) THEN {"DIRTY", "FRESH"} ELSE {"DIRTY"}]

\* Mutant: a coinbase's new coins are taken for fresh too.
NewEntryAlwaysFresh(t, coinbase) ==
    [coins |-> Pruned, flags |-> {"DIRTY", "FRESH"}]

\* ModifyNewCoins: an empty entry, FRESH unless it is a coinbase's.
NewEntry(t, coinbase) ==
    [coins |-> Pruned,
     flags |-> IF ~coinbase THEN {"DIRTY", "FRESH"}
               ELSE (IF view[t] = NoEntry THEN {} ELSE view[t].flags) \cup {"DIRTY"}]

\* The caller sets the coins to c, then ~CCoinsModifier drops the entry if it
\* is FRESH and ended up pruned.
Edited(e, c) == IF "FRESH" \in e.flags /\ IsPruned(c)
                THEN NoEntry
                ELSE [coins |-> c, flags |-> e.flags]

\* Mutant: a pruned child entry is not created in the parent, FRESH or not.
BatchWriteEntryDropPruned(child, parent) ==
    IF child = NoEntry \/ "DIRTY" \notin child.flags THEN parent
    ELSE IF IsPruned(child.coins) THEN NoEntry
    ELSE IF parent = NoEntry THEN child
    ELSE [coins |-> child.coins, flags |-> parent.flags \cup {"DIRTY"}]

\* CStateViewCache::BatchWrite, for one key of the child.
BatchWriteEntry(child, parent) ==
    IF child = NoEntry \/ "DIRTY" \notin child.flags THEN parent
    ELSE IF parent = NoEntry
    THEN IF "FRESH" \in child.flags /\ IsPruned(child.coins) THEN NoEntry ELSE child
    ELSE IF "FRESH" \in parent.flags /\ IsPruned(child.coins)
    THEN NoEntry
    ELSE [coins |-> child.coins, flags |-> parent.flags \cup {"DIRTY"}]

\* CStateViewDB::BatchWrite, for one key: a dirty entry is written or erased.
DbWriteEntry(e, old) == IF e # NoEntry /\ "DIRTY" \in e.flags THEN e.coins ELSE old

-----------------------------------------------------------------------------
Init == /\ db = [t \in Txid |-> Pruned]
        /\ dbBest \in Block
        /\ tip = EmptyCache
        /\ tipBest = NullHash
        /\ view = EmptyCache
        /\ viewBest = NullHash
        /\ open = FALSE

\* ConnectTip and DisconnectTip create a view over pcoinsTip; ConnectBlock and
\* DisconnectBlock first compare GetBestBlock() with the block they expect,
\* which fills in hashBlock at both levels.
OpenView == /\ ~open
            /\ open' = TRUE
            /\ tipBest' = TipBest
            /\ viewBest' = TipBest
            /\ UNCHANGED <<db, dbBest, tip, view>>

\* AccessCoins, HaveCoins, HaveInputs on the view: misses fill both caches.
ReadView(t) == /\ open
               /\ view' = ViewFetched(t)
               /\ tip' = IF view[t] = NoEntry THEN TipFetched(t) ELSE tip
               /\ UNCHANGED <<db, dbBest, tipBest, viewBest, open>>

\* Readers of pcoinsTip itself: the mempool's acceptance checks, RPC.
ReadTip(t) == /\ ~open
              /\ tip' = TipFetched(t)
              /\ UNCHANGED <<db, dbBest, tipBest, view, viewBest, open>>

\* UpdateCoins spends, ApplyTxInUndo restores, DisconnectBlock clears: each
\* gets the coins through ModifyCoins and leaves them at some c.
ModifyCoins(t, c) ==
    /\ open
    /\ view' = [view EXCEPT ![t] = Edited(ModifiableEntry(t), c)]
    /\ tip' = IF view[t] = NoEntry THEN TipFetched(t) ELSE tip
    /\ UNCHANGED <<db, dbBest, tipBest, viewBest, open>>

\* UpdateCoins adds a transaction's outputs. The contract stated at the
\* declaration of ModifyNewCoins: but for a coinbase there is no earlier
\* version of these coins to overwrite.
ModifyNewCoins(t, coinbase, c) ==
    /\ open
    /\ coinbase \/ IsPruned(TipCoins[t])
    /\ view' = [view EXCEPT ![t] = Edited(NewEntry(t, coinbase), c)]
    /\ UNCHANGED <<db, dbBest, tip, tipBest, viewBest, open>>

SetBestBlock(b) == /\ open
                   /\ viewBest' = b
                   /\ UNCHANGED <<db, dbBest, tip, tipBest, view, open>>

\* view.Flush()
FlushView == /\ open
             /\ tip' = [t \in Txid |-> BatchWriteEntry(view[t], tip[t])]
             /\ tipBest' = viewBest
             /\ view' = EmptyCache
             /\ UNCHANGED <<db, dbBest, viewBest, open>>

\* The view goes out of scope; what it still holds is forgotten.
CloseView == /\ open
             /\ open' = FALSE
             /\ view' = EmptyCache
             /\ viewBest' = NullHash
             /\ UNCHANGED <<db, dbBest, tip, tipBest>>

\* pcoinsTip->Flush() in FlushStateToDisk: one atomic database batch.
FlushTip == /\ ~open
            /\ db' = [t \in Txid |-> DbWriteEntry(tip[t], db[t])]
            /\ dbBest' = BestOf(tipBest, dbBest)
            /\ tip' = EmptyCache
            /\ UNCHANGED <<tipBest, view, viewBest, open>>

\* AcceptToMemoryPool gives back the entries a rejected transaction pulled in.
Uncache(t) == /\ ~open
              /\ tip[t] # NoEntry
              /\ tip[t].flags = {}
              /\ tip' = [tip EXCEPT ![t] = NoEntry]
              /\ UNCHANGED <<db, dbBest, tipBest, view, viewBest, open>>

\* The process dies, or AbortNode after a failed write, and is restarted.
Crash == /\ tip' = EmptyCache
         /\ tipBest' = NullHash
         /\ view' = EmptyCache
         /\ viewBest' = NullHash
         /\ open' = FALSE
         /\ UNCHANGED <<db, dbBest>>

Next == \/ OpenView \/ FlushView \/ CloseView \/ FlushTip \/ Crash
        \/ \E t \in Txid : ReadView(t) \/ ReadTip(t) \/ Uncache(t)
        \/ \E t \in Txid, c \in Coins : ModifyCoins(t, c)
        \/ \E t \in Txid, c \in Coins, coinbase \in BOOLEAN :
               ModifyNewCoins(t, coinbase, c)
        \/ \E b \in Block : SetBestBlock(b)

Spec == Init /\ [][Next]_vars

-----------------------------------------------------------------------------
\* An entry that is not DIRTY shows the parent's version, and a FRESH entry
\* has no unspent version below it: what a flush relies on when it skips the
\* one and drops the other (CCoinsCacheEntry in coins.h).
Coherent(cache, base) ==
    \A t \in Txid : cache[t] # NoEntry =>
        /\ "DIRTY" \notin cache[t].flags => cache[t].coins = base[t]
        /\ "FRESH" \in cache[t].flags => IsPruned(base[t])

FlagsCoherent == /\ Coherent(tip, db)
                 /\ Coherent(view, TipCoins)

\* The caches never show: with the contents each level shows taken for the
\* maps of CoinStore, every behaviour of the caches is one of CoinStore. In
\* particular reads, Uncache and the way entries move change no contents, a
\* flush publishes exactly what the view showed, and a crash loses exactly
\* what was not flushed.
Store == INSTANCE CoinStore WITH disk <- db, diskBest <- dbBest,
                                 main <- TipCoins, mainBest <- TipBest,
                                 work <- ViewCoins, workBest <- ViewBest

StoreSpec == Store!Spec
=============================================================================
