--------------------------- MODULE StateViewProofs ---------------------------
(***************************************************************************)
(* Proofs about StateView for any number of transactions, coins and        *)
(* blocks: the inductive invariant, and that the caches implement          *)
(* CoinStore.                                                              *)
(***************************************************************************)
EXTENDS StateView, TLAPS

\* A closed view is empty, and an open one knows its block, as does the tip
\* below it: without this a flush would replace the tip's hashBlock by a null
\* one and the tip would answer with the database's older block.
ViewDiscipline == /\ ~open => view = EmptyCache /\ viewBest = NullHash
                  /\ open => viewBest # NullHash /\ tipBest # NullHash

\* The inductive invariant: types, flags and the discipline of the views.
IInv == TypeOK /\ FlagsCoherent /\ ViewDiscipline

-----------------------------------------------------------------------------
\* What a reader sees is a coins for every txid.
LEMMA VisibleType ==
    ASSUME NEW cache \in Cache, NEW base \in [Txid -> Coins]
    PROVE  Visible(cache, base) \in [Txid -> Coins]
BY DEF Visible, Cache, Entry

\* A fetch changes neither what the cache shows nor its coherence.
LEMMA FetchShowsTheSame ==
    ASSUME NEW cache \in Cache, NEW base \in [Txid -> Coins], NEW t \in Txid,
           NEW found \in BOOLEAN, Coherent(cache, base)
    PROVE  LET fetched == FetchCoins(cache, t, found, base[t])
           IN  /\ fetched \in Cache
               /\ Coherent(fetched, base)
               /\ Visible(fetched, base) = Visible(cache, base)
<1> DEFINE fetched == FetchCoins(cache, t, found, base[t])
<1> USE NoEntryAssumption
<1>1. CASE cache[t] # NoEntry \/ ~found
  BY <1>1 DEF FetchCoins
<1>2. CASE cache[t] = NoEntry /\ found
  <2> DEFINE e == [coins |-> base[t], flags |-> IF IsPruned(base[t]) THEN {"FRESH"} ELSE {}]
  <2>1. e \in Entry /\ e # NoEntry /\ e.coins = base[t]
    BY DEF Entry, Flag
  <2>2. fetched = [cache EXCEPT ![t] = e]
    BY <1>2 DEF FetchCoins
  <2>3. fetched \in Cache
    BY <2>1, <2>2 DEF Cache
  <2>4. Coherent(fetched, base)
    BY <2>1, <2>2 DEF Coherent, Cache
  <2>5. Visible(fetched, base) = Visible(cache, base)
    <3> HIDE DEF e
    <3> QED BY <1>2, <2>1, <2>2 DEF Visible, Cache
  <2> QED BY <2>3, <2>4, <2>5
<1> QED BY <1>1, <1>2

\* Editing an entry of a coherent cache keeps it coherent and shows exactly
\* the edit, provided the entry edited is DIRTY and FRESH only where the base
\* has nothing unspent.
LEMMA EditShowsTheEdit ==
    ASSUME NEW cache \in Cache, NEW base \in [Txid -> Coins], NEW t \in Txid,
           NEW c \in Coins, NEW e \in Entry, Coherent(cache, base),
           "DIRTY" \in e.flags, "FRESH" \in e.flags => IsPruned(base[t])
    PROVE  /\ [cache EXCEPT ![t] = Edited(e, c)] \in Cache
           /\ Coherent([cache EXCEPT ![t] = Edited(e, c)], base)
           /\ Visible([cache EXCEPT ![t] = Edited(e, c)], base)
                = [Visible(cache, base) EXCEPT ![t] = c]
<1> DEFINE edited == [cache EXCEPT ![t] = Edited(e, c)]
<1> USE NoEntryAssumption
<1>1. CASE "FRESH" \in e.flags /\ IsPruned(c)
  <2>1. edited = [cache EXCEPT ![t] = NoEntry]
    BY <1>1 DEF Edited
  <2>2. base[t] = c
    BY <1>1 DEF IsPruned
  <2> QED BY <2>1, <2>2 DEF Coherent, Visible, Cache
<1>2. CASE ~("FRESH" \in e.flags /\ IsPruned(c))
  <2> DEFINE f == [coins |-> c, flags |-> e.flags]
  <2>1. /\ f \in Entry
        /\ f # NoEntry
        /\ f.coins = c
        /\ f.flags = e.flags
    BY DEF Entry
  <2>2. edited = [cache EXCEPT ![t] = f]
    BY <1>2 DEF Edited
  <2>3. edited \in Cache
    BY <2>1, <2>2 DEF Cache
  <2>4. Coherent(edited, base)
    BY <2>1, <2>2 DEF Coherent, Cache
  <2>5. Visible(edited, base) = [Visible(cache, base) EXCEPT ![t] = c]
    BY <2>1, <2>2 DEF Visible, Cache
  <2> QED BY <2>3, <2>4, <2>5
<1> QED BY <1>1, <1>2

\* Writing a child cache into its parent leaves the parent coherent and makes
\* it show what the child showed.
LEMMA BatchWriteShowsTheChild ==
    ASSUME NEW child \in Cache, NEW parent \in Cache, NEW base \in [Txid -> Coins],
           Coherent(parent, base), Coherent(child, Visible(parent, base))
    PROVE  LET merged == [t \in Txid |-> BatchWriteEntry(child[t], parent[t])]
           IN  /\ merged \in Cache
               /\ Coherent(merged, base)
               /\ Visible(merged, base) = Visible(child, Visible(parent, base))
<1> DEFINE merged == [t \in Txid |-> BatchWriteEntry(child[t], parent[t])]
           below == Visible(parent, base)
<1>1. SUFFICES ASSUME NEW t \in Txid
               PROVE  /\ merged[t] \in Entry \cup {NoEntry}
                      /\ merged[t] # NoEntry =>
                           /\ "DIRTY" \notin merged[t].flags => merged[t].coins = base[t]
                           /\ "FRESH" \in merged[t].flags => IsPruned(base[t])
                      /\ Visible(merged, base)[t] = Visible(child, below)[t]
  <2>1. merged \in Cache
    BY <1>1 DEF Cache
  <2>2. Coherent(merged, base)
    BY <1>1 DEF Coherent
  <2>3. Visible(merged, base) = Visible(child, below)
    BY <1>1 DEF Visible
  <2> QED BY <2>1, <2>2, <2>3
<1> DEFINE p == parent[t]
           k == child[t]
           m == BatchWriteEntry(k, p)
<1>2. /\ p \in Entry \cup {NoEntry}
      /\ k \in Entry \cup {NoEntry}
  BY DEF Cache
<1>3. below[t] = IF p = NoEntry THEN base[t] ELSE p.coins
  BY DEF Visible
<1>4. p # NoEntry => /\ "DIRTY" \notin p.flags => p.coins = base[t]
                     /\ "FRESH" \in p.flags => IsPruned(base[t])
  BY DEF Coherent
<1>5. k # NoEntry => /\ "DIRTY" \notin k.flags => k.coins = below[t]
                     /\ "FRESH" \in k.flags => IsPruned(below[t])
  BY DEF Coherent
<1>6. /\ merged[t] = m
      /\ Visible(merged, base)[t] = IF m = NoEntry THEN base[t] ELSE m.coins
      /\ Visible(child, below)[t] = IF k = NoEntry THEN below[t] ELSE k.coins
  BY DEF Visible
<1>7. SUFFICES /\ m \in Entry \cup {NoEntry}
               /\ m # NoEntry => /\ "DIRTY" \notin m.flags => m.coins = base[t]
                                 /\ "FRESH" \in m.flags => IsPruned(base[t])
               /\ (IF m = NoEntry THEN base[t] ELSE m.coins)
                    = (IF k = NoEntry THEN below[t] ELSE k.coins)
  BY <1>6
<1> HIDE DEF p, k, below, merged
<1>8. CASE k = NoEntry \/ "DIRTY" \notin k.flags
  <2>1. m = p
    BY <1>8 DEF BatchWriteEntry
  <2> HIDE DEF m
  <2> QED BY <1>2, <1>3, <1>4, <1>5, <1>8, <2>1
<1>9. CASE k # NoEntry /\ "DIRTY" \in k.flags /\ p = NoEntry
  <2>1. m = IF "FRESH" \in k.flags /\ IsPruned(k.coins) THEN NoEntry ELSE k
    BY <1>9 DEF BatchWriteEntry
  <2> HIDE DEF m
  <2> QED BY <1>2, <1>3, <1>5, <1>9, <2>1 DEF IsPruned
<1>10. CASE k # NoEntry /\ "DIRTY" \in k.flags /\ p # NoEntry
  <2> DEFINE e == [coins |-> k.coins, flags |-> p.flags \cup {"DIRTY"}]
  <2>1. m = IF "FRESH" \in p.flags /\ IsPruned(k.coins) THEN NoEntry ELSE e
    BY <1>10 DEF BatchWriteEntry
  <2>2. /\ e \in Entry
        /\ e # NoEntry
        /\ e.coins = k.coins
        /\ "DIRTY" \in e.flags
        /\ "FRESH" \in e.flags => "FRESH" \in p.flags
    BY <1>2, <1>10, NoEntryAssumption DEF Entry, Flag
  <2> HIDE DEF m, e
  <2> QED BY <1>2, <1>3, <1>4, <1>10, <2>1, <2>2 DEF IsPruned
<1> QED BY <1>8, <1>9, <1>10

\* Writing the tip into the database makes the database hold what the tip
\* showed: the entries that are not written are the ones that agree with it.
LEMMA DbWriteShowsTheTip ==
    ASSUME NEW cache \in Cache, NEW base \in [Txid -> Coins], Coherent(cache, base)
    PROVE  [t \in Txid |-> DbWriteEntry(cache[t], base[t])] = Visible(cache, base)
BY DEF DbWriteEntry, Visible, Coherent

\* An empty cache is transparent.
LEMMA EmptyShowsTheBase ==
    ASSUME NEW base \in [Txid -> Coins]
    PROVE  /\ EmptyCache \in Cache
           /\ Coherent(EmptyCache, base)
           /\ Visible(EmptyCache, base) = base
BY DEF EmptyCache, Cache, Coherent, Visible

-----------------------------------------------------------------------------
\* The flags of the entry that ModifyCoins hands out.
LEMMA ModifiableEntryIsSound ==
    ASSUME NEW t \in Txid, IInv
    PROVE  /\ ModifiableEntry(t) \in Entry
           /\ "DIRTY" \in ModifiableEntry(t).flags
           /\ "FRESH" \in ModifiableEntry(t).flags => IsPruned(TipCoins[t])
<1>1. TipCoins \in [Txid -> Coins]
  BY VisibleType DEF IInv, TypeOK, TipCoins
<1>2. CASE view[t] = NoEntry
  BY <1>1, <1>2 DEF ModifiableEntry, Entry, Flag
<1>3. CASE view[t] # NoEntry
  <2>1. view[t] \in Entry /\ ("FRESH" \in view[t].flags => IsPruned(TipCoins[t]))
    BY <1>3 DEF IInv, TypeOK, Cache, FlagsCoherent, Coherent
  <2> QED BY <1>3, <2>1 DEF ModifiableEntry, Entry, Flag
<1> QED BY <1>2, <1>3

\* The flags of the entry that ModifyNewCoins hands out, under its contract.
LEMMA NewEntryIsSound ==
    ASSUME NEW t \in Txid, NEW coinbase \in BOOLEAN, IInv,
           coinbase \/ IsPruned(TipCoins[t])
    PROVE  /\ NewEntry(t, coinbase) \in Entry
           /\ "DIRTY" \in NewEntry(t, coinbase).flags
           /\ "FRESH" \in NewEntry(t, coinbase).flags => IsPruned(TipCoins[t])
<1>1. view[t] # NoEntry =>
         view[t] \in Entry /\ ("FRESH" \in view[t].flags => IsPruned(TipCoins[t]))
  BY DEF IInv, TypeOK, Cache, FlagsCoherent, Coherent
<1>2. CASE ~coinbase
  BY <1>2, PrunedAssumption DEF NewEntry, Entry, Flag
<1>3. CASE coinbase
  BY <1>1, <1>3, PrunedAssumption DEF NewEntry, Entry, Flag
<1> QED BY <1>2, <1>3

\* The tip after the fetch that a miss in the view causes.
LEMMA TipFetchIsSilent ==
    ASSUME NEW t \in Txid, IInv
    PROVE  /\ TipFetched(t) \in Cache
           /\ Coherent(TipFetched(t), db)
           /\ Visible(TipFetched(t), db) = TipCoins
BY FetchShowsTheSame DEF IInv, TypeOK, FlagsCoherent, TipFetched, TipCoins, DbHas

\* The invariant holds at the start.
LEMMA InitIInv == Init => IInv
<1> SUFFICES ASSUME Init PROVE IInv
  OBVIOUS
<1>1. db \in [Txid -> Coins]
  BY PrunedAssumption DEF Init
<1>2. TipCoins = db
  BY <1>1, EmptyShowsTheBase DEF Init, TipCoins
<1> QED BY <1>1, <1>2, EmptyShowsTheBase DEF Init, IInv, TypeOK, FlagsCoherent, ViewDiscipline

\* Every step preserves the invariant and is a step of CoinStore or shows
\* nothing: the heart of both theorems below.
LEMMA StepIsSound ==
    ASSUME IInv, [Next]_vars
    PROVE  IInv' /\ [Store!Next]_(Store!vars)
<1> USE DEF IInv
<1>1. TypeOK /\ FlagsCoherent /\ ViewDiscipline
  OBVIOUS
<1>2. /\ TipCoins \in [Txid -> Coins]
      /\ ViewCoins \in [Txid -> Coins]
  BY VisibleType DEF TypeOK, TipCoins, ViewCoins
<1>3. ~open => ViewCoins = TipCoins
  BY <1>2, EmptyShowsTheBase DEF ViewDiscipline, ViewCoins
<1>4. CASE OpenView
  <2>1. TipCoins' = TipCoins /\ ViewCoins' = ViewCoins
    BY <1>4 DEF OpenView, TipCoins, ViewCoins, Visible
  <2>2. TipBest' = TipBest /\ ViewBest' = ViewBest
    BY <1>4, NullHashAssumption DEF OpenView, TipBest, ViewBest, BestOf, ViewDiscipline, TypeOK
  <2>3. IInv'
    BY <1>4, <2>1, NullHashAssumption
       DEF OpenView, TypeOK, FlagsCoherent, ViewDiscipline, Coherent, TipBest, BestOf
  <2>4. Store!Begin
    BY <1>4, <2>1, <2>2 DEF OpenView, Store!Begin
  <2> QED BY <2>3, <2>4 DEF Store!Next
<1>5. ASSUME NEW t \in Txid, ReadView(t)
      PROVE  IInv' /\ UNCHANGED Store!vars
  <2>1. tip' \in Cache /\ Coherent(tip', db) /\ Visible(tip', db) = TipCoins
    BY <1>5, TipFetchIsSilent DEF ReadView, TypeOK, FlagsCoherent, TipCoins
  <2>2. view' \in Cache /\ Coherent(view', TipCoins) /\ Visible(view', TipCoins) = ViewCoins
    BY <1>2, <1>5, FetchShowsTheSame DEF ReadView, ViewFetched, TypeOK, FlagsCoherent, ViewCoins
  <2>3. TipCoins' = TipCoins /\ ViewCoins' = ViewCoins
    BY <1>5, <2>1, <2>2 DEF ReadView, TipCoins, ViewCoins, Visible
  <2>4. IInv'
    <3>1. TypeOK'
      BY <1>5, <2>1, <2>2 DEF ReadView, TypeOK
    <3>2. FlagsCoherent'
      BY <1>5, <2>1, <2>2, <2>3 DEF ReadView, FlagsCoherent, Coherent
    <3>3. ViewDiscipline'
      BY <1>5 DEF ReadView, ViewDiscipline
    <3> QED BY <3>1, <3>2, <3>3
  <2>5. UNCHANGED <<TipBest, ViewBest, db, dbBest, open>>
    BY <1>5 DEF ReadView, TipBest, ViewBest, BestOf
  <2> QED BY <2>3, <2>4, <2>5 DEF Store!vars
<1>6. ASSUME NEW t \in Txid, ReadTip(t)
      PROVE  IInv' /\ UNCHANGED Store!vars
  <2>1. tip' \in Cache /\ Coherent(tip', db) /\ Visible(tip', db) = TipCoins
    BY <1>6, TipFetchIsSilent DEF ReadTip
  <2>2. TipCoins' = TipCoins /\ ViewCoins' = ViewCoins
    BY <1>6, <2>1 DEF ReadTip, TipCoins, ViewCoins, Visible
  <2>3. IInv'
    <3>1. TypeOK' /\ ViewDiscipline'
      BY <1>6, <2>1 DEF ReadTip, TypeOK, ViewDiscipline
    <3>2. FlagsCoherent'
      BY <1>6, <2>1, <2>2 DEF ReadTip, FlagsCoherent, Coherent
    <3> QED BY <3>1, <3>2
  <2>4. UNCHANGED <<TipBest, ViewBest, db, dbBest, open>>
    BY <1>6 DEF ReadTip, TipBest, ViewBest, BestOf
  <2> QED BY <2>2, <2>3, <2>4 DEF Store!vars
<1>7. ASSUME NEW t \in Txid, NEW c \in Coins, ModifyCoins(t, c)
      PROVE  IInv' /\ Store!Put(t, c)
  <2>1. tip' \in Cache /\ Coherent(tip', db) /\ Visible(tip', db) = TipCoins
    BY <1>7, TipFetchIsSilent DEF ModifyCoins, TypeOK, FlagsCoherent, TipCoins
  <2>2. /\ view' \in Cache
        /\ Coherent(view', TipCoins)
        /\ Visible(view', TipCoins) = [ViewCoins EXCEPT ![t] = c]
    <3> DEFINE e == ModifiableEntry(t)
    <3>1. /\ e \in Entry
          /\ "DIRTY" \in e.flags
          /\ "FRESH" \in e.flags => IsPruned(TipCoins[t])
      BY ModifiableEntryIsSound
    <3>2. view' = [view EXCEPT ![t] = Edited(e, c)]
      BY <1>7 DEF ModifyCoins
    <3>3. view \in Cache /\ Coherent(view, TipCoins)
      BY DEF TypeOK, FlagsCoherent
    <3> HIDE DEF e
    <3>4. /\ [view EXCEPT ![t] = Edited(e, c)] \in Cache
          /\ Coherent([view EXCEPT ![t] = Edited(e, c)], TipCoins)
          /\ Visible([view EXCEPT ![t] = Edited(e, c)], TipCoins)
               = [Visible(view, TipCoins) EXCEPT ![t] = c]
      BY <1>2, <3>1, <3>3, EditShowsTheEdit
    <3> QED BY <3>2, <3>4 DEF ViewCoins
  <2>3. TipCoins' = TipCoins /\ ViewCoins' = [ViewCoins EXCEPT ![t] = c]
    BY <1>7, <2>1, <2>2 DEF ModifyCoins, TipCoins, ViewCoins, Visible
  <2>4. IInv'
    <3>1. TypeOK' /\ ViewDiscipline'
      BY <1>7, <2>1, <2>2 DEF ModifyCoins, TypeOK, ViewDiscipline
    <3>2. FlagsCoherent'
      BY <1>7, <2>1, <2>2, <2>3 DEF ModifyCoins, FlagsCoherent, Coherent
    <3> QED BY <3>1, <3>2
  <2>5. UNCHANGED <<TipBest, ViewBest, db, dbBest, open>>
    BY <1>7 DEF ModifyCoins, TipBest, ViewBest, BestOf
  <2> QED BY <1>7, <2>3, <2>4, <2>5 DEF Store!Put, ModifyCoins
<1>8. ASSUME NEW t \in Txid, NEW c \in Coins, NEW coinbase \in BOOLEAN,
             ModifyNewCoins(t, coinbase, c)
      PROVE  IInv' /\ Store!Put(t, c)
  <2>1. /\ view' \in Cache
        /\ Coherent(view', TipCoins)
        /\ Visible(view', TipCoins) = [ViewCoins EXCEPT ![t] = c]
    <3> DEFINE e == NewEntry(t, coinbase)
    <3>1. /\ e \in Entry
          /\ "DIRTY" \in e.flags
          /\ "FRESH" \in e.flags => IsPruned(TipCoins[t])
      BY <1>8, NewEntryIsSound DEF ModifyNewCoins
    <3>2. view' = [view EXCEPT ![t] = Edited(e, c)]
      BY <1>8 DEF ModifyNewCoins
    <3>3. view \in Cache /\ Coherent(view, TipCoins)
      BY DEF TypeOK, FlagsCoherent
    <3> HIDE DEF e
    <3>4. /\ [view EXCEPT ![t] = Edited(e, c)] \in Cache
          /\ Coherent([view EXCEPT ![t] = Edited(e, c)], TipCoins)
          /\ Visible([view EXCEPT ![t] = Edited(e, c)], TipCoins)
               = [Visible(view, TipCoins) EXCEPT ![t] = c]
      BY <1>2, <3>1, <3>3, EditShowsTheEdit
    <3> QED BY <3>2, <3>4 DEF ViewCoins
  <2>2. TipCoins' = TipCoins /\ ViewCoins' = [ViewCoins EXCEPT ![t] = c]
    BY <1>8, <2>1 DEF ModifyNewCoins, TipCoins, ViewCoins, Visible
  <2>3. IInv'
    <3>1. TypeOK' /\ ViewDiscipline'
      BY <1>8, <2>1 DEF ModifyNewCoins, TypeOK, ViewDiscipline
    <3>2. FlagsCoherent'
      BY <1>8, <2>1, <2>2 DEF ModifyNewCoins, FlagsCoherent, Coherent
    <3> QED BY <3>1, <3>2
  <2>4. UNCHANGED <<TipBest, ViewBest, db, dbBest, open>>
    BY <1>8 DEF ModifyNewCoins, TipBest, ViewBest, BestOf
  <2> QED BY <1>8, <2>2, <2>3, <2>4 DEF Store!Put, ModifyNewCoins
<1>9. ASSUME NEW b \in Block, SetBestBlock(b)
      PROVE  IInv' /\ Store!SetBest(b)
  <2>1. TipCoins' = TipCoins /\ ViewCoins' = ViewCoins
    BY <1>9 DEF SetBestBlock, TipCoins, ViewCoins, Visible
  <2>2. TipBest' = TipBest /\ ViewBest' = b
    BY <1>9, NullHashAssumption DEF SetBestBlock, TipBest, ViewBest, BestOf
  <2>3. IInv'
    BY <1>9, <2>1, NullHashAssumption
       DEF SetBestBlock, TypeOK, FlagsCoherent, ViewDiscipline, Coherent
  <2> QED BY <1>9, <2>1, <2>2, <2>3 DEF Store!SetBest, SetBestBlock
<1>10. CASE FlushView
  <2>1. /\ tip' \in Cache
        /\ Coherent(tip', db)
        /\ Visible(tip', db) = ViewCoins
    BY <1>10, BatchWriteShowsTheChild
       DEF FlushView, TypeOK, FlagsCoherent, TipCoins, ViewCoins
  <2>2. TipCoins' = ViewCoins
    BY <1>10, <2>1 DEF FlushView, TipCoins, Visible
  <2>3. view' \in Cache /\ Coherent(view', ViewCoins) /\ Visible(view', ViewCoins) = ViewCoins
    BY <1>2, <1>10, EmptyShowsTheBase DEF FlushView
  <2>4. ViewCoins' = ViewCoins
    BY <2>2, <2>3 DEF ViewCoins, Visible
  <2>5. TipBest' = ViewBest /\ ViewBest' = ViewBest
    BY <1>10 DEF FlushView, TipBest, ViewBest, BestOf, ViewDiscipline
  <2>6. IInv'
    <3>1. TypeOK' /\ ViewDiscipline'
      BY <1>10, <2>1, <2>3 DEF FlushView, TypeOK, ViewDiscipline
    <3>2. FlagsCoherent'
      BY <1>10, <2>1, <2>2, <2>3 DEF FlushView, FlagsCoherent, Coherent
    <3> QED BY <3>1, <3>2
  <2>7. Store!Commit
    BY <1>10, <2>2, <2>4, <2>5 DEF FlushView, Store!Commit
  <2> QED BY <2>6, <2>7 DEF Store!Next
<1>11. CASE CloseView
  <2>1. TipCoins' = TipCoins
    BY <1>11 DEF CloseView, TipCoins, Visible
  <2>2. view' \in Cache /\ Coherent(view', TipCoins) /\ Visible(view', TipCoins) = TipCoins
    BY <1>2, <1>11, EmptyShowsTheBase DEF CloseView
  <2>3. ViewCoins' = TipCoins
    BY <2>1, <2>2 DEF ViewCoins, Visible
  <2>4. TipBest' = TipBest /\ ViewBest' = TipBest
    BY <1>11 DEF CloseView, TipBest, ViewBest, BestOf
  <2>5. IInv'
    <3>1. TypeOK' /\ ViewDiscipline'
      BY <1>11, <2>2 DEF CloseView, TypeOK, ViewDiscipline
    <3>2. FlagsCoherent'
      BY <1>11, <2>1, <2>2 DEF CloseView, FlagsCoherent, Coherent
    <3> QED BY <3>1, <3>2
  <2>6. Store!Close
    BY <1>11, <2>1, <2>3, <2>4 DEF CloseView, Store!Close
  <2> QED BY <2>5, <2>6 DEF Store!Next
<1>12. CASE FlushTip
  <2>1. db' = TipCoins
    BY <1>12, DbWriteShowsTheTip DEF FlushTip, TypeOK, FlagsCoherent, TipCoins
  <2>2. tip' \in Cache /\ Coherent(tip', TipCoins) /\ Visible(tip', TipCoins) = TipCoins
    BY <1>2, <1>12, EmptyShowsTheBase DEF FlushTip
  <2>3. TipCoins' = TipCoins
    BY <2>1, <2>2 DEF TipCoins, Visible
  <2>4. ViewCoins' = ViewCoins
    BY <1>12, <2>3 DEF FlushTip, ViewCoins, Visible
  <2>5. dbBest' = TipBest /\ TipBest' = TipBest /\ ViewBest' = ViewBest
    BY <1>12 DEF FlushTip, TipBest, ViewBest, BestOf
  <2>6. IInv'
    <3>1. TypeOK' /\ ViewDiscipline'
      BY <1>2, <1>12, <2>1, <2>2 DEF FlushTip, TypeOK, ViewDiscipline, BestOf
    <3>2. FlagsCoherent'
      BY <1>12, <2>1, <2>2, <2>3 DEF FlushTip, FlagsCoherent, Coherent
    <3> QED BY <3>1, <3>2
  <2>7. Store!Sync
    BY <1>12, <2>1, <2>3, <2>4, <2>5 DEF FlushTip, Store!Sync
  <2> QED BY <2>6, <2>7 DEF Store!Next
<1>13. ASSUME NEW t \in Txid, Uncache(t)
       PROVE  IInv' /\ UNCHANGED Store!vars
  <2>1. tip[t].coins = db[t]
    BY <1>13 DEF Uncache, FlagsCoherent, Coherent
  <2>2. tip' \in Cache /\ Coherent(tip', db) /\ Visible(tip', db) = TipCoins
    BY <1>13, <2>1 DEF Uncache, TypeOK, FlagsCoherent, Coherent, Cache, Visible, TipCoins
  <2>3. TipCoins' = TipCoins /\ ViewCoins' = ViewCoins
    BY <1>13, <2>2 DEF Uncache, TipCoins, ViewCoins, Visible
  <2>4. IInv'
    <3>1. TypeOK' /\ ViewDiscipline'
      BY <1>13, <2>2 DEF Uncache, TypeOK, ViewDiscipline
    <3>2. FlagsCoherent'
      BY <1>13, <2>2, <2>3 DEF Uncache, FlagsCoherent, Coherent
    <3> QED BY <3>1, <3>2
  <2>5. UNCHANGED <<TipBest, ViewBest, db, dbBest, open>>
    BY <1>13 DEF Uncache, TipBest, ViewBest, BestOf
  <2> QED BY <2>3, <2>4, <2>5 DEF Store!vars
<1>14. CASE Crash
  <2>1. tip' \in Cache /\ Coherent(tip', db) /\ Visible(tip', db) = db
    BY <1>14, EmptyShowsTheBase DEF Crash, TypeOK
  <2>2. view' \in Cache /\ Coherent(view', db) /\ Visible(view', db) = db
    BY <1>14, EmptyShowsTheBase DEF Crash, TypeOK
  <2>3. TipCoins' = db /\ ViewCoins' = db
    BY <1>14, <2>1, <2>2 DEF Crash, TipCoins, ViewCoins, Visible
  <2>4. TipBest' = dbBest /\ ViewBest' = dbBest
    BY <1>14 DEF Crash, TipBest, ViewBest, BestOf
  <2>5. IInv'
    <3>1. TypeOK' /\ ViewDiscipline'
      BY <1>14, <2>1, <2>2 DEF Crash, TypeOK, ViewDiscipline
    <3>2. FlagsCoherent'
      BY <1>14, <2>1, <2>2, <2>3 DEF Crash, FlagsCoherent, Coherent
    <3> QED BY <3>1, <3>2
  <2>6. Store!Crash
    BY <1>14, <2>3, <2>4 DEF Crash, Store!Crash
  <2> QED BY <2>5, <2>6 DEF Store!Next
<1>15. CASE UNCHANGED vars
  <2>1. TipCoins' = TipCoins /\ ViewCoins' = ViewCoins /\ TipBest' = TipBest /\ ViewBest' = ViewBest
    BY <1>15 DEF vars, TipCoins, ViewCoins, Visible, TipBest, ViewBest, BestOf
  <2>2. IInv'
    BY <1>15, <2>1 DEF vars, TypeOK, FlagsCoherent, Coherent, ViewDiscipline
  <2> QED BY <1>15, <2>1, <2>2 DEF vars, Store!vars
<1> QED
  BY <1>4, <1>5, <1>6, <1>7, <1>8, <1>9, <1>10, <1>11, <1>12, <1>13, <1>14, <1>15
     DEF Next, Store!Next

\* The invariant holds of every reachable state.
LEMMA IInvHolds == Spec => []IInv
<1>1. IInv /\ [Next]_vars => IInv'
  BY StepIsSound
<1> QED BY InitIInv, <1>1, PTL DEF Spec

\* The DIRTY and FRESH flags of pcoinsTip and of the view above it always
\* tell the truth about the level below (coins.h, CCoinsCacheEntry), and every
\* variable keeps its type.
THEOREM FlagsTellTheTruth == Spec => [](TypeOK /\ FlagsCoherent)
<1>1. IInv => TypeOK /\ FlagsCoherent
  BY DEF IInv
<1> QED BY IInvHolds, <1>1, PTL

\* The caches implement the plain maps of CoinStore: reads and evictions do
\* not show, view.Flush() publishes exactly what the view showed, pcoinsTip's
\* Flush() stores exactly what the tip showed, a crash loses only the rest.
THEOREM CachesImplementStore == Spec => StoreSpec
<1>1. Init => Store!Init
  <2> SUFFICES ASSUME Init PROVE Store!Init
    OBVIOUS
  <2>1. db \in [Txid -> Coins]
    BY PrunedAssumption DEF Init
  <2>2. TipCoins = db
    BY <2>1, EmptyShowsTheBase DEF Init, TipCoins
  <2>3. ViewCoins = db
    BY <2>1, <2>2, EmptyShowsTheBase DEF Init, ViewCoins
  <2> QED BY <2>2, <2>3 DEF Init, Store!Init, TipBest, ViewBest, BestOf
<1>2. IInv /\ [Next]_vars => [Store!Next]_(Store!vars)
  BY StepIsSound
<1> QED BY IInvHolds, <1>1, <1>2, PTL DEF Spec, StoreSpec, Store!Spec
=============================================================================
