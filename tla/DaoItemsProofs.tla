--------------------------- MODULE DaoItemsProofs ---------------------------
(***************************************************************************)
(* For every set of ids and contents, the two levels of cache over the     *)
(* database implement the plain maps of DaoStore, and a consultation lists *)
(* exactly its answers at every level.                                     *)
(*                                                                         *)
(* The argument. Every cached entry is dirty (AllDirty), because SetNull   *)
(* leaves fDirty set and nothing clears it; so a flush loses nothing, and  *)
(* it does not matter that the comparison of two consultations ignores     *)
(* their lists. Filling a cache changes nothing a reader sees (the lemmas  *)
(* about TipAfter and ViewFetched). What remains is what each operation    *)
(* does to the items the view shows.                                       *)
(***************************************************************************)
EXTENDS DaoItems, TLAPS

AllDirty == \A k \in Key : /\ tip[k] # NoEntry => tip[k].dirty
                           /\ view[k] # NoEntry => view[k].dirty

\* The inductive invariant.
IInv == TypeOK /\ AllDirty /\ AnswersListed

-----------------------------------------------------------------------------
\* Keys of the three kinds that operations combine.
LEMMA Keys ==
    /\ \A a \in ConsultationAnswer : AnswerKey(a) \in Own /\ ParentKey(a) \in Own
    /\ \A c \in Consultation : /\ ConsultationKey(c) \in Own
                               /\ <<"request", c>> \in Key \ Own
    /\ \A a, b \in ConsultationAnswer : AnswerKey(a) = AnswerKey(b) => a = b
    /\ \A c, e \in Consultation : ConsultationKey(c) = ConsultationKey(e) => c = e
    /\ \A a \in ConsultationAnswer, c \in Consultation :
           AnswerKey(a) # ConsultationKey(c)
    /\ Own \subseteq Key
BY ParentAssumption, IdAssumption
   DEF Key, Own, AnswerKey, ParentKey, ConsultationKey

LEMMA Types ==
    /\ NoAnswers \in [ConsultationAnswer -> Nat]
    /\ NullItem \in Item
    /\ NullEntry \in Entry
    /\ \A d \in Data : NewEntry(d) \in Entry
    /\ \A e \in Entry : e # NoEntry
BY NoEntryAssumption DEF NoAnswers, NullItem, Item, NullEntry, Entry, NewEntry

\* What an edit leaves.
LEMMA EditedEntry ==
    ASSUME NEW e \in Entry, NEW i \in Item
    PROVE  /\ Edited(e, i) \in Entry
           /\ Edited(e, i).item = i
           /\ e.dirty => Edited(e, i).dirty
BY DEF Edited, Entry, NullEntry, Same

LEMMA TipShows ==
    ASSUME TypeOK
    PROVE  /\ TipItems \in [Key -> Item]
           /\ ViewItems \in [Key -> Item]
           /\ \A k \in Key : /\ TipItems[k] = IF tip[k] = NoEntry THEN db[k] ELSE tip[k].item
                             /\ ViewItems[k] = IF view[k] = NoEntry THEN TipItems[k] ELSE view[k].item
BY Types DEF TypeOK, TipItems, ViewItems, Visible, Cache, Entry

\* Looking an item up in pcoinsTip: the entry it keeps shows what it showed.
LEMMA TipLookup ==
    ASSUME TypeOK, AllDirty, NEW k \in Key
    PROVE  /\ TipFetched(k) \in Entry \cup {NoEntry}
           /\ TipFetched(k) # NoEntry => TipFetched(k).item = TipItems[k] /\ TipFetched(k).dirty
           /\ TipFetched(k) = NoEntry => tip[k] = NoEntry /\ IsNull(TipItems[k])
           /\ TipGet(k) = IF IsNull(TipItems[k]) THEN NoEntry ELSE TipFetched(k)
<1>1. /\ DbGet(k) \in Entry \cup {NoEntry}
      /\ DbGet(k) = NoEntry <=> IsNull(db[k])
      /\ DbGet(k) # NoEntry => DbGet(k).item = db[k] /\ DbGet(k).dirty
  BY Types DEF TypeOK, DbGet, Entry, NullEntry
<1>2. tip[k] \in Entry \cup {NoEntry}
  BY DEF TypeOK, Cache
<1>3. TipItems[k] = IF tip[k] = NoEntry THEN db[k] ELSE tip[k].item
  BY TipShows
<1>4. TipFetched(k) = IF tip[k] # NoEntry \/ DbGet(k) = NoEntry THEN tip[k] ELSE DbGet(k)
  BY DEF TipFetched, FetchItem
<1>5. tip[k] # NoEntry => tip[k].dirty
  BY DEF AllDirty
<1>6. TipGet(k) = IF TipFetched(k) = NoEntry THEN NoEntry
                  ELSE IF IsNull(TipFetched(k).item) THEN NoEntry ELSE TipFetched(k)
  BY DEF TipGet, GetItem
<1> QED BY <1>1, <1>2, <1>3, <1>4, <1>5, <1>6

\* Looking an item up in the view.
LEMMA ViewLookup ==
    ASSUME TypeOK, AllDirty, NEW k \in Key
    PROVE  /\ ViewFetched(k) \in Entry \cup {NoEntry}
           /\ ViewFetched(k) # NoEntry =>
                  ViewFetched(k).item = ViewItems[k] /\ ViewFetched(k).dirty
           /\ ViewFetched(k) = NoEntry => view[k] = NoEntry /\ IsNull(ViewItems[k])
           /\ Have(k) <=> ~IsNull(ViewItems[k])
           /\ Modifiable(k) \in Entry
           /\ Modifiable(k).item = ViewItems[k]
           /\ Modifiable(k).dirty
<1>1. view[k] \in Entry \cup {NoEntry}
  BY DEF TypeOK, Cache
<1>2. ViewItems[k] = IF view[k] = NoEntry THEN TipItems[k] ELSE view[k].item
  BY TipShows
<1>3. ViewFetched(k) = IF view[k] # NoEntry \/ TipGet(k) = NoEntry THEN view[k] ELSE TipGet(k)
  BY DEF ViewFetched, FetchItem
<1>4. view[k] # NoEntry => view[k].dirty
  BY DEF AllDirty
<1>5. Have(k) <=> ~(ViewFetched(k) = NoEntry \/ IsNull(ViewFetched(k).item))
  BY <1>1, <1>3, TipLookup, Types DEF Have, ViewGet, GetItem
<1>6. /\ ViewFetched(k) \in Entry \cup {NoEntry}
      /\ ViewFetched(k) # NoEntry =>
             ViewFetched(k).item = ViewItems[k] /\ ViewFetched(k).dirty
      /\ ViewFetched(k) = NoEntry => view[k] = NoEntry /\ IsNull(ViewItems[k])
  BY <1>1, <1>2, <1>3, <1>4, TipLookup
<1>7. Modifiable(k) = IF ViewFetched(k) = NoEntry THEN NullEntry ELSE ViewFetched(k)
  BY DEF Modifiable
<1>8. NullEntry \in Entry /\ NullEntry.item = NullItem /\ NullEntry.dirty
  BY Types DEF NullEntry
<1> QED BY <1>5, <1>6, <1>7, <1>8 DEF IsNull

-----------------------------------------------------------------------------
\* After a step the view holds dirty entries only and shows these items.
ViewBecomes(items) ==
    /\ view' \in Cache
    /\ \A k \in Key : IF view'[k] = NoEntry THEN items[k] = TipItems[k]
                      ELSE view'[k].dirty /\ view'[k].item = items[k]

\* A step that only fills pcoinsTip and changes the view is right when the
\* items it makes the view show are.
LEMMA ViewStep ==
    ASSUME IInv, NEW K, tip' = TipAfter(K), UNCHANGED <<db, open, kinds>>,
           NEW items \in [Key -> Item], ViewBecomes(items), Orderly(items)
    PROVE  /\ IInv'
           /\ TipItems' = TipItems
           /\ ViewItems' = items
<1> USE DEF IInv
<1>1. \A k \in Key : tip'[k] = IF k \in K /\ view[k] = NoEntry THEN TipFetched(k) ELSE tip[k]
  BY DEF TipAfter
<1>2. tip' \in Cache
  BY TipLookup DEF TipAfter, TypeOK, Cache
<1>3. \A k \in Key : tip'[k] # NoEntry => tip'[k].dirty
  BY <1>1, TipLookup DEF AllDirty
<1>4. TypeOK'
  BY <1>2 DEF TypeOK, ViewBecomes
<1>5. AllDirty'
  BY <1>3 DEF AllDirty, ViewBecomes
<1>6. /\ TipItems' \in [Key -> Item]
      /\ ViewItems' \in [Key -> Item]
      /\ \A k \in Key : /\ TipItems'[k] = IF tip'[k] = NoEntry THEN db[k] ELSE tip'[k].item
                        /\ ViewItems'[k] = IF view'[k] = NoEntry THEN TipItems'[k] ELSE view'[k].item
  <2>1. TypeOK' => /\ TipItems' \in [Key -> Item]
                   /\ ViewItems' \in [Key -> Item]
                   /\ \A k \in Key : /\ TipItems'[k] = IF tip'[k] = NoEntry THEN db'[k] ELSE tip'[k].item
                                     /\ ViewItems'[k] = IF view'[k] = NoEntry THEN TipItems'[k] ELSE view'[k].item
    BY Types DEF TypeOK, TipItems, ViewItems, Visible, Cache, Entry
  <2> QED BY <2>1, <1>4
<1>7. TipItems' = TipItems
  <2>1. \A k \in Key : TipItems'[k] = TipItems[k]
    BY <1>1, <1>6, TipLookup, TipShows DEF TypeOK, Cache
  <2> QED BY <2>1, <1>6, TipShows
<1>8. ViewItems' = items
  <2>1. \A k \in Key : ViewItems'[k] = items[k]
    BY <1>6, <1>7 DEF ViewBecomes
  <2> QED BY <2>1, <1>6
<1>9. AnswersListed'
  <2>1. Orderly(db) /\ Orderly(TipItems)
    BY DEF AnswersListed
  <2>2. Orderly(db)' /\ Orderly(TipItems)' /\ Orderly(ViewItems)'
    BY <2>1, <1>7, <1>8 DEF Orderly, Tidy, ListsAnswers
  <2> QED BY <2>2 DEF AnswersListed
<1> QED BY <1>4, <1>5, <1>7, <1>8, <1>9

\* One entry of the view is set.
LEMMA OneEntry ==
    ASSUME IInv, NEW k \in Key, NEW e \in Entry, e.dirty,
           view' = [view EXCEPT ![k] = e]
    PROVE  ViewBecomes([ViewItems EXCEPT ![k] = e.item])
BY TipShows, Types DEF IInv, ViewBecomes, TypeOK, Cache, AllDirty

\* A look-up in the view shows the same items as before.
LEMMA ReadShowsSame ==
    ASSUME IInv, NEW k \in Key, view' = [view EXCEPT ![k] = ViewFetched(k)]
    PROVE  ViewBecomes(ViewItems)
BY ViewLookup, TipShows, Types DEF IInv, ViewBecomes, TypeOK, Cache, AllDirty

LEMMA ItemsOrderly ==
    ASSUME IInv
    PROVE  /\ ViewItems \in [Key -> Item]
           /\ Orderly(ViewItems)
BY TipShows DEF IInv, AnswersListed

\* An item other than an answer changes what it holds, not its list.
LEMMA ChangeOrderly ==
    ASSUME IInv, NEW k \in Own, NEW d \in Data \cup {NoData},
           \/ d # NoData /\ (k[1] = "answer" => ~IsNull(ViewItems[k]))
           \/ k[1] \in {"proposal", "request", "register"}
    PROVE  LET i == [data |-> d, answers |-> ViewItems[k].answers]
           IN /\ i \in Item
              /\ [ViewItems EXCEPT ![k] = i] \in [Key -> Item]
              /\ Orderly([ViewItems EXCEPT ![k] = i])
<1> DEFINE i == [data |-> d, answers |-> ViewItems[k].answers]
           items == [ViewItems EXCEPT ![k] = i]
<1>1. ViewItems \in [Key -> Item] /\ Tidy(ViewItems) /\ ListsAnswers(ViewItems)
  BY ItemsOrderly DEF Orderly
<1>2. k \in Key
  BY Keys
<1>3. i \in Item
  BY <1>1, <1>2 DEF Item
<1>4. items \in [Key -> Item]
  BY <1>1, <1>3
<1>5. i.data = NoData => IsNull(i)
  BY <1>1, <1>2 DEF IsNull, NullItem, Tidy
<1>6. Tidy(items)
  BY <1>1, <1>2, <1>5 DEF Tidy
<1>7. \A j \in Key : items[j].answers = ViewItems[j].answers
  BY <1>1, <1>2
<1>8. \A a \in ConsultationAnswer : IsNull(items[AnswerKey(a)]) <=> IsNull(ViewItems[AnswerKey(a)])
  <2> TAKE a \in ConsultationAnswer
  <2>1. AnswerKey(a) \in Key /\ AnswerKey(a)[1] = "answer"
    BY Keys DEF AnswerKey
  <2>2. CASE k = AnswerKey(a)
    BY <2>1, <2>2, <1>1 DEF IsNull, NullItem
  <2>3. CASE k # AnswerKey(a)
    BY <2>1, <2>3, <1>1
  <2> QED BY <2>2, <2>3
<1>9. ListsAnswers(items)
  BY <1>1, <1>7, <1>8, Keys DEF ListsAnswers
<1> QED BY <1>3, <1>4, <1>6, <1>9 DEF Orderly

-----------------------------------------------------------------------------
\* The items the view shows after an answer was added, and removed.
WithAnswer(a, d) ==
    [ViewItems EXCEPT
        ![ParentKey(a)] = [data |-> ViewItems[ParentKey(a)].data,
                           answers |-> [ViewItems[ParentKey(a)].answers EXCEPT ![a] = @ + 1]],
        ![AnswerKey(a)] = [data |-> d, answers |-> NoAnswers]]

WithoutAnswer(a) ==
    [ViewItems EXCEPT
        ![ParentKey(a)] = [data |-> ViewItems[ParentKey(a)].data,
                           answers |-> [ViewItems[ParentKey(a)].answers EXCEPT ![a] = 0]],
        ![AnswerKey(a)] = NullItem]

WithoutConsultation(c) ==
    [k \in Key |-> IF \/ k = ConsultationKey(c)
                      \/ \E a \in ConsultationAnswer : k = AnswerKey(a) /\ Parent[a] = c
                   THEN NullItem ELSE ViewItems[k]]

LEMMA AddedOrderly ==
    ASSUME IInv, NEW a \in ConsultationAnswer, NEW d \in Data,
           ~IsNull(ViewItems[ParentKey(a)]), IsNull(ViewItems[AnswerKey(a)])
    PROVE  WithAnswer(a, d) \in [Key -> Item] /\ Orderly(WithAnswer(a, d))
<1> DEFINE p == ParentKey(a)
           l == ViewItems[p].answers
           pi == [data |-> ViewItems[p].data, answers |-> [l EXCEPT ![a] = @ + 1]]
           ai == [data |-> d, answers |-> NoAnswers]
           items == WithAnswer(a, d)
<1>1. ViewItems \in [Key -> Item] /\ Tidy(ViewItems) /\ ListsAnswers(ViewItems)
  BY ItemsOrderly DEF Orderly
<1>2. p \in Own /\ AnswerKey(a) \in Own /\ p # AnswerKey(a) /\ Own \subseteq Key
  BY Keys, ParentAssumption DEF ParentKey
<1>3. pi \in Item /\ ai \in Item
  BY <1>1, <1>2, Types DEF Item
<1>4. items = [ViewItems EXCEPT ![p] = pi, ![AnswerKey(a)] = ai]
  BY DEF WithAnswer
<1>5. items \in [Key -> Item]
  BY <1>1, <1>3, <1>4
<1>6. /\ items[p] = pi
      /\ items[AnswerKey(a)] = ai
      /\ \A k \in Key \ {p, AnswerKey(a)} : items[k] = ViewItems[k]
  BY <1>1, <1>2, <1>4
<1>7. ViewItems[p].data # NoData /\ d # NoData
  BY <1>1, <1>2, NoDataAssumption DEF Tidy
<1>8. p[1] = "consultation" /\ AnswerKey(a)[1] = "answer"
  BY DEF ParentKey, ConsultationKey, AnswerKey
<1>9. Tidy(items)
  BY <1>2, <1>6, <1>7, <1>8, <1>1 DEF Tidy
<1>10. ListsAnswers(items)
  <2> SUFFICES ASSUME NEW c \in Consultation, NEW b \in ConsultationAnswer
               PROVE  items[ConsultationKey(c)].answers[b] =
                          IF Parent[b] = c /\ ~IsNull(items[AnswerKey(b)]) THEN 1 ELSE 0
    BY DEF ListsAnswers
  <2>1. ViewItems[ConsultationKey(c)].answers[b] =
            IF Parent[b] = c /\ ~IsNull(ViewItems[AnswerKey(b)]) THEN 1 ELSE 0
    BY <1>1 DEF ListsAnswers
  <2>2. /\ AnswerKey(b) \in Key /\ AnswerKey(b) # p
        /\ ConsultationKey(c) \in Key /\ ConsultationKey(c) # AnswerKey(a)
        /\ AnswerKey(b) = AnswerKey(a) <=> b = a
        /\ ConsultationKey(c) = p <=> c = Parent[a]
    BY Keys, ParentAssumption DEF ParentKey
  <2>3. ~IsNull(ai)
    BY <1>7 DEF IsNull, NullItem
  <2>4. l \in [ConsultationAnswer -> Nat]
    BY <1>1, <1>2 DEF Item
  <2>5. CASE b = a
    <3>1. items[AnswerKey(b)] = ai
      BY <1>6, <2>5
    <3>2. CASE c = Parent[a]
      <4>1. l[a] = 0
        BY <2>1, <2>2, <2>5, <3>2
      <4>2. items[ConsultationKey(c)].answers[b] = l[a] + 1
        BY <1>6, <2>2, <2>4, <2>5, <3>2
      <4> QED BY <4>1, <4>2, <3>1, <3>2, <2>3, <2>5
    <3>3. CASE c # Parent[a]
      BY <1>6, <2>1, <2>2, <2>5, <3>3
    <3> QED BY <3>2, <3>3
  <2>6. CASE b # a
    <3>1. items[AnswerKey(b)] = ViewItems[AnswerKey(b)]
      BY <1>6, <2>2, <2>6
    <3>2. items[ConsultationKey(c)].answers[b] = ViewItems[ConsultationKey(c)].answers[b]
      BY <1>6, <2>2, <2>4, <2>6
    <3> QED BY <3>1, <3>2, <2>1
  <2> QED BY <2>5, <2>6
<1> QED BY <1>5, <1>9, <1>10 DEF Orderly

LEMMA RemovedOrderly ==
    ASSUME IInv, NEW a \in ConsultationAnswer, ~IsNull(ViewItems[AnswerKey(a)])
    PROVE  WithoutAnswer(a) \in [Key -> Item] /\ Orderly(WithoutAnswer(a))
<1> DEFINE p == ParentKey(a)
           l == ViewItems[p].answers
           pi == [data |-> ViewItems[p].data, answers |-> [l EXCEPT ![a] = 0]]
           items == WithoutAnswer(a)
<1>1. ViewItems \in [Key -> Item] /\ Tidy(ViewItems) /\ ListsAnswers(ViewItems)
  BY ItemsOrderly DEF Orderly
<1>2. p \in Own /\ AnswerKey(a) \in Own /\ p # AnswerKey(a) /\ Own \subseteq Key
  BY Keys, ParentAssumption DEF ParentKey
<1>3. pi \in Item /\ NullItem \in Item
  BY <1>1, <1>2, Types DEF Item
<1>4. items = [ViewItems EXCEPT ![p] = pi, ![AnswerKey(a)] = NullItem]
  BY DEF WithoutAnswer
<1>5. items \in [Key -> Item]
  BY <1>1, <1>3, <1>4
<1>6. /\ items[p] = pi
      /\ items[AnswerKey(a)] = NullItem
      /\ \A k \in Key \ {p, AnswerKey(a)} : items[k] = ViewItems[k]
  BY <1>1, <1>2, <1>4
<1>7. l \in [ConsultationAnswer -> Nat]
  BY <1>1, <1>2 DEF Item
<1>8. ViewItems[p].data # NoData
  <2>1. l[a] = 1
    BY <1>1, ParentAssumption DEF ListsAnswers, ParentKey
  <2>2. NullItem.answers[a] = 0
    BY DEF NullItem, NoAnswers
  <2> QED BY <2>1, <2>2, <1>1, <1>2 DEF Tidy, IsNull
<1>9. p[1] = "consultation" /\ AnswerKey(a)[1] = "answer"
  BY DEF ParentKey, ConsultationKey, AnswerKey
<1>10. Tidy(items)
  <2>1. IsNull(NullItem) /\ NullItem.answers = NoAnswers
    BY DEF IsNull, NullItem
  <2> QED BY <2>1, <1>2, <1>6, <1>8, <1>9, <1>1 DEF Tidy
<1>11. ListsAnswers(items)
  <2> SUFFICES ASSUME NEW c \in Consultation, NEW b \in ConsultationAnswer
               PROVE  items[ConsultationKey(c)].answers[b] =
                          IF Parent[b] = c /\ ~IsNull(items[AnswerKey(b)]) THEN 1 ELSE 0
    BY DEF ListsAnswers
  <2>1. ViewItems[ConsultationKey(c)].answers[b] =
            IF Parent[b] = c /\ ~IsNull(ViewItems[AnswerKey(b)]) THEN 1 ELSE 0
    BY <1>1 DEF ListsAnswers
  <2>2. /\ AnswerKey(b) \in Key /\ AnswerKey(b) # p
        /\ ConsultationKey(c) \in Key /\ ConsultationKey(c) # AnswerKey(a)
        /\ AnswerKey(b) = AnswerKey(a) <=> b = a
        /\ ConsultationKey(c) = p <=> c = Parent[a]
    BY Keys, ParentAssumption DEF ParentKey
  <2>3. IsNull(NullItem)
    BY DEF IsNull
  <2>4. CASE b = a
    <3>1. CASE c = Parent[a]
      BY <1>6, <1>7, <2>2, <2>3, <2>4, <3>1
    <3>2. CASE c # Parent[a]
      BY <1>6, <2>1, <2>2, <2>4, <3>2
    <3> QED BY <3>1, <3>2
  <2>5. CASE b # a
    <3>1. items[AnswerKey(b)] = ViewItems[AnswerKey(b)]
      BY <1>6, <2>2, <2>5
    <3>2. items[ConsultationKey(c)].answers[b] = ViewItems[ConsultationKey(c)].answers[b]
      BY <1>6, <1>7, <2>2, <2>5
    <3> QED BY <3>1, <3>2, <2>1
  <2> QED BY <2>4, <2>5
<1> QED BY <1>5, <1>10, <1>11 DEF Orderly

LEMMA TakenBackOrderly ==
    ASSUME IInv, NEW c \in Consultation
    PROVE  WithoutConsultation(c) \in [Key -> Item] /\ Orderly(WithoutConsultation(c))
<1> DEFINE items == WithoutConsultation(c)
<1>1. ViewItems \in [Key -> Item] /\ Tidy(ViewItems) /\ ListsAnswers(ViewItems)
  BY ItemsOrderly DEF Orderly
<1>2. items \in [Key -> Item]
  BY <1>1, Types DEF WithoutConsultation
<1>3. \A k \in Key : items[k] = NullItem \/ items[k] = ViewItems[k]
  BY DEF WithoutConsultation
<1>4. Tidy(items)
  <2>1. IsNull(NullItem) /\ NullItem.answers = NoAnswers
    BY DEF IsNull, NullItem
  <2> QED BY <2>1, <1>1, <1>3 DEF Tidy
<1>5. ListsAnswers(items)
  <2> SUFFICES ASSUME NEW e \in Consultation, NEW b \in ConsultationAnswer
               PROVE  items[ConsultationKey(e)].answers[b] =
                          IF Parent[b] = e /\ ~IsNull(items[AnswerKey(b)]) THEN 1 ELSE 0
    BY DEF ListsAnswers
  <2>1. ViewItems[ConsultationKey(e)].answers[b] =
            IF Parent[b] = e /\ ~IsNull(ViewItems[AnswerKey(b)]) THEN 1 ELSE 0
    BY <1>1 DEF ListsAnswers
  <2>2. /\ items[AnswerKey(b)] = IF Parent[b] = c THEN NullItem ELSE ViewItems[AnswerKey(b)]
        /\ items[ConsultationKey(e)] = IF e = c THEN NullItem ELSE ViewItems[ConsultationKey(e)]
    BY Keys DEF WithoutConsultation
  <2>3. IsNull(NullItem) /\ NullItem.answers[b] = 0
    BY DEF IsNull, NullItem, NoAnswers
  <2> QED BY <2>1, <2>2, <2>3
<1> QED BY <1>2, <1>4, <1>5 DEF Orderly

-----------------------------------------------------------------------------
\* Each operation on the view, by the items it makes the view show.
LEMMA ReadStep ==
    ASSUME IInv, NEW k \in Key, ReadView(k)
    PROVE  IInv' /\ TipItems' = TipItems /\ ViewItems' = ViewItems
<1>1. ViewBecomes(ViewItems)
  BY ReadShowsSame DEF ReadView
<1> QED BY <1>1, ViewStep, ItemsOrderly DEF ReadView

\* The items the view shows after one changed what it holds.
WithData(k, d) ==
    [ViewItems EXCEPT ![k] = [data |-> d, answers |-> ViewItems[k].answers]]

LEMMA AddStep ==
    ASSUME IInv, NEW k \in Own, NEW d \in Data, AddItem(k, d),
           k[1] \in {"proposal", "request", "consultation"}
    PROVE  /\ IInv' /\ TipItems' = TipItems
           /\ ViewItems' = IF IsNull(ViewItems[k]) THEN WithData(k, d) ELSE ViewItems
<1> USE DEF AddItem
<1>1. k \in Key
  BY Keys
<1>2. Have(k) <=> ~IsNull(ViewItems[k])
  BY <1>1, ViewLookup DEF IInv
<1>3. CASE Have(k)
  <2>1. ViewBecomes(ViewItems)
    BY <1>1, <1>3, ReadShowsSame
  <2> QED BY <1>2, <1>3, <2>1, ViewStep, ItemsOrderly
<1>4. CASE ~Have(k)
  <2> DEFINE e == NewEntry(d)
  <2>1. e \in Entry /\ e.dirty /\ e.item = [data |-> d, answers |-> NoAnswers]
    BY Types DEF NewEntry
  <2>2. e.item = [data |-> d, answers |-> ViewItems[k].answers]
    BY <2>1, <1>2, <1>4 DEF IsNull, NullItem
  <2>3. ViewBecomes(WithData(k, d))
    BY <1>1, <1>4, <2>1, <2>2, OneEntry DEF WithData
  <2>4. WithData(k, d) \in [Key -> Item] /\ Orderly(WithData(k, d))
    BY ChangeOrderly, NoDataAssumption DEF WithData
  <2> QED BY <1>2, <1>4, <2>3, <2>4, ViewStep
<1> QED BY <1>3, <1>4

LEMMA ModifyStep ==
    ASSUME IInv, NEW k \in Own, NEW d \in Data \cup {NoData}, ModifyItem(k, d)
    PROVE  /\ IInv' /\ TipItems' = TipItems
           /\ ViewItems' = WithData(k, d)
<1> DEFINE e == Modifiable(k)
           i == [data |-> d, answers |-> e.item.answers]
<1>1. k \in Key
  BY Keys
<1>2. e \in Entry /\ e.item = ViewItems[k] /\ e.dirty /\ (Have(k) <=> ~IsNull(ViewItems[k]))
  BY <1>1, ViewLookup DEF IInv
<1>3. i \in Item /\ WithData(k, d) \in [Key -> Item] /\ Orderly(WithData(k, d))
  BY <1>2, ChangeOrderly DEF WithData, ModifyItem
<1>4. IsNull(i) => AlsoReset(k) = k
  <2>1. IsNull(i) => d = NoData
    BY DEF IsNull, NullItem
  <2> QED BY <2>1 DEF ModifyItem, AlsoReset
<1>5. view' = [view EXCEPT ![k] = Edited(e, i)]
  BY <1>1, <1>4 DEF ModifyItem, IInv, TypeOK, Cache
<1>6. Edited(e, i) \in Entry /\ Edited(e, i).item = i /\ Edited(e, i).dirty
  BY <1>2, <1>3, EditedEntry
<1>7. ViewBecomes(WithData(k, d))
  BY <1>1, <1>2, <1>5, <1>6, OneEntry DEF WithData
<1> QED BY <1>3, <1>7, ViewStep DEF ModifyItem

LEMMA RemoveStep ==
    ASSUME IInv, NEW k \in Own, RemoveItem(k), k[1] \in {"proposal", "request"}
    PROVE  /\ IInv' /\ TipItems' = TipItems
           /\ ViewItems' = IF IsNull(ViewItems[k]) THEN ViewItems ELSE WithData(k, NoData)
<1> USE DEF RemoveItem
<1>1. k \in Key
  BY Keys
<1>2. Have(k) <=> ~IsNull(ViewItems[k])
  BY <1>1, ViewLookup DEF IInv
<1>3. CASE ~Have(k)
  <2>1. ViewBecomes(ViewItems)
    BY <1>1, <1>3, ReadShowsSame
  <2> QED BY <1>2, <1>3, <2>1, ViewStep, ItemsOrderly
<1>4. CASE Have(k)
  <2>1. NullEntry \in Entry /\ NullEntry.dirty /\ NullEntry.item = NullItem
    BY Types DEF NullEntry
  <2>2. ViewItems[k].answers = NoAnswers
    BY <1>1, ItemsOrderly DEF Orderly, Tidy
  <2>3. NullItem = [data |-> NoData, answers |-> ViewItems[k].answers]
    BY <2>2 DEF NullItem
  <2>4. ViewBecomes(WithData(k, NoData))
    BY <1>1, <1>4, <2>1, <2>3, OneEntry DEF WithData
  <2>5. WithData(k, NoData) \in [Key -> Item] /\ Orderly(WithData(k, NoData))
    BY ChangeOrderly DEF WithData
  <2> QED BY <1>2, <1>4, <2>4, <2>5, ViewStep
<1> QED BY <1>3, <1>4

LEMMA AddAnswerStep ==
    ASSUME IInv, NEW a \in ConsultationAnswer, NEW d \in Data,
           AddConsultationAnswer(a, d)
    PROVE  /\ IInv' /\ TipItems' = TipItems
           /\ ViewItems' = IF IsNull(ViewItems[AnswerKey(a)]) THEN WithAnswer(a, d)
                           ELSE ViewItems
<1> DEFINE p == ParentKey(a)
           k == AnswerKey(a)
<1> USE DEF AddConsultationAnswer
<1>1. p \in Key /\ k \in Key /\ p # k
  BY Keys, ParentAssumption DEF ParentKey
<1>2. /\ Have(k) <=> ~IsNull(ViewItems[k])
      /\ Have(p) <=> ~IsNull(ViewItems[p])
  BY <1>1, ViewLookup DEF IInv
<1>3. CASE Have(k)
  <2>1. view' = [view EXCEPT ![k] = ViewFetched(k), ![p] = ViewFetched(p)]
    BY <1>3
  <2>2. ViewBecomes(ViewItems)
    BY <1>1, <2>1, ViewLookup, TipShows, Types
       DEF IInv, ViewBecomes, TypeOK, Cache, AllDirty
  <2> QED BY <1>2, <1>3, <2>2, ViewStep, ItemsOrderly
<1>4. CASE ~Have(k)
  <2> DEFINE e == Modifiable(p)
             pi == [data |-> ViewItems[p].data,
                    answers |-> [ViewItems[p].answers EXCEPT ![a] = @ + 1]]
             ai == [data |-> d, answers |-> NoAnswers]
  <2>1. e \in Entry /\ e.item = ViewItems[p] /\ e.dirty
    BY <1>1, ViewLookup DEF IInv
  <2>2. ViewItems[p] \in Item
    BY <1>1, ItemsOrderly
  <2>3. pi \in Item
    BY <2>2 DEF Item
  <2>4. Listed(a) = Edited(e, pi)
    BY <2>1 DEF Listed
  <2>5. Listed(a) \in Entry /\ Listed(a).item = pi /\ Listed(a).dirty
    BY <2>1, <2>3, <2>4, EditedEntry
  <2>6. NewEntry(d) \in Entry /\ NewEntry(d).item = ai /\ NewEntry(d).dirty
    BY Types DEF NewEntry
  <2>7. view' = [view EXCEPT ![p] = Listed(a), ![k] = NewEntry(d)]
    BY <1>4
  <2>8. WithAnswer(a, d) = [ViewItems EXCEPT ![p] = pi, ![k] = ai]
    BY DEF WithAnswer
  <2>9. ViewBecomes(WithAnswer(a, d))
    BY <1>1, <2>5, <2>6, <2>7, <2>8, TipShows, Types
       DEF IInv, ViewBecomes, TypeOK, Cache, AllDirty
  <2>10. WithAnswer(a, d) \in [Key -> Item] /\ Orderly(WithAnswer(a, d))
    BY <1>2, <1>4, AddedOrderly
  <2> QED BY <1>2, <1>4, <2>9, <2>10, ViewStep
<1> QED BY <1>3, <1>4

LEMMA RemoveAnswerStep ==
    ASSUME IInv, NEW a \in ConsultationAnswer, RemoveConsultationAnswer(a)
    PROVE  /\ IInv' /\ TipItems' = TipItems
           /\ ViewItems' = IF IsNull(ViewItems[AnswerKey(a)]) THEN ViewItems
                           ELSE WithoutAnswer(a)
<1> DEFINE p == ParentKey(a)
           k == AnswerKey(a)
<1> USE DEF RemoveConsultationAnswer
<1>1. p \in Key /\ k \in Key /\ p # k
  BY Keys, ParentAssumption DEF ParentKey
<1>2. Have(k) <=> ~IsNull(ViewItems[k])
  BY <1>1, ViewLookup DEF IInv
<1>3. CASE ~Have(k)
  <2>1. ViewBecomes(ViewItems)
    BY <1>1, <1>3, ReadShowsSame
  <2> QED BY <1>2, <1>3, <2>1, ViewStep, ItemsOrderly
<1>4. CASE Have(k)
  <2> DEFINE e == Modifiable(p)
             pi == [data |-> ViewItems[p].data,
                    answers |-> [ViewItems[p].answers EXCEPT ![a] = 0]]
  <2>1. e \in Entry /\ e.item = ViewItems[p] /\ e.dirty
    BY <1>1, ViewLookup DEF IInv
  <2>2. ViewItems[p] \in Item
    BY <1>1, ItemsOrderly
  <2>3. pi \in Item
    BY <2>2 DEF Item
  <2>4. Unlisted(a) = Edited(e, pi)
    BY <2>1 DEF Unlisted
  <2>5. Unlisted(a) \in Entry /\ Unlisted(a).item = pi /\ Unlisted(a).dirty
    BY <2>1, <2>3, <2>4, EditedEntry
  <2>6. NullEntry \in Entry /\ NullEntry.item = NullItem /\ NullEntry.dirty
    BY Types DEF NullEntry
  <2>7. view' = [view EXCEPT ![p] = Unlisted(a), ![k] = NullEntry]
    BY <1>4
  <2>8. WithoutAnswer(a) = [ViewItems EXCEPT ![p] = pi, ![k] = NullItem]
    BY DEF WithoutAnswer
  <2>9. ViewBecomes(WithoutAnswer(a))
    BY <1>1, <2>5, <2>6, <2>7, <2>8, TipShows, Types
       DEF IInv, ViewBecomes, TypeOK, Cache, AllDirty
  <2>10. WithoutAnswer(a) \in [Key -> Item] /\ Orderly(WithoutAnswer(a))
    BY <1>2, <1>4, RemovedOrderly
  <2> QED BY <1>2, <1>4, <2>9, <2>10, ViewStep
<1> QED BY <1>3, <1>4

LEMMA TakeBackStep ==
    ASSUME IInv, NEW c \in Consultation, RemoveConsultation(c)
    PROVE  /\ IInv' /\ TipItems' = TipItems
           /\ ViewItems' = IF IsNull(ViewItems[ConsultationKey(c)]) THEN ViewItems
                           ELSE WithoutConsultation(c)
<1> DEFINE k == ConsultationKey(c)
           r == <<"request", c>>
<1> USE DEF RemoveConsultation
<1>1. k \in Key /\ r \in Key \ Own /\ k # r
  BY Keys
<1>2. Have(k) <=> ~IsNull(ViewItems[k])
  BY <1>1, ViewLookup DEF IInv
<1>3. CASE ~Have(k)
  <2>1. ViewBecomes(ViewItems)
    BY <1>1, <1>3, ReadShowsSame
  <2> QED BY <1>2, <1>3, <2>1, ViewStep, ItemsOrderly
<1>4. CASE Have(k)
  <2>1. ViewItems \in [Key -> Item] /\ Tidy(ViewItems) /\ ListsAnswers(ViewItems)
    BY ItemsOrderly DEF Orderly
  <2>2. ViewItems[r] = NullItem
    BY <1>1, <2>1 DEF Tidy, IsNull
  <2>3. \A j \in Key : j \in GoneWith(c) /\ Have(j) <=>
            \E a \in ConsultationAnswer : j = AnswerKey(a) /\ Parent[a] = c /\ ~IsNull(ViewItems[j])
    <3> TAKE j \in Key
    <3>1. Have(j) <=> ~IsNull(ViewItems[j])
      BY ViewLookup DEF IInv
    <3>2. j \in GoneWith(c) <=>
            \E a \in ConsultationAnswer : j = AnswerKey(a) /\ ViewItems[k].answers[a] > 0
      BY DEF GoneWith
    <3>3. \A a \in ConsultationAnswer :
              ViewItems[k].answers[a] > 0 <=> Parent[a] = c /\ ~IsNull(ViewItems[AnswerKey(a)])
      BY <2>1 DEF ListsAnswers
    <3> QED BY <3>1, <3>2, <3>3
  <2>4. NullEntry \in Entry /\ NullEntry.item = NullItem /\ NullEntry.dirty /\ NullEntry # NoEntry
    BY Types DEF NullEntry
  <2>5. view' = [j \in Key |-> IF j = k \/ (j \in GoneWith(c) /\ Have(j)) THEN NullEntry
                               ELSE IF j = r /\ view[j] = NoEntry
                               THEN NullEntry ELSE view[j]]
    BY <1>4
  <2>6. view' \in Cache
    BY <2>4, <2>5 DEF IInv, TypeOK, Cache
  <2>7. ASSUME NEW j \in Key
        PROVE  IF view'[j] = NoEntry THEN WithoutConsultation(c)[j] = TipItems[j]
               ELSE view'[j].dirty /\ view'[j].item = WithoutConsultation(c)[j]
    <3>1. WithoutConsultation(c)[j] =
             IF j = k \/ \E a \in ConsultationAnswer : j = AnswerKey(a) /\ Parent[a] = c
             THEN NullItem ELSE ViewItems[j]
      BY DEF WithoutConsultation
    <3>2. WithoutConsultation(c)[j] =
             IF j = k \/ (j \in GoneWith(c) /\ Have(j)) THEN NullItem ELSE ViewItems[j]
      BY <3>1, <2>3 DEF IsNull
    <3>3. ViewItems[j] = IF view[j] = NoEntry THEN TipItems[j] ELSE view[j].item
      BY TipShows DEF IInv
    <3>4. view[j] # NoEntry => view[j].dirty
      BY DEF IInv, AllDirty
    <3> QED BY <3>2, <3>3, <3>4, <2>2, <2>4, <2>5
  <2>8. ViewBecomes(WithoutConsultation(c))
    BY <2>6, <2>7 DEF ViewBecomes
  <2> QED BY <1>2, <1>4, <2>8, TakenBackOrderly, ViewStep
<1> QED BY <1>3, <1>4

-----------------------------------------------------------------------------
\* Steps that move entries between the levels, or drop them.
LEMMA InitStep ==
    ASSUME Init
    PROVE  IInv /\ TipItems = db /\ ViewItems = db
<1>1. TypeOK
  BY Types DEF Init, TypeOK, Cache, EmptyCache
<1>2. AllDirty
  BY DEF Init, AllDirty, EmptyCache
<1>3. TipItems = db /\ ViewItems = db
  BY <1>1 DEF TypeOK, Init, TipItems, ViewItems, Visible, EmptyCache
<1>4. Tidy(db)
  BY DEF Init, Tidy, IsNull, NullItem
<1>5. ListsAnswers(db)
  BY Keys DEF Init, ListsAnswers, IsNull, NullItem, NoAnswers
<1> QED BY <1>1, <1>2, <1>3, <1>4, <1>5 DEF IInv, AnswersListed, Orderly

LEMMA ReadTipStep ==
    ASSUME IInv, NEW k \in Key, ReadTip(k)
    PROVE  IInv' /\ TipItems' = TipItems /\ ViewItems' = ViewItems
<1> USE DEF ReadTip, IInv
<1>1. TypeOK' /\ AllDirty'
  BY TipLookup DEF TypeOK, AllDirty, Cache
<1>2. \A j \in Key : TipItems'[j] = TipItems[j]
  BY TipLookup, TipShows DEF TypeOK, Cache, TipItems, Visible
<1>3. TipItems' = TipItems
  BY <1>2, TipShows DEF TipItems, Visible
<1>4. ViewItems' = ViewItems
  BY <1>3 DEF ViewItems
<1> QED BY <1>1, <1>3, <1>4 DEF AnswersListed, Orderly, Tidy, ListsAnswers

LEMMA FlushViewStep ==
    ASSUME IInv, FlushView
    PROVE  IInv' /\ TipItems' = ViewItems /\ ViewItems' = ViewItems
<1> USE DEF FlushView, IInv
<1>1. \A k \in Key : tip'[k] = IF view[k] = NoEntry THEN tip[k] ELSE view[k]
  BY DEF BatchWriteEntry, AllDirty
<1>2. TypeOK' /\ AllDirty'
  BY <1>1 DEF TypeOK, AllDirty, Cache, EmptyCache
<1>3. \A j \in Key : TipItems'[j] = ViewItems[j]
  BY <1>1, TipShows DEF TipItems, Visible
<1>4. TipItems' = ViewItems
  BY <1>3, TipShows DEF TipItems, ViewItems, Visible
<1>5. ViewItems' = ViewItems
  BY <1>4, TipShows DEF ViewItems, Visible, EmptyCache
<1> QED BY <1>2, <1>4, <1>5 DEF AnswersListed, Orderly, Tidy, ListsAnswers

LEMMA CloseViewStep ==
    ASSUME IInv, CloseView
    PROVE  IInv' /\ TipItems' = TipItems /\ ViewItems' = TipItems
<1> USE DEF CloseView, IInv
<1>1. TypeOK' /\ AllDirty'
  BY DEF TypeOK, AllDirty, Cache, EmptyCache
<1>2. TipItems' = TipItems
  BY DEF TipItems
<1>3. ViewItems' = TipItems
  BY <1>2, TipShows DEF ViewItems, Visible, EmptyCache
<1> QED BY <1>1, <1>2, <1>3 DEF AnswersListed, Orderly, Tidy, ListsAnswers

LEMMA FlushTipStep ==
    ASSUME IInv, FlushTip
    PROVE  IInv' /\ db' = TipItems /\ TipItems' = TipItems /\ ViewItems' = ViewItems
<1> USE DEF FlushTip, IInv
<1>1. \A k \in Key : db'[k] = TipItems[k]
  BY TipShows DEF DbWriteEntry, AllDirty
<1>2. db' = TipItems
  BY <1>1, TipShows DEF TipItems, Visible
<1>3. TypeOK' /\ AllDirty'
  BY <1>2, TipShows DEF TypeOK, AllDirty, Cache, EmptyCache
<1>4. TipItems' = TipItems
  BY <1>2, TipShows DEF TipItems, Visible, EmptyCache
<1>5. ViewItems' = ViewItems
  BY <1>4 DEF ViewItems
<1> QED BY <1>2, <1>3, <1>4, <1>5 DEF AnswersListed, Orderly, Tidy, ListsAnswers

LEMMA CrashStep ==
    ASSUME IInv, Crash
    PROVE  IInv' /\ TipItems' = db /\ ViewItems' = db
<1> USE DEF Crash, IInv
<1>1. TypeOK' /\ AllDirty'
  BY DEF TypeOK, AllDirty, Cache, EmptyCache
<1>2. TipItems' = db
  BY DEF TipItems, Visible, EmptyCache, TypeOK
<1>3. ViewItems' = db
  BY <1>2 DEF ViewItems, Visible, EmptyCache, TypeOK
<1> QED BY <1>1, <1>2, <1>3 DEF AnswersListed, Orderly, Tidy, ListsAnswers

LEMMA StutterStep ==
    ASSUME IInv, UNCHANGED <<db, tip, view>>, open' \in BOOLEAN, kinds' = kinds
    PROVE  IInv' /\ TipItems' = TipItems /\ ViewItems' = ViewItems
<1> USE DEF IInv
<1>1. TypeOK' /\ AllDirty'
  BY DEF TypeOK, AllDirty
<1>2. TipItems' = TipItems /\ ViewItems' = ViewItems
  BY DEF TipItems, ViewItems
<1> QED BY <1>1, <1>2 DEF AnswersListed, Orderly, Tidy, ListsAnswers

-----------------------------------------------------------------------------
\* The invariant is preserved by every step of the state views.
LEMMA Inductive == IInv /\ [Next]_vars => IInv'
<1> SUFFICES ASSUME IInv, [Next]_vars PROVE IInv'
  OBVIOUS
<1>1. Used \subseteq Own /\ Own \subseteq Key
  BY Keys DEF Used
<1>2. CASE OpenView
  BY <1>2, StutterStep DEF OpenView
<1>3. CASE FlushView
  BY <1>3, FlushViewStep
<1>4. CASE CloseView
  BY <1>4, CloseViewStep
<1>5. CASE FlushTip
  BY <1>5, FlushTipStep
<1>6. CASE Crash
  BY <1>6, CrashStep
<1>7. CASE \E k \in Used : ReadView(k)
  BY <1>1, <1>7, ReadStep
<1>8. CASE \E k \in Used : ReadTip(k)
  BY <1>1, <1>8, ReadTipStep
<1>9. CASE \E k \in Used, d \in Data \cup {NoData} : ModifyItem(k, d)
  BY <1>1, <1>9, ModifyStep
<1>10. CASE \E k \in Used, d \in Data :
                k[1] \in {"proposal", "request", "consultation"} /\ AddItem(k, d)
  BY <1>1, <1>10, AddStep
<1>11. CASE \E k \in Used : k[1] \in {"proposal", "request"} /\ RemoveItem(k)
  BY <1>1, <1>11, RemoveStep
<1>12. CASE \E a \in ConsultationAnswer, d \in Data : AddConsultationAnswer(a, d)
  BY <1>12, AddAnswerStep
<1>13. CASE \E a \in ConsultationAnswer : RemoveConsultationAnswer(a)
  BY <1>13, RemoveAnswerStep
<1>14. CASE \E c \in Consultation : RemoveConsultation(c)
  BY <1>14, TakeBackStep
<1>15. CASE UNCHANGED vars
  BY <1>15, StutterStep DEF vars, IInv, TypeOK
<1> QED BY <1>2, <1>3, <1>4, <1>5, <1>6, <1>7, <1>8, <1>9, <1>10, <1>11, <1>12,
           <1>13, <1>14, <1>15 DEF Next

THEOREM DaoItemsInvariant == Spec => []IInv
<1>1. Init => IInv
  BY InitStep
<1> QED BY <1>1, Inductive, PTL DEF Spec

\* For any ids, vAnswers of every consultation lists exactly the answers there
\* are, each once, in the database, in pcoinsTip and in the view, after any
\* additions, removals, flushes and crashes (AddConsultationAnswer,
\* RemoveConsultationAnswer, RemoveConsultation).
THEOREM AnswersAreListed == Spec => []AnswersListed
BY DaoItemsInvariant, PTL DEF IInv

-----------------------------------------------------------------------------
\* What a change of one item is to the abstract maps.
LEMMA PutData ==
    ASSUME IInv, NEW k \in Key, NEW d
    PROVE  DataOf(WithData(k, d)) = [DataOf(ViewItems) EXCEPT ![k] = d]
<1>1. ViewItems \in [Key -> Item]
  BY ItemsOrderly
<1> QED BY <1>1 DEF DataOf, WithData

LEMMA PutAnswerData ==
    ASSUME IInv, NEW a \in ConsultationAnswer, NEW d
    PROVE  /\ DataOf(WithAnswer(a, d)) = [DataOf(ViewItems) EXCEPT ![AnswerKey(a)] = d]
           /\ DataOf(WithoutAnswer(a)) = [DataOf(ViewItems) EXCEPT ![AnswerKey(a)] = NoData]
<1>1. ViewItems \in [Key -> Item]
  BY ItemsOrderly
<1>2. ParentKey(a) \in Key /\ AnswerKey(a) \in Key /\ ParentKey(a) # AnswerKey(a)
  BY Keys, ParentAssumption DEF ParentKey
<1>3. \A k \in Key : WithAnswer(a, d)[k].data =
                         IF k = AnswerKey(a) THEN d ELSE ViewItems[k].data
  BY <1>1, <1>2 DEF WithAnswer
<1>4. \A k \in Key : WithoutAnswer(a)[k].data =
                         IF k = AnswerKey(a) THEN NoData ELSE ViewItems[k].data
  BY <1>1, <1>2 DEF WithoutAnswer, NullItem
<1> QED BY <1>3, <1>4 DEF DataOf

LEMMA TakeBackData ==
    ASSUME IInv, NEW c \in Consultation
    PROVE  DataOf(WithoutConsultation(c)) =
               [k \in Key |-> IF k = ConsultationKey(c) \/ k \in AnswersOf(ConsultationKey(c))
                              THEN NoData ELSE DataOf(ViewItems)[k]]
<1>1. \A k \in Key : k \in AnswersOf(ConsultationKey(c)) <=>
          \E a \in ConsultationAnswer : k = AnswerKey(a) /\ Parent[a] = c
  BY DEF AnswersOf, ConsultationKey
<1>2. NullItem.data = NoData
  BY DEF NullItem
<1>3. \A k \in Key : WithoutConsultation(c)[k].data =
          IF k = ConsultationKey(c) \/ k \in AnswersOf(ConsultationKey(c))
          THEN NoData ELSE ViewItems[k].data
  BY <1>1, <1>2 DEF WithoutConsultation
<1> QED BY <1>3 DEF DataOf

\* A step that leaves the database and what pcoinsTip shows is a step of the
\* abstract maps when it puts one item, or none.
LEMMA PutIsStoreStep ==
    ASSUME IInv, open, UNCHANGED <<db, open>>, TipItems' = TipItems,
           NEW k \in Key, NEW d \in Data \cup {NoData},
           \/ ViewItems' = ViewItems
           \/ DataOf(ViewItems') = [DataOf(ViewItems) EXCEPT ![k] = d]
    PROVE  [Store!Next]_Store!vars
<1>1. DataOf(db)' = DataOf(db) /\ DataOf(TipItems)' = DataOf(TipItems)
  BY DEF DataOf
<1>2. CASE ViewItems' = ViewItems
  <2>1. DataOf(ViewItems)' = DataOf(ViewItems)
    BY <1>2 DEF DataOf
  <2> QED BY <1>1, <2>1 DEF Store!vars
<1>3. CASE DataOf(ViewItems') = [DataOf(ViewItems) EXCEPT ![k] = d]
  <2>1. Store!Put(k, d)
    BY <1>1, <1>3 DEF Store!Put, DataOf
  <2> QED BY <2>1 DEF Store!Next
<1> QED BY <1>2, <1>3

LEMMA Refines == IInv /\ [Next]_vars => [Store!Next]_Store!vars
<1> SUFFICES ASSUME IInv, [Next]_vars PROVE [Store!Next]_Store!vars
  OBVIOUS
<1>1. Used \subseteq Own /\ Own \subseteq Key
  BY Keys DEF Used
<1>2. CASE OpenView
  <2>1. TipItems' = TipItems /\ ViewItems' = ViewItems
    BY <1>2, StutterStep DEF OpenView
  <2>2. Store!Begin
    BY <1>2, <2>1 DEF OpenView, Store!Begin, DataOf
  <2> QED BY <2>2 DEF Store!Next
<1>3. CASE FlushView
  <2>1. Store!Commit
    BY <1>3, FlushViewStep DEF FlushView, Store!Commit, DataOf
  <2> QED BY <2>1 DEF Store!Next
<1>4. CASE CloseView
  <2>1. Store!Close
    BY <1>4, CloseViewStep DEF CloseView, Store!Close, DataOf
  <2> QED BY <2>1 DEF Store!Next
<1>5. CASE FlushTip
  <2>1. Store!Sync
    BY <1>5, FlushTipStep DEF FlushTip, Store!Sync, DataOf
  <2> QED BY <2>1 DEF Store!Next
<1>6. CASE Crash
  <2>1. Store!Crash
    BY <1>6, CrashStep DEF Crash, Store!Crash, DataOf
  <2> QED BY <2>1 DEF Store!Next
<1>7. ASSUME NEW k \in Used, ReadView(k) \/ ReadTip(k)
      PROVE  [Store!Next]_Store!vars
  <2>1. TipItems' = TipItems /\ ViewItems' = ViewItems
    BY <1>1, <1>7, ReadStep, ReadTipStep
  <2>2. UNCHANGED <<db, open>>
    BY <1>7 DEF ReadView, ReadTip
  <2>3. UNCHANGED Store!vars
    BY <2>1, <2>2 DEF Store!vars, DataOf
  <2> QED BY <2>3
<1>8. ASSUME NEW k \in Used, NEW d \in Data \cup {NoData}, ModifyItem(k, d)
      PROVE  [Store!Next]_Store!vars
  <2>1. TipItems' = TipItems /\ ViewItems' = WithData(k, d)
    BY <1>1, <1>8, ModifyStep
  <2>2. open /\ UNCHANGED <<db, open>>
    BY <1>8 DEF ModifyItem
  <2> QED BY <1>1, <2>1, <2>2, PutData, PutIsStoreStep
<1>9. ASSUME NEW k \in Used, NEW d \in Data, AddItem(k, d),
             k[1] \in {"proposal", "request", "consultation"}
      PROVE  [Store!Next]_Store!vars
  <2>1. TipItems' = TipItems /\ (ViewItems' = WithData(k, d) \/ ViewItems' = ViewItems)
    BY <1>1, <1>9, AddStep
  <2>2. open /\ UNCHANGED <<db, open>>
    BY <1>9 DEF AddItem
  <2> QED BY <1>1, <2>1, <2>2, PutData, PutIsStoreStep
<1>10. ASSUME NEW k \in Used, RemoveItem(k), k[1] \in {"proposal", "request"}
       PROVE  [Store!Next]_Store!vars
  <2>1. TipItems' = TipItems /\ (ViewItems' = WithData(k, NoData) \/ ViewItems' = ViewItems)
    BY <1>1, <1>10, RemoveStep
  <2>2. open /\ UNCHANGED <<db, open>>
    BY <1>10 DEF RemoveItem
  <2> QED BY <1>1, <2>1, <2>2, PutData, PutIsStoreStep
<1>11. ASSUME NEW a \in ConsultationAnswer, NEW d \in Data, AddConsultationAnswer(a, d)
       PROVE  [Store!Next]_Store!vars
  <2>1. TipItems' = TipItems /\ (ViewItems' = WithAnswer(a, d) \/ ViewItems' = ViewItems)
    BY <1>11, AddAnswerStep
  <2>2. open /\ UNCHANGED <<db, open>>
    BY <1>11 DEF AddConsultationAnswer
  <2>3. AnswerKey(a) \in Key
    BY Keys
  <2> QED BY <2>1, <2>2, <2>3, PutAnswerData, PutIsStoreStep
<1>12. ASSUME NEW a \in ConsultationAnswer, RemoveConsultationAnswer(a)
       PROVE  [Store!Next]_Store!vars
  <2>1. TipItems' = TipItems /\ (ViewItems' = WithoutAnswer(a) \/ ViewItems' = ViewItems)
    BY <1>12, RemoveAnswerStep
  <2>2. open /\ UNCHANGED <<db, open>>
    BY <1>12 DEF RemoveConsultationAnswer
  <2>3. AnswerKey(a) \in Key
    BY Keys
  <2> QED BY <2>1, <2>2, <2>3, PutAnswerData, PutIsStoreStep
<1>13. ASSUME NEW c \in Consultation, RemoveConsultation(c)
       PROVE  [Store!Next]_Store!vars
  <2> DEFINE k == ConsultationKey(c)
  <2>1. TipItems' = TipItems /\ (ViewItems' = WithoutConsultation(c) \/ ViewItems' = ViewItems)
    BY <1>13, TakeBackStep
  <2>2. open /\ UNCHANGED <<db, open>>
    BY <1>13 DEF RemoveConsultation
  <2>3. k \in Key
    BY Keys
  <2>4. CASE ViewItems' = ViewItems
    BY <2>1, <2>2, <2>3, <2>4, PutIsStoreStep
  <2>5. CASE ViewItems' = WithoutConsultation(c)
    <3>1. DataOf(ViewItems)' =
              [j \in Key |-> IF j = k \/ j \in AnswersOf(k) THEN NoData
                             ELSE DataOf(ViewItems)[j]]
      BY <2>5, TakeBackData DEF DataOf
    <3>2. Store!Remove(k)
      BY <2>1, <2>2, <3>1 DEF Store!Remove, DataOf
    <3> QED BY <2>3, <3>2 DEF Store!Next
  <2> QED BY <2>1, <2>4, <2>5
<1>14. CASE UNCHANGED vars
  <2>1. UNCHANGED Store!vars
    BY <1>14 DEF vars, Store!vars, DataOf, TipItems, ViewItems
  <2> QED BY <2>1
<1> QED BY <1>2, <1>3, <1>4, <1>5, <1>6, <1>7, <1>8, <1>9, <1>10, <1>11, <1>12,
           <1>13, <1>14 DEF Next

\* For any ids and contents the DAO items of the state views are three plain
\* maps: the caches, the null entries and the lists of answers never show, and
\* RemoveConsultation takes back exactly the answers that name it as parent.
THEOREM ItemCachesImplementStore == Spec => StoreSpec
<1>1. Init => Store!Init
  <2> SUFFICES ASSUME Init PROVE Store!Init
    OBVIOUS
  <2>1. TipItems = db /\ ViewItems = db
    BY InitStep
  <2>2. DataOf(db) = [k \in Key |-> NoData]
    BY DEF Init, DataOf, NullItem
  <2> QED BY <2>1, <2>2 DEF Store!Init, Init
<1>2. QED BY <1>1, Refines, DaoItemsInvariant, PTL DEF Spec, StoreSpec, Store!Spec

\* For any ids and contents, a walk with GetAllProposals and the others finds
\* what look-ups find, in pcoinsTip and in the view.
THEOREM WalksAgree == Spec => []WalkAgrees
<1>1. IInv => WalkAgrees
  <2> SUFFICES ASSUME IInv PROVE WalkAgrees
    OBVIOUS
  <2> DEFINE tipAll == [k \in {j \in Key : ~IsNull(TipItems[j])} |-> TipItems[k]]
             viewAll == [k \in {j \in Key : ~IsNull(ViewItems[j])} |-> ViewItems[k]]
  <2>1. GetAll(tip, DbGetAll) = tipAll
    BY TipShows DEF IInv, GetAll, DbGetAll
  <2>2. GetAll(view, tipAll) = viewAll
    BY TipShows DEF IInv, GetAll
  <2>3. \A k \in Key : /\ TipGet(k) = NoEntry <=> IsNull(TipItems[k])
                       /\ TipGet(k) # NoEntry => TipGet(k).item = TipItems[k]
    BY TipLookup DEF IInv
  <2>4. \A k \in Key : /\ ViewGet(k) = NoEntry <=> IsNull(ViewItems[k])
                       /\ ViewGet(k) # NoEntry => ViewGet(k).item = ViewItems[k]
    BY ViewLookup DEF IInv, ViewGet, GetItem, Have
  <2>5. Found(TipGet) = tipAll
    BY <2>3 DEF Found
  <2>6. Found(ViewGet) = viewAll
    BY <2>4 DEF Found
  <2> QED BY <2>1, <2>2, <2>5, <2>6 DEF WalkAgrees
<1> QED BY <1>1, DaoItemsInvariant, PTL
=============================================================================
