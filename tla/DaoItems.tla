------------------------------ MODULE DaoItems ------------------------------
(***************************************************************************)
(* The DAO part of CStateViewCache (coins.cpp) in the stack the node uses: *)
(* the chainstate database, the cache pcoinsTip over it and the view that  *)
(* a block is connected or disconnected in. There is one map per kind of   *)
(* item; all six work alike and are one map here, keyed by kind and id.    *)
(*                                                                         *)
(* A cached item that is null stands for an item that was removed: it      *)
(* hides the one below. An item is written down by a flush if its fDirty   *)
(* is set. A consultation also lists its answers (vAnswers); the answers   *)
(* are items of their own, and name the consultation as their parent.      *)
(*                                                                         *)
(* All of this runs under cs_main, and a modifier lives for one action.    *)
(***************************************************************************)
EXTENDS Naturals

CONSTANTS Proposal, PaymentRequest, Consultation, \* ids: transaction hashes
          ConsultationAnswer, \* ids: hashes of the parent's id and a text
          Register,           \* ids of vote lists and of consensus parameters
          Parent,             \* the consultation an answer belongs to
          Focus,              \* sets of kinds: a behaviour uses one of them
          Data,               \* what an item may hold, its answers apart
          NoData,             \* what a null item holds
          NoEntry             \* marks a key that a cache has no entry for

ASSUME ParentAssumption == Parent \in [ConsultationAnswer -> Consultation]
ASSUME IdAssumption == /\ PaymentRequest \cap Proposal = {}
                       /\ PaymentRequest \cap Consultation = {}
ASSUME NoDataAssumption == NoData \notin Data

\* The places the code may put an item at: a null payment request is also
\* put into the map of the proposals, a null consultation into that of the
\* payment requests.
Key == ({"proposal"} \X (Proposal \cup PaymentRequest))
       \cup ({"request"} \X (PaymentRequest \cup Consultation))
       \cup ({"consultation"} \X Consultation)
       \cup ({"answer"} \X ConsultationAnswer)
       \cup ({"register"} \X Register)

\* The keys under which an item of its own kind is kept.
Own == ({"proposal"} \X Proposal) \cup ({"request"} \X PaymentRequest)
       \cup ({"consultation"} \X Consultation)
       \cup ({"answer"} \X ConsultationAnswer) \cup ({"register"} \X Register)

AnswerKey(a) == <<"answer", a>>
ConsultationKey(c) == <<"consultation", c>>
ParentKey(a) == ConsultationKey(Parent[a])

VARIABLES db,    \* the database: key -> item (an erased key is NullItem)
          tip,   \* pcoinsTip's caches
          view,  \* the view's caches
          open,  \* is there a view
          kinds  \* the kinds of item this behaviour is about

vars == <<db, tip, view, open, kinds>>

\* An item: what it holds, and how often its vAnswers lists each answer.
Item == [data : Data \cup {NoData}, answers : [ConsultationAnswer -> Nat]]
Entry == [item : Item, dirty : BOOLEAN]

ASSUME NoEntryAssumption == NoEntry \notin Entry

Cache == [Key -> Entry \cup {NoEntry}]

TypeOK == /\ db \in [Key -> Item]
          /\ tip \in Cache
          /\ view \in Cache
          /\ open \in BOOLEAN
          /\ kinds \in Focus

NoAnswers == [a \in ConsultationAnswer |-> 0]
NullItem == [data |-> NoData, answers |-> NoAnswers]
IsNull(i) == i = NullItem

\* Mutant: an item is clean until it is changed.
NullEntryClean == [item |-> NullItem, dirty |-> FALSE]

\* The constructors and SetNull leave fDirty set, and nothing ever clears it.
NullEntry == [item |-> NullItem, dirty |-> TRUE]

\* An item made from a transaction (TxToProposal etc.): it lists no answers.
NewEntry(d) == [item |-> [data |-> d, answers |-> NoAnswers], dirty |-> TRUE]

\* The operator== of the items. A consultation compares its vAnswers with
\* itself, so a change of the list alone goes unnoticed.
Same(i, j) == i.data = j.data

EmptyCache == [k \in Key |-> NoEntry]

-----------------------------------------------------------------------------
\* What a reader of a cache over a base sees.
Visible(cache, base) ==
    [k \in Key |-> IF cache[k] = NoEntry THEN base[k] ELSE cache[k].item]

TipItems == Visible(tip, db)
ViewItems == Visible(view, TipItems)

\* CStateViewDB::GetProposal etc.: an item that was read is as its constructor
\* made it but for the contents.
DbGet(k) == IF IsNull(db[k]) THEN NoEntry
            ELSE [item |-> db[k], dirty |-> NullEntry.dirty]

\* FetchProposal etc.: a miss copies the base's item, if it has one.
FetchItem(cache, k, found) ==
    IF cache[k] # NoEntry \/ found = NoEntry THEN cache[k] ELSE found

\* GetProposal etc. of a cache: a null entry is no item.
GetItem(e) == IF e = NoEntry THEN NoEntry
              ELSE IF IsNull(e.item) THEN NoEntry ELSE e

TipFetched(k) == FetchItem(tip, k, DbGet(k))
TipGet(k) == GetItem(TipFetched(k))
ViewFetched(k) == FetchItem(view, k, TipGet(k))
ViewGet(k) == GetItem(ViewFetched(k))

\* HaveProposal etc.
Have(k) == ViewGet(k) # NoEntry

\* A miss in the view asks pcoinsTip, which keeps what it finds.
TipAfter(K) == [k \in Key |-> IF k \in K /\ view[k] = NoEntry THEN TipFetched(k)
                              ELSE tip[k]]

\* ModifyProposal etc.: the entry the modifier edits.
Modifiable(k) == IF ViewFetched(k) = NoEntry THEN NullEntry ELSE ViewFetched(k)

\* The caller sets the item to i; the destructor of the modifier resets a null
\* item and marks a changed one.
Edited(e, i) ==
    [item |-> i, dirty |-> \/ IF IsNull(i) THEN NullEntry.dirty ELSE e.dirty
                           \/ ~Same(e.item, i)]

\* The destructor of a modifier of a payment request resets a proposal.
AlsoReset(k) == IF k[1] = "request" THEN <<"proposal", k[2]>> ELSE k

\* CStateViewDB::GetAllProposals etc.
DbGetAll == [k \in {j \in Key : ~IsNull(db[j])} |-> db[k]]

\* GetAllProposals etc. of a cache: its entries, then the base's items under
\* keys not taken yet; null ones are left out at the end.
GetAll(cache, all) ==
    LET cached == {j \in Key : cache[j] # NoEntry}
        merged == [k \in cached \cup DOMAIN all |->
                      IF k \in cached THEN cache[k].item ELSE all[k]]
    IN [k \in {j \in DOMAIN merged : ~IsNull(merged[j])} |-> merged[k]]

-----------------------------------------------------------------------------
Init == /\ db = [k \in Key |-> NullItem]
        /\ tip = EmptyCache
        /\ view = EmptyCache
        /\ open = FALSE
        /\ kinds \in Focus

OpenView == /\ ~open
            /\ open' = TRUE
            /\ UNCHANGED <<db, tip, view, kinds>>

ReadView(k) == /\ open
               /\ view' = [view EXCEPT ![k] = ViewFetched(k)]
               /\ tip' = TipAfter({k})
               /\ UNCHANGED <<db, open, kinds>>

\* Readers of pcoinsTip itself: RPC, the mempool's checks.
ReadTip(k) == /\ ~open
              /\ tip' = [tip EXCEPT ![k] = TipFetched(k)]
              /\ UNCHANGED <<db, view, open, kinds>>

\* AddProposal, AddPaymentRequest, AddConsultation: nothing is done if there is
\* such an item; the new one is dirty and lists no answers.
AddItem(k, d) ==
    /\ open
    /\ view' = [view EXCEPT ![k] =
                   IF Have(k) THEN ViewFetched(k)
                   ELSE NewEntry(d)]
    /\ tip' = TipAfter({k})
    /\ UNCHANGED <<db, open, kinds>>

\* Mutant: the answer is not listed with its parent.
ListedForgotten(a) ==
    Edited(Modifiable(ParentKey(a)), Modifiable(ParentKey(a)).item)

\* The parent's entry after a modifier appended an answer to its list.
Listed(a) ==
    LET e == Modifiable(ParentKey(a))
    IN Edited(e, [data |-> e.item.data,
                  answers |-> [e.item.answers EXCEPT ![a] = @ + 1]])

\* The parent's entry after a modifier erased an answer from its list. (A
\* second occurrence could survive the loop; AnswersListed: there is none.)
Unlisted(a) ==
    LET e == Modifiable(ParentKey(a))
    IN Edited(e, [data |-> e.item.data,
                  answers |-> [e.item.answers EXCEPT ![a] = 0]])

\* AddConsultationAnswer; ConnectBlock calls it for an answer with a parent.
AddConsultationAnswer(a, d) ==
    /\ open
    /\ Have(ParentKey(a))
    /\ view' = IF Have(AnswerKey(a))
               THEN [view EXCEPT ![AnswerKey(a)] = ViewFetched(AnswerKey(a)),
                                 ![ParentKey(a)] = ViewFetched(ParentKey(a))]
               ELSE [view EXCEPT
                        ![ParentKey(a)] = Listed(a),
                        ![AnswerKey(a)] = NewEntry(d)]
    /\ tip' = TipAfter({AnswerKey(a), ParentKey(a)})
    /\ UNCHANGED <<db, open, kinds>>

\* ModifyProposal and the others: the callers have looked for the item, except
\* for vote lists and parameters, which they may create and empty.
ModifyItem(k, d) ==
    /\ open
    /\ \/ Have(k) /\ d # NoData
       \/ k[1] = "register"
    /\ LET e == Modifiable(k)
           i == [data |-> d, answers |-> e.item.answers]
       IN view' = [j \in Key |-> IF j = k THEN Edited(e, i)
                                 ELSE IF IsNull(i) /\ j = AlsoReset(k) THEN NullEntry
                                 ELSE view[j]]
    /\ tip' = TipAfter({k})
    /\ UNCHANGED <<db, open, kinds>>

\* RemoveProposal, RemovePaymentRequest.
RemoveItem(k) ==
    /\ open
    /\ view' = [view EXCEPT ![k] = IF Have(k) THEN NullEntry ELSE ViewFetched(k)]
    /\ tip' = TipAfter({k})
    /\ UNCHANGED <<db, open, kinds>>

\* RemoveConsultationAnswer takes the answer off its parent's list, too.
RemoveConsultationAnswer(a) ==
    /\ open
    /\ IF Have(AnswerKey(a))
       THEN /\ view' = [view EXCEPT ![ParentKey(a)] = Unlisted(a),
                                    ![AnswerKey(a)] = NullEntry]
            /\ tip' = TipAfter({AnswerKey(a), ParentKey(a)})
       ELSE /\ view' = [view EXCEPT ![AnswerKey(a)] = ViewFetched(AnswerKey(a))]
            /\ tip' = TipAfter({AnswerKey(a)})
    /\ UNCHANGED <<db, open, kinds>>

\* The answers RemoveConsultation removes before the consultation itself.
GoneWith(c) ==
    {AnswerKey(a) : a \in {b \in ConsultationAnswer :
                              ViewItems[ConsultationKey(c)].answers[b] > 0}}

\* RemoveConsultation; its assertion looks the id up in the map of the payment
\* requests and so leaves a null entry there.
RemoveConsultation(c) ==
    LET k == ConsultationKey(c)
    IN /\ open
       /\ IF Have(k)
          THEN /\ view' = [j \in Key |->
                              IF j = k \/ (j \in GoneWith(c) /\ Have(j)) THEN NullEntry
                              ELSE IF j = <<"request", c>> /\ view[j] = NoEntry
                              THEN NullEntry ELSE view[j]]
               /\ tip' = TipAfter(GoneWith(c) \cup {k})
          ELSE /\ view' = [view EXCEPT ![k] = ViewFetched(k)]
               /\ tip' = TipAfter({k})
       /\ UNCHANGED <<db, open, kinds>>

\* BatchWrite of a cache: a dirty entry replaces the parent's.
BatchWriteEntry(child, parent) ==
    IF child = NoEntry THEN parent ELSE IF child.dirty THEN child ELSE parent

FlushView == /\ open
             /\ tip' = [k \in Key |-> BatchWriteEntry(view[k], tip[k])]
             /\ view' = EmptyCache
             /\ UNCHANGED <<db, open, kinds>>

CloseView == /\ open
             /\ open' = FALSE
             /\ view' = EmptyCache
             /\ UNCHANGED <<db, tip, kinds>>

\* BatchWrite of the database: a dirty entry is written, or erased if null.
DbWriteEntry(e, old) ==
    IF e = NoEntry THEN old ELSE IF e.dirty THEN e.item ELSE old

FlushTip == /\ ~open
            /\ db' = [k \in Key |-> DbWriteEntry(tip[k], db[k])]
            /\ tip' = EmptyCache
            /\ UNCHANGED <<view, open, kinds>>

\* The process dies and is restarted.
Crash == /\ tip' = EmptyCache
         /\ view' = EmptyCache
         /\ open' = FALSE
         /\ UNCHANGED <<db, kinds>>

Used == {k \in Own : k[1] \in kinds}

Next == \/ OpenView \/ FlushView \/ CloseView \/ FlushTip \/ Crash
        \/ \E k \in Used : ReadView(k) \/ ReadTip(k)
        \/ \E k \in Used, d \in Data \cup {NoData} : ModifyItem(k, d)
        \/ \E k \in Used, d \in Data :
               /\ k[1] \in {"proposal", "request", "consultation"}
               /\ AddItem(k, d)
        \/ \E k \in Used : k[1] \in {"proposal", "request"} /\ RemoveItem(k)
        \/ \E a \in ConsultationAnswer, d \in Data : AddConsultationAnswer(a, d)
        \/ \E a \in ConsultationAnswer : RemoveConsultationAnswer(a)
        \/ \E c \in Consultation : RemoveConsultation(c)

Spec == Init /\ [][Next]_vars

-----------------------------------------------------------------------------
\* An item that holds nothing is null, a map has items of its own kind only,
\* and only consultations list answers.
Tidy(items) ==
    \A k \in Key : /\ items[k].data = NoData \/ k \notin Own => IsNull(items[k])
                   /\ k[1] # "consultation" => items[k].answers = NoAnswers

\* A consultation lists the answers there are with it as parent, each once.
ListsAnswers(items) ==
    \A c \in Consultation, a \in ConsultationAnswer :
        items[ConsultationKey(c)].answers[a] =
            IF Parent[a] = c /\ ~IsNull(items[AnswerKey(a)]) THEN 1 ELSE 0

Orderly(items) == Tidy(items) /\ ListsAnswers(items)

\* In the database, in pcoinsTip and in the view alike, vAnswers lists exactly
\* the answers there are, and an absent consultation has none: the voting rules
\* count answers by vAnswers (CConsultation in dao.cpp) and walk over them with
\* GetAllConsultationAnswers.
AnswersListed == Orderly(db) /\ Orderly(TipItems) /\ Orderly(ViewItems)

\* The items a look-up finds.
Found(get(_)) == [k \in {j \in Key : get(j) # NoEntry} |-> get(k).item]

\* A walk over all items and a look-up of each agree at both levels: what
\* GetAllProposals and the others return is what GetProposal and the others
\* find, removed items included among the absent.
WalkAgrees == /\ GetAll(tip, DbGetAll) = Found(TipGet)
              /\ GetAll(view, GetAll(tip, DbGetAll)) = Found(ViewGet)

AnswersOf(k) == IF k[1] = "consultation"
                THEN {AnswerKey(a) : a \in {b \in ConsultationAnswer : Parent[b] = k[2]}}
                ELSE {}

DataOf(items) == [k \in Key |-> items[k].data]

Store == INSTANCE DaoStore WITH Answers <- AnswersOf, disk <- DataOf(db),
                                main <- DataOf(TipItems), work <- DataOf(ViewItems)

\* The caches never show, and nor do the lists of answers: with the data each
\* level shows taken for the maps of DaoStore, every behaviour is one of
\* DaoStore. Reads and flushes change nothing, a removed item stays removed at
\* every level, and a consultation takes all its answers with it.
StoreSpec == Store!Spec
=============================================================================
