---------------------------- MODULE Consultations ----------------------------
(***************************************************************************)
(* Consultations of the DAO. A consultation asks for a number of a range,  *)
(* for one of several answers, or for a new value of a consensus           *)
(* parameter. Stakers support it (or its answers), it rests for a time of  *)
(* reflection, is voted, and ends; an answer about a consensus parameter   *)
(* that gets the quorum changes the parameter for the blocks that follow.  *)
(* The rules of voting are consensus parameters themselves.                *)
(*                                                                         *)
(* ConnectBlock (main.cpp) adds consultations and answers and records      *)
(* support and votes, VoteStep (consensus/dao.cpp) counts and decides;     *)
(* DisconnectBlock and VoteStep with fUndo take a block back.              *)
(*                                                                         *)
(* A block is identified by the contents of the chain up to it. Items have *)
(* every version bit their kind allows. vAnswers of a consultation is the  *)
(* set of the answers in the view that name it as parent.                  *)
(***************************************************************************)
EXTENDS Integers, Sequences, SequencesExt, FiniteSets, FiniteSetsExt, Functions

CONSTANTS ItemSeq,           \* consultations and answers, in the order of their hashes
          About,             \* consultation -> "range", "answers" or a parameter
          ParentOf,          \* answer -> consultation
          Value,             \* answer -> the value it proposes
          Inline,            \* consultation -> the answers its transaction brings
          RangeVotes,        \* the numbers a range consultation may get
          MinSupport, AnswerMinSupport, \* percent of the cycle's blocks
          ConsensusMinAccept,           \* nConsensusChangeMinAccept, percent
          Settings           \* the networks: parameters, first blocks, bounds

Consultation == DOMAIN About
Answer == DOMAIN ParentOf
Item == Consultation \cup Answer

\* The consensus parameters that rule consultations.
Parameter == {"cycleLength", "minCycles", "maxSupport", "maxVoting", "reflection"}

ASSUME ConsultationAssumption ==
    /\ Consultation \cap Answer = {}
    /\ ToSet(ItemSeq) = Item
    /\ About \in [Consultation -> {"range", "answers"} \cup Parameter]
    /\ ParentOf \in [Answer -> Consultation]
    /\ Value \in [Answer -> Nat]
    /\ \A c \in Consultation : \A a \in Inline[c] : ParentOf[a] = c
    /\ 2 * ConsensusMinAccept > 100
    /\ \A s \in Settings : /\ s.default \in [Parameter -> Nat \ {0}]
                          /\ s.default.minCycles <= s.default.maxSupport
                          /\ s.default.maxSupport <= s.default.maxVoting + 1

VARIABLES setting,   \* the network the node runs on; never changes
          chain,     \* the active chain: blocks above genesis, as connected
          items,     \* consultations and answers of the view, by hash
          params,    \* CConsensusParameter: parameter -> height -> value
          count      \* mapCache...ToUpdate, nCacheExclude, lastConsensusStateHash

vars == <<setting, chain, items, params, count>>

-----------------------------------------------------------------------------
\* Blocks.

Vote == RangeVotes \cup {"yes", "abs"}

AtMostOne(S) == {T \in SUBSET S : Cardinality(T) <= 1}

\* What a block brings: whether its nNonce excludes it from voting, support,
\* votes and the new items of its transactions, in their order. Bound: one of
\* these at most, and of new items what a setting offers.
BlockContent ==
    {c \in [exclude : BOOLEAN,
            support : AtMostOne(Item),
            votes : UNION {[T -> Vote] : T \in AtMostOne(Item)},
            create : {<<>>} \cup UNION {s.offer : s \in Settings}] :
        Cardinality(c.support) + Cardinality(DOMAIN c.votes) + (IF c.create = <<>> THEN 0 ELSE 1)
            + (IF c.exclude THEN 1 ELSE 0) <= 1}

Id(blocks) == [i \in DOMAIN blocks |-> blocks[i].content]

-----------------------------------------------------------------------------
\* Consensus parameters: the network's value until a decision replaces it.

GetConsensusParameter(view, p) ==
    LET list == view.params[p]
    IN  IF list = <<>> THEN view.default[p] ELSE list[Max(DOMAIN list)]

CycleLength(view) == GetConsensusParameter(view, "cycleLength")
Cycle(view, height) == height \div CycleLength(view)

-----------------------------------------------------------------------------
\* Items: CConsultation and CConsultationAnswer.

NewItem(i, height) ==
    IF i \in Consultation
    THEN [born |-> height, state |-> <<>>, support |-> 0, votes |-> <<>>, cycle |-> 0, exclude |-> 0]
    ELSE [born |-> height, state |-> <<>>, support |-> 0, votes |-> 0, exclude |-> 0]

GetLastState(x) ==
    IF DOMAIN x.state = {} THEN "NIL"
    ELSE x.state[CHOOSE b \in DOMAIN x.state : \A c \in DOMAIN x.state : Len(b) >= Len(c)]

LastStateHeight(x, s) == Max({Len(b) : b \in {c \in DOMAIN x.state : x.state[c] = s}})

SetState(x, block, s) == [x EXCEPT !.state = (block :> s) @@ @]
ClearState(x, block) == [x EXCEPT !.state = Restrict(@, DOMAIN @ \ {block})]

HasState(view, i, states) == i \in DOMAIN view.items /\ GetLastState(view.items[i]) \in states

IsFinished(x) == GetLastState(x) \in {"EXPIRED", "PASSED"}

IsRange(c) == About[c] = "range"
IsAboutConsensusParameter(c) == About[c] \in Parameter

\* An answer's support counts also after it has been accepted.
AnswerIsSupported(view, a) ==
    view.items[a].support * 100 >= CycleLength(view) * AnswerMinSupport

HaveEnoughAnswers(view, c) ==
    Cardinality({a \in Answer \cap DOMAIN view.items : ParentOf[a] = c /\ AnswerIsSupported(view, a)})
        >= (IF IsAboutConsensusParameter(c) THEN 1 ELSE 2)

ConsultationIsSupported(view, c) ==
    IF IsRange(c) THEN view.items[c].support * 100 > CycleLength(view) * MinSupport
    ELSE HaveEnoughAnswers(view, c)

CanMoveInReflection(view, c) ==
    view.items[c].cycle >= GetConsensusParameter(view, "minCycles")

IsReflectionOver(view, c, height) ==
    Cycle(view, height) - Cycle(view, LastStateHeight(view.items[c], "REFLECTION"))
        >= GetConsensusParameter(view, "reflection")

\* Mutant: a consultation in voting has no end.
IsExpiredNotVoted(view, c, height) ==
    \/ HasState(view, c, {"EXPIRED"})
    \/ HasState(view, c, {"NIL"}) /\ view.items[c].cycle >= GetConsensusParameter(view, "maxSupport")

\* IsExpired: the voting cycles, or those to find support, are over.
IsExpired(view, c, height) ==
    IF HasState(view, c, {"ACCEPTED"})
    THEN Cycle(view, height) - Cycle(view, LastStateHeight(view.items[c], "ACCEPTED"))
             >= GetConsensusParameter(view, "maxVoting")
    ELSE \/ HasState(view, c, {"EXPIRED"})
         \/ HasState(view, c, {"NIL"}) /\ view.items[c].cycle >= GetConsensusParameter(view, "maxSupport")

\* CanBeSupported, of consultations and of answers.
CanBeSupported(view, i) ==
    /\ HasState(view, i, {"NIL"})
    /\ IF i \in Consultation THEN IsRange(i) ELSE HasState(view, ParentOf[i], {"NIL", "SUPPORTED"})

\* CanBeVoted and IsValidVote, of consultations and of answers.
CanBeVoted(view, i, v) ==
    /\ HasState(view, i, {"ACCEPTED"})
    /\ IF i \in Consultation
       THEN v = "abs" \/ (IsRange(i) /\ v \in RangeVotes)
       ELSE v \in {"yes", "abs"} /\ HasState(view, ParentOf[i], {"ACCEPTED"})

IsConsensusAccepted(view, a) ==
    view.items[a].votes * 100 >= (CycleLength(view) - view.items[a].exclude) * ConsensusMinAccept

CanHaveNewAnswers(view, c) == HasState(view, c, {"NIL", "SUPPORTED"}) /\ ~IsRange(c)

-----------------------------------------------------------------------------
\* Which items a block may bring.

\* An unfinished consultation about the parameter. One of the block that is
\* being connected at this height is passed over: its block is in mapBlockIndex
\* and not yet in chainActive.
Active(view, p, height) ==
    \E c \in Consultation \cap DOMAIN view.items :
        view.items[c].born < height /\ About[c] = p /\ ~IsFinished(view.items[c])

\* Mutant: the two bounds may be voted at the same time.
IsValidProposalAlone(view, p, value, height) ==
    /\ value > 0
    /\ p = "minCycles" => value <= GetConsensusParameter(view, "maxSupport")
    /\ p = "maxSupport" => value >= GetConsensusParameter(view, "minCycles")
    /\ value # GetConsensusParameter(view, p)

\* IsValidConsensusParameterProposal: minCycles stays within maxSupport, and
\* the two are not voted at the same time.
IsValidConsensusParameterProposal(view, p, value, height) ==
    /\ value > 0
    /\ p = "minCycles" => /\ value <= GetConsensusParameter(view, "maxSupport")
                          /\ ~Active(view, "maxSupport", height)
    /\ p = "maxSupport" => /\ value >= GetConsensusParameter(view, "minCycles")
                           /\ ~Active(view, "minCycles", height)
    /\ value # GetConsensusParameter(view, p)

IsValidConsultation(view, c, height) ==
    IsAboutConsensusParameter(c) =>
        /\ ~Active(view, About[c], height)
        /\ \A a \in Inline[c] : IsValidConsensusParameterProposal(view, About[c], Value[a], height)

IsValidConsultationAnswer(view, a, height) ==
    /\ ParentOf[a] \in DOMAIN view.items
    /\ ~IsRange(ParentOf[a])
    /\ IsAboutConsensusParameter(ParentOf[a]) =>
         IsValidConsensusParameterProposal(view, About[ParentOf[a]], Value[a], height)

IsValidItem(view, i, height) ==
    /\ i \notin DOMAIN view.items
    /\ IF i \in Consultation THEN IsValidConsultation(view, i, height)
       ELSE IsValidConsultationAnswer(view, i, height)

\* What a valid transaction adds to the view: an answer to a consultation that
\* takes no more answers adds nothing.
Added(view, i) ==
    IF i \in Consultation THEN {i} \cup Inline[i]
    ELSE IF CanHaveNewAnswers(view, ParentOf[i]) THEN {i} ELSE {}

Add(view, i, height) == [view EXCEPT !.items = [j \in Added(view, i) |-> NewItem(j, height)] @@ @]

AddAll(view, s, height) == FoldLeft(LAMBDA v, i : Add(v, i, height), view, s)

\* The transactions of a block are looked at and applied one after the other.
Valid(view, content, height) ==
    \A k \in DOMAIN content.create :
        IsValidItem(AddAll(view, SubSeq(content.create, 1, k - 1), height), content.create[k], height)

-----------------------------------------------------------------------------
\* VoteStep.

Bump(f, k) == IF k \in DOMAIN f THEN [f EXCEPT ![k] = @ + 1] ELSE (k :> 1) @@ f

\* An abstention for an answer is one for its consultation.
Ballot(i, v) == IF i \in Answer /\ v = "abs" THEN <<ParentOf[i], v>> ELSE <<i, v>>

\* Adding one block to the counts of the cycle; an excluded block only lowers
\* the quorum.
CountBlock(n, block) ==
    IF block.content.exclude THEN [n EXCEPT !.excluded = @ + 1]
    ELSE [n EXCEPT !.support = FoldSet(LAMBDA i, f : Bump(f, i), @, block.support),
                   !.votes = FoldSet(LAMBDA i, f : Bump(f, Ballot(i, block.votes[i])), @,
                                     DOMAIN block.votes)]

ParameterValues(view) == [p \in Parameter |-> GetConsensusParameter(view, p)]

ZeroCount == [support |-> <<>>, votes |-> <<>>, excluded |-> 0, last |-> <<>>]

\* The cycle is counted again on an undo, when a parameter has changed, at the
\* first block of a cycle and when nothing is cached.
ScansWholeCycle(view, blocks, n, undo) ==
    \/ undo
    \/ n.last # ParameterValues(view)
    \/ Len(blocks) % CycleLength(view) = 0
    \/ n.support = <<>> /\ n.votes = <<>>

CycleBlocks(view, blocks) ==
    SubSeq(blocks, Max({1, Len(blocks) - (Len(blocks) % CycleLength(view))}), Len(blocks))

CountVotes(view, blocks, n, undo) ==
    LET counted == IF ScansWholeCycle(view, blocks, n, undo)
                   THEN FoldLeft(CountBlock, ZeroCount, CycleBlocks(view, blocks))
                   ELSE CountBlock(n, Last(blocks))
    IN  [counted EXCEPT !.last = ParameterValues(view)]

\* The cycles since an item was created, as far as they are counted.
VotingCycle(view, x, height) ==
    Min({Cycle(view, height) - Cycle(view, x.born), GetConsensusParameter(view, "maxVoting") + 1})

\* The item gets the cycle of the block that is the tip then.
WithCycle(view, i, x, height) ==
    IF i \in Consultation /\ ~IsFinished(x) THEN [x EXCEPT !.cycle = VotingCycle(view, x, height)] ELSE x

\* Mutant: the decisions of the deleted block stay.
UndoItemKeepsState(view, i, height, deleted) ==
    [view EXCEPT !.items[i] = WithCycle(view, i, @, height)]

\* Taking back what the deleted block decided about an item.
UndoItem(view, i, height, deleted) ==
    [view EXCEPT !.items[i] = WithCycle(view, i, ClearState(@, deleted), height)]

\* The items of a set that the view has, in the order of their hashes.
InOrder(view, S) == SelectSeq(ItemSeq, LAMBDA i : i \in S \cap DOMAIN view.items)

\* acc is the view with the items whose support and whose votes were written.
WriteSupport(acc, view, n, i) ==
    IF CanBeSupported(view, i)
    THEN [acc EXCEPT !.view = [view EXCEPT !.items[i].support = n.support[i]],
                     !.seenSupport = @ \cup {i}]
    ELSE [acc EXCEPT !.view = view]

\* The counts of an item that can be voted; a whole count replaces the votes a
\* consultation had.
NewVotes(i, old, new, scanning) ==
    IF i \in Answer THEN new["yes"] ELSE IF scanning THEN new ELSE new @@ old

WriteBallots(acc, view, new, i, scanning) ==
    IF new = <<>> THEN [acc EXCEPT !.view = view]
    ELSE [acc EXCEPT !.view = [view EXCEPT !.items[i].votes = NewVotes(i, @, new, scanning)],
                     !.seen = @ \cup {i}]

Ballots(view, n, i) ==
    [v \in {w \in Vote : <<i, w>> \in DOMAIN n.votes /\ CanBeVoted(view, i, w)} |-> n.votes[<<i, v>>]]

\* Support is written for all items first, then the votes.
WriteVotes(view, n, scanning, undo, height, deleted) ==
    LET Undone(acc, i) == IF undo THEN UndoItem(acc.view, i, height, deleted) ELSE acc.view
        Support(acc, i) == WriteSupport(acc, Undone(acc, i), n, i)
        Write(acc, i, v) == WriteBallots(acc, v, Ballots(v, n, i), i, scanning)
        Votes(acc, i) == Write(acc, i, Undone(acc, i))
    IN  FoldLeft(Votes,
                 FoldLeft(Support, [view |-> view, seenSupport |-> {}, seen |-> {}, change |-> <<>>],
                          InOrder(view, DOMAIN n.support)),
                 InOrder(view, {b[1] : b \in DOMAIN n.votes}))

WriteExclude(view, n) ==
    [view EXCEPT !.items =
        [i \in DOMAIN @ |->
            IF IF i \in Consultation THEN HasState(view, i, {"ACCEPTED"}) ELSE CanBeVoted(view, i, "yes")
            THEN [@[i] EXCEPT !.exclude = n.excluded] ELSE @[i]]]

Moved(acc, i, block, s) == [acc EXCEPT !.view.items[i] = SetState(@, block, s)]

\* The end of a cycle for an answer. acc.change collects the parameters to
\* change: of two answers the first stays.
EndAnswer(acc, a, old, passes, block) ==
    CASE passes /\ old # "PASSED" ->
            [Moved(acc, a, block, "PASSED") EXCEPT !.change = @ @@ (About[ParentOf[a]] :> Value[a])]
      [] ~(passes /\ old # "PASSED") /\ AnswerIsSupported(acc.view, a) /\ old = "NIL" ->
            Moved(acc, a, block, "ACCEPTED")
      [] OTHER -> acc

DecideAnswer(acc, a, block) ==
    IF (Len(block) + 1) % CycleLength(acc.view) # 0 THEN acc
    ELSE EndAnswer(acc, a, GetLastState(acc.view.items[a]),
                   /\ IsConsensusAccepted(acc.view, a)
                   /\ ParentOf[a] \in DOMAIN acc.view.items
                   /\ IsAboutConsensusParameter(ParentOf[a]), block)

\* The end of a cycle for a consultation, after the answers.
EndConsultation(acc, c, old, expired, supported, block) ==
    CASE expired /\ old # "EXPIRED" -> Moved(acc, c, block, "EXPIRED")
      [] ~expired /\ old = "ACCEPTED" /\ About[c] \in DOMAIN acc.change -> Moved(acc, c, block, "PASSED")
      [] ~expired /\ supported /\ old = "NIL" -> Moved(acc, c, block, "SUPPORTED")
      [] ~expired /\ supported /\ old = "SUPPORTED" /\ CanMoveInReflection(acc.view, c) ->
            Moved(acc, c, block, "REFLECTION")
      [] ~expired /\ supported /\ old = "REFLECTION" /\ IsReflectionOver(acc.view, c, Len(block)) ->
            Moved(acc, c, block, "ACCEPTED")
      [] OTHER -> acc

EndCycle(acc, c, block) ==
    IF (Len(block) + 1) % CycleLength(acc.view) # 0 THEN acc
    ELSE EndConsultation(acc, c, GetLastState(acc.view.items[c]), IsExpired(acc.view, c, Len(block)),
                         ConsultationIsSupported(acc.view, c), block)

DecideItem(acc, i, block, undo, deleted) ==
    CASE undo -> [acc EXCEPT !.view = UndoItem(@, i, Len(block), deleted)]
      [] ~undo /\ i \in Answer -> DecideAnswer(acc, i, block)
      [] OTHER -> EndCycle([acc EXCEPT !.view.items[i] = WithCycle(acc.view, i, @, Len(block))], i, block)

\* The answers in order, then the consultations.
Decide(acc, block, undo, deleted) ==
    FoldLeft(LAMBDA x, i : DecideItem(x, i, block, undo, deleted), acc,
             InOrder(acc.view, Answer) \o InOrder(acc.view, Consultation))

\* After a whole count: what can be supported or voted and got nothing is reset.
ResetConsultation(acc, view, c, x) ==
    [x EXCEPT !.support = IF CanBeSupported(view, c) /\ c \notin acc.seenSupport THEN 0 ELSE @,
              !.votes = IF /\ HasState(view, c, {"ACCEPTED"})
                           /\ "abs" \in DOMAIN @ \/ IsRange(c)
                           /\ c \notin acc.seen
                        THEN <<>> ELSE @]

ResetAnswer(acc, view, a, x) ==
    IF a \in acc.seen THEN x ELSE
    [x EXCEPT !.support = IF CanBeSupported(view, a) /\ a \notin acc.seenSupport THEN 0 ELSE @,
              !.votes = IF HasState(view, ParentOf[a], {"ACCEPTED"}) THEN 0 ELSE @]

ResetUnseen(acc, view) ==
    [view EXCEPT !.items =
        [i \in DOMAIN @ |-> IF i \in Consultation THEN ResetConsultation(acc, view, i, @[i])
                            ELSE ResetAnswer(acc, view, i, @[i])]]

ChangeParameters(view, change, height) ==
    [view EXCEPT !.params =
        [p \in Parameter |-> IF p \in DOMAIN change THEN (height :> change[p]) @@ @[p] ELSE @[p]]]

\* VoteStep after the count.
DecideCounted(view, blocks, n, scanning, undo, deleted) ==
    LET Excluded(acc) == [acc EXCEPT !.view = WriteExclude(@, n)]
        Concluded(acc) == ChangeParameters(IF scanning THEN ResetUnseen(acc, acc.view) ELSE acc.view,
                                           acc.change, Len(blocks))
        written == WriteVotes(view, n, scanning, undo, Len(blocks), deleted)
    IN  [chain |-> blocks, count |-> n,
         view |-> Concluded(Decide(Excluded(written), Id(blocks), undo, deleted))]

\* VoteStep for the chain 'blocks' that ends in pindexNew.
VoteStep(view, blocks, n, undo, deleted) ==
    DecideCounted(view, blocks, CountVotes(view, blocks, n, undo),
                  ScansWholeCycle(view, blocks, n, undo), undo, deleted)

-----------------------------------------------------------------------------
\* ConnectBlock and DisconnectBlock.

\* The support and the votes a block has on record: those that count.
Recorded(view, content) ==
    [content |-> content,
     support |-> {i \in content.support : CanBeSupported(view, i)},
     votes |-> Restrict(content.votes,
                   {i \in DOMAIN content.votes : CanBeVoted(view, i, content.votes[i])})]

\* States of the model: s.chain, s.view and s.count.
ConnectRecorded(s, blocks, content) ==
    VoteStep(AddAll(s.view, content.create, Len(blocks)), blocks, s.count, FALSE, <<>>)

Connected(s, content) == ConnectRecorded(s, Append(s.chain, Recorded(s.view, content)), content)

\* The answers of a consultation go with it.
Removed(view, content) ==
    UNION {IF i \in Consultation THEN {i} \cup {a \in Answer : ParentOf[a] = i} ELSE {i} :
              i \in ToSet(content.create)}

\* Bound: the width of a vote counter, instead of 2^64.
Word == 2^16

\* A vote is taken off the counter it was recorded for. A counter of the
\* consultation's map that reaches zero is erased; the subtraction is unsigned
\* and wraps around for a counter that is not there. An answer's counter is a
\* signed int.
TakeVote(x, i, v) ==
    IF i \in Answer THEN [x EXCEPT !.votes = @ - 1]
    ELSE [x EXCEPT !.votes =
             CASE v \notin DOMAIN @ -> (v :> Word - 1) @@ @
               [] v \in DOMAIN @ /\ @[v] = 1 -> Restrict(@, DOMAIN @ \ {v})
               [] OTHER -> [@ EXCEPT ![v] = (@ - 1) % Word]]

\* Mutant: the parameters keep what the block decided.
ClearParametersNot(ps, height) == ps

ClearParameters(ps, height) ==
    [p \in Parameter |-> Restrict(ps[p], DOMAIN ps[p] \ {height})]

TakeSupport(x, block, i) == IF i \in block.support THEN [x EXCEPT !.support = Max({@ - 1, 0})] ELSE x

TakeVotes(x, block, i) == IF i \in DOMAIN block.votes THEN TakeVote(x, i, block.votes[i]) ELSE x

DisconnectBlock(view, block, height) ==
    [view EXCEPT !.items = [i \in DOMAIN @ \ Removed(view, block.content) |->
                               TakeVotes(TakeSupport(@[i], block, i), block, i)],
                 !.params = ClearParameters(@, height)]

Disconnected(s) ==
    VoteStep(DisconnectBlock(s.view, Last(s.chain), Len(s.chain)), Front(s.chain), s.count,
             TRUE, Id(s.chain))

-----------------------------------------------------------------------------
View == [items |-> items, params |-> params, default |-> setting.default]
State == [chain |-> chain, view |-> View, count |-> count]

Becomes(s) == /\ chain' = s.chain
              /\ items' = s.view.items
              /\ params' = s.view.params
              /\ count' = s.count
              /\ UNCHANGED setting

Genesis(default) ==
    [chain |-> <<>>, count |-> ZeroCount,
     view |-> [items |-> <<>>, params |-> [p \in Parameter |-> <<>>], default |-> default]]

\* What a node that connects these blocks and never disconnects one arrives at.
Replay(default, contents) == FoldLeft(Connected, Genesis(default), contents)

Init == /\ setting \in Settings
        /\ LET s == Replay(setting.default, setting.prefix)
           IN  /\ chain = s.chain
               /\ items = s.view.items
               /\ params = s.view.params
               /\ count = s.count

\* Bounds: the chain's height, the items on offer, and that some block of a
\* cycle is not excluded. Support and votes that are ignored are left out.
ConnectTip(content) ==
    /\ Len(chain) < setting.maxHeight
    /\ content.create \in {<<>>} \cup setting.offer
    /\ content.exclude /\ (Len(chain) + 2) % CycleLength(View) = 0 =>
         \E b \in ToSet(CycleBlocks(View, Append(chain, [content |-> content]))) : ~b.content.exclude
    /\ \A i \in content.support : CanBeSupported(View, i)
    /\ \A i \in DOMAIN content.votes : CanBeVoted(View, i, content.votes[i])
    /\ Valid(View, content, Len(chain) + 1)
    /\ Becomes(Connected(State, content))

DisconnectTip == /\ Len(chain) > Len(setting.prefix)
                 /\ Becomes(Disconnected(State))

\* A restart that verifies no blocks: the cached counts are lost.
Restart == /\ count # ZeroCount
           /\ Becomes([State EXCEPT !.count = ZeroCount])

Next == \/ \E content \in BlockContent : ConnectTip(content)
        \/ DisconnectTip
        \/ Restart

Spec == Init /\ [][Next]_vars

-----------------------------------------------------------------------------
\* Properties.

\* What decisions depend on: of nExclude only the quorum of the answers.
Decisive(view) ==
    [i \in DOMAIN view.items |->
        [view.items[i] EXCEPT !.exclude = i \in Answer /\ IsConsensusAccepted(view, i)]]

\* A reorganization leaves no trace that matters: after every block the
\* consultations, the answers and the consensus parameters are those of a node
\* that connected the same blocks and never disconnected one or restarted,
\* although VoteStep counts from its caches, undoes out of order and clears
\* votes.
ReorgLeavesNoTrace ==
    [][Len(chain') > Len(chain) =>
         \E s \in {Replay(setting.default, Id(chain'))} :
             Decisive(View') = Decisive(s.view) /\ params' = s.view.params]_vars

BothInOneBlock ==
    \E c, d \in Consultation \cap DOMAIN items :
        About[c] = "minCycles" /\ About[d] = "maxSupport" /\ items[c].born = items[d].born

\* The cycles a consultation must wait stay within those it has to find
\* support: IsValidConsensusParameterProposal compares a value with the other
\* bound of the day it is proposed, and the change comes cycles later, so that
\* the two may not be voted at the same time. Not so when consultations about
\* both came in one block, where neither sees the other, and not after a change
\* of the cycle length, which can raise the frozen votes of an expired
\* consultation's answer above the quorum.
MinWithinMax ==
    params["cycleLength"] = <<>> /\ ~BothInOneBlock =>
        GetConsensusParameter(View, "minCycles") <= GetConsensusParameter(View, "maxSupport")

\* Every change of a consensus parameter is the decision of a block of the
\* active chain: a consultation about that parameter has an answer with that
\* value that passed there.
ChangesAreDecided ==
    \A p \in Parameter : \A h \in DOMAIN params[p] :
        /\ h <= Len(chain)
        /\ \E a \in Answer \cap DOMAIN items :
              /\ About[ParentOf[a]] = p
              /\ Value[a] = params[p][h]
              /\ \E b \in DOMAIN items[a].state :
                    /\ items[a].state[b] = "PASSED"
                    /\ b = SubSeq(Id(chain), 1, h)

\* A consultation ends: while the rules stay the same, the next block of one
\* that is open lies within the cycles of support, reflection and voting.
ConsultationsEnd ==
    (\A p \in Parameter : params[p] = <<>>) =>
        \A c \in Consultation \cap DOMAIN items :
            IsFinished(items[c]) \/ Cycle(View, Len(chain) + 1) - Cycle(View, items[c].born)
                <= setting.default["maxSupport"] + setting.default["reflection"] + setting.default["maxVoting"]
=============================================================================
