---------------------------- MODULE CommunityFund ----------------------------
(***************************************************************************)
(* The community fund: proposals ask for an amount, stakers vote for them  *)
(* in the blocks they mint, an accepted proposal has its amount moved from *)
(* the fund's free supply to its locked part, payment requests against it  *)
(* are voted in turn, and an accepted request is paid by a later coinbase. *)
(*                                                                         *)
(* ConnectBlock (main.cpp) adds items, records votes and pays;             *)
(* VoteStep (consensus/dao.cpp) then counts the votes of the cycle and, at *)
(* the end of a cycle, decides. DisconnectBlock and VoteStep with fUndo    *)
(* take a block back. The tallies of the running cycle are cached in       *)
(* globals between calls (mapCacheProposalsToUpdate and its like) and are  *)
(* rebuilt from the blocks when they may be wrong.                         *)
(*                                                                         *)
(* A block is identified by the contents of the chain up to it: blocks     *)
(* with the same contents and ancestors are the same block, and no others. *)
(* Block time is height. All items have every version bit set.             *)
(***************************************************************************)
EXTENDS Integers, Sequences, SequencesExt, FiniteSets, FiniteSetsExt, Functions

CONSTANTS ProposalSeq,      \* proposals, in the order of their hashes
          RequestSeq,       \* payment requests, in the order of their hashes
          ParentOf,         \* request -> proposal (proposalhash)
          Amount,           \* nAmount of proposals and requests
          Deadline,         \* nDeadline of proposals
          VoteValue,        \* the votes cast: a subset of {"yes", "no", "abs"}
          Settings,         \* the settings considered
          MaxVotingCycles,  \* CONSENSUS_PARAM_..._MAX_VOTING_CYCLES
          QuorumFirstHalf, QuorumSecondHalf,  \* percent of the cycle's blocks
          MinAccept, MinReject,               \* percent of the votes
          MinAge,           \* nCommunityFundMinAge
          CheckLevel,       \* the levels VerifyDB is run with, of 0..4
          CheckBlocks,      \* how many blocks it takes back
          MaxEvents         \* bound: what one block brings

Proposal == ToSet(ProposalSeq)
Request == ToSet(RequestSeq)
Item == Proposal \cup Request

ASSUME FundAssumption ==
    /\ Proposal \cap Request = {}
    /\ ParentOf \in [Request -> Proposal]
    /\ Amount \in [Item -> Nat \ {0}]
    /\ Deadline \in [Proposal -> Nat \ {0}]
    /\ VoteValue \subseteq {"yes", "no", "abs"}
    /\ \A s \in Settings : /\ s.items \subseteq Item
                           /\ s.donation \subseteq Nat \ {0}
                           /\ s.cycleLength \in Nat \ {0, 1}
                           /\ Len(s.prefix) <= s.maxHeight
    /\ CheckLevel \subseteq 0..4
    /\ CheckBlocks \subseteq Nat
    /\ MinAccept + MinReject >= 100

VARIABLES setting,   \* the network's parameters and the bounds of this behaviour
          chain,     \* the active chain: blocks above genesis, as connected
          items,     \* the proposals and requests in the view, by hash
          tally,     \* mapCache...ToUpdate: votes counted in this cycle, by hash
          excluded   \* nCacheExclude

vars == <<setting, chain, items, tally, excluded>>

\* CONSENSUS_PARAM_VOTING_CYCLE_LENGTH, the contents of the blocks every chain
\* starts with, and the height it does not grow past. (A setting also has the
\* items that may be created and the amounts a block may add to the fund.)
CycleLength == setting.cycleLength
Prefix == setting.prefix
MaxHeight == setting.maxHeight

-----------------------------------------------------------------------------
\* Chains and blocks.

\* What a block brings: whether its nNonce excludes it from voting, its votes,
\* the item it creates, the requests its coinbase pays, what it donates.
Content(s) ==
    [exclude : BOOLEAN,
     votes : UNION {[S -> VoteValue] : S \in {T \in SUBSET s.items : Cardinality(T) <= 1}},
     create : SUBSET s.items,
     pay : SUBSET (s.items \cap Request),
     donate : s.donation \cup {0}]

\* Bound: a block brings at most MaxEvents of these.
Events(c) == Cardinality(DOMAIN c.votes) + Cardinality(c.create) + Cardinality(c.pay)
             + (IF c.donate > 0 THEN 1 ELSE 0) + (IF c.exclude THEN 1 ELSE 0)
BlockContent == [s \in Settings |-> {c \in Content(s) : Events(c) <= MaxEvents}]

Id(blocks) == [i \in DOMAIN blocks |-> blocks[i].content]
Cycle(height) == height \div CycleLength
IsEndCycle(height) == (height + 1) % CycleLength = 0

GenesisFund == [supply |-> 0, locked |-> 0]
FundAt(blocks) == IF blocks = <<>> THEN GenesisFund ELSE Last(blocks).fund

-----------------------------------------------------------------------------
\* Items: CProposal and CPaymentRequest.

NoVotes == [yes |-> 0, no |-> 0, abs |-> 0]
NewItem(height) == [born |-> height, state |-> <<>>, votes |-> NoVotes,
                    cycle |-> 0, exclude |-> 0]

\* GetLastState: mapState's entry for the highest block.
GetLastState(x) ==
    IF DOMAIN x.state = {} THEN "NIL"
    ELSE x.state[CHOOSE b \in DOMAIN x.state : \A c \in DOMAIN x.state : Len(b) >= Len(c)]

LastStateHeight(x, s) == Max({Len(b) : b \in {c \in DOMAIN x.state : x.state[c] = s}})

SetState(x, block, s) == [x EXCEPT !.state = (block :> s) @@ @]
ClearState(x, block) == [x EXCEPT !.state = Restrict(@, DOMAIN @ \ {block})]

HasState(view, i, states) == i \in DOMAIN view /\ GetLastState(view[i]) \in states

\* Mutant: open requests never count.
GetAvailableIgnoringOpen(view, p, includeRequests) ==
    Amount[p] - MapThenSumSet(LAMBDA r : Amount[r],
                    {r \in Request : ParentOf[r] = p /\ HasState(view, r, {"ACCEPTED", "PAID"})})

\* GetAvailable: what a proposal has left; with fIncludeRequests undecided
\* requests count as spent too.
GetAvailable(view, p, includeRequests) ==
    LET spent == IF includeRequests THEN {"NIL", "ACCEPTED", "PAID"} ELSE {"ACCEPTED", "PAID"}
    IN  Amount[p] - MapThenSumSet(LAMBDA r : Amount[r],
                        {r \in Request : ParentOf[r] = p /\ HasState(view, r, spent)})

\* Mutant: a decided item is still counted.
CanVoteDecided(view, i) ==
    /\ i \in DOMAIN view
    /\ i \in Request =>
         /\ Amount[i] <= GetAvailable(view, ParentOf[i], FALSE)
         /\ HasState(view, ParentOf[i], {"ACCEPTED", "PENDING_VOTING_PREQ"})

\* CanVote: undecided and, for a request, its proposal can still pay it.
CanVote(view, i) ==
    /\ HasState(view, i, {"NIL"})
    /\ i \in Request =>
         /\ Amount[i] <= GetAvailable(view, ParentOf[i], FALSE)
         /\ HasState(view, ParentOf[i], {"ACCEPTED", "PENDING_VOTING_PREQ"})

HasPendingPaymentRequests(view, p) ==
    \E r \in Request : ParentOf[r] = p /\ CanVote(view, r)

\* IsAccepted and IsRejected, of proposals and of requests.
Total(x) == x.votes.yes + x.votes.no + x.votes.abs
HasQuorum(x) ==
    Total(x) * 100 > (CycleLength - x.exclude)
        * (IF x.cycle > MaxVotingCycles \div 2 THEN QuorumSecondHalf ELSE QuorumFirstHalf)
IsAccepted(x) == HasQuorum(x) /\ x.votes.yes * 100 > Total(x) * MinAccept
IsRejected(x) == HasQuorum(x) /\ x.votes.no * 100 > Total(x) * MinReject

\* Mutant: one cycle more than nVotingCycle ever counts.
ExceededMaxVotingCyclesLate(x) == x.cycle > MaxVotingCycles + 1

ExceededMaxVotingCycles(x) == x.cycle > MaxVotingCycles

RequestIsExpired(x) ==
    ExceededMaxVotingCycles(x) /\ GetLastState(x) \notin {"ACCEPTED", "REJECTED", "PAID"}

ProposalIsExpired(x, p, now) ==
    CASE GetLastState(x) = "ACCEPTED" -> LastStateHeight(x, "ACCEPTED") + Deadline[p] < now
      [] GetLastState(x) \in {"EXPIRED", "PENDING_VOTING_PREQ"} -> TRUE
      [] GetLastState(x) = "NIL" -> ExceededMaxVotingCycles(x)
      [] OTHER -> FALSE

-----------------------------------------------------------------------------
\* VoteStep.

\* Adding one block's votes to the counts of the cycle: an excluded block only
\* lowers the quorum.
CountBlock(count, block) ==
    IF block.content.exclude
    THEN [count EXCEPT !.excluded = @ + 1]
    ELSE [count EXCEPT !.tally =
             [i \in DOMAIN @ \cup DOMAIN block.votes |->
                 LET old == IF i \in DOMAIN @ THEN @[i] ELSE NoVotes
                 IN  IF i \in DOMAIN block.votes
                     THEN [old EXCEPT ![block.votes[i]] = @ + 1]
                     ELSE old]]

ZeroCount == [tally |-> <<>>, excluded |-> 0]

\* Mutant: an undo only adds the block it ends at.
ScansWholeCycleNotOnUndo(blocks, count, undo) ==
    Len(blocks) % CycleLength = 0 \/ DOMAIN count.tally = {}

\* Mutant: a new cycle goes on counting.
ScansWholeCycleNotOnNewCycle(blocks, count, undo) == undo \/ DOMAIN count.tally = {}

\* On an undo, at the first block of a cycle and with nothing cached the whole
\* cycle is counted again; otherwise only the new block is added.
ScansWholeCycle(blocks, count, undo) ==
    undo \/ Len(blocks) % CycleLength = 0 \/ DOMAIN count.tally = {}

CycleBlocks(blocks) ==
    SubSeq(blocks, Max({1, Len(blocks) - (Len(blocks) % CycleLength)}), Len(blocks))

CountVotes(blocks, count, undo) ==
    IF ScansWholeCycle(blocks, count, undo)
    THEN FoldLeft(CountBlock, ZeroCount, CycleBlocks(blocks))
    ELSE CountBlock(count, Last(blocks))

\* The cycle an undecided item is in, seen from a block.
VotingCycle(x, height, limit) == Min({Cycle(height) - Cycle(x.born), limit + 1})

\* Taking back what the deleted block decided about an item.
UndoItem(x, deleted, height, limit) ==
    LET y == ClearState(x, deleted)
    IN  IF GetLastState(y) = "NIL" THEN [y EXCEPT !.cycle = VotingCycle(y, height, limit)] ELSE y

\* Writing the counts into the items that can be voted, in order.
WriteVotes(view, count, height, undo, deleted) ==
    LET Write(acc, i) ==
            IF i \notin DOMAIN count.tally \cap DOMAIN acc.view THEN acc ELSE
            LET undone == IF undo
                          THEN [acc.view EXCEPT ![i] = UndoItem(@, deleted, height, MaxVotingCycles)]
                          ELSE acc.view
            IN  IF CanVote(undone, i)
                THEN [view |-> [undone EXCEPT ![i].votes = count.tally[i]], seen |-> acc.seen \cup {i}]
                ELSE [acc EXCEPT !.view = undone]
    IN  FoldLeft(Write, [view |-> view, seen |-> {}], ProposalSeq \o RequestSeq)

WriteExclude(view, count) ==
    [i \in DOMAIN view |-> IF CanVote(view, i)
                           THEN [view[i] EXCEPT !.exclude = count.excluded]
                           ELSE view[i]]

\* Mutant: an accepted request leaves the locked part alone.
PayOutNothing(fund, amount) == fund

\* An accepted request's amount leaves the locked part.
PayOut(fund, amount) == [fund EXCEPT !.locked = @ - amount]

\* An accepted proposal locks what it may spend; an expired one gives it back.
Lock(fund, amount) == [supply |-> fund.supply - amount, locked |-> fund.locked + amount]

\* The payment requests: undone, or moved on and at the end of a cycle decided.
DecideRequest(acc, r, block, undo, deleted) ==
    IF r \notin DOMAIN acc.view THEN acc ELSE
    IF undo THEN [acc EXCEPT !.view[r] = UndoItem(@, deleted, Len(block), CycleLength)] ELSE
    LET old == GetLastState(acc.view[r])
        x == IF old = "NIL"
             THEN [acc.view[r] EXCEPT !.cycle = VotingCycle(acc.view[r], Len(block), CycleLength)]
             ELSE acc.view[r]
        To(s) == [acc EXCEPT !.view[r] = SetState(x, block, s)]
        view == [acc.view EXCEPT ![r] = x]
    IN  CASE ~IsEndCycle(Len(block)) -> [acc EXCEPT !.view = view]
          [] RequestIsExpired(x) -> IF old # "EXPIRED" THEN To("EXPIRED") ELSE acc
          [] IsRejected(x) -> IF old # "REJECTED" THEN To("REJECTED") ELSE acc
          [] /\ old = "NIL"
             /\ HasState(view, ParentOf[r], {"ACCEPTED", "PENDING_VOTING_PREQ"})
             /\ IsAccepted(x)
             /\ Amount[r] <= acc.fund.locked
             /\ Amount[r] <= GetAvailable(view, ParentOf[r], FALSE)
               -> [To("ACCEPTED") EXCEPT !.fund = PayOut(@, Amount[r])]
          [] OTHER -> [acc EXCEPT !.view = view]

\* The proposals, after the requests.
DecideProposal(acc, p, block, undo, deleted) ==
    IF p \notin DOMAIN acc.view THEN acc ELSE
    IF undo THEN [acc EXCEPT !.view[p] = UndoItem(@, deleted, Len(block), MaxVotingCycles)] ELSE
    LET old == GetLastState(acc.view[p])
        x == IF old = "NIL"
             THEN [acc.view[p] EXCEPT !.cycle = VotingCycle(acc.view[p], Len(block), MaxVotingCycles)]
             ELSE acc.view[p]
        available == GetAvailable(acc.view, p, FALSE)
        To(s) == [acc EXCEPT !.view[p] = SetState(x, block, s)]
        stay == [acc EXCEPT !.view[p] = x]
    IN  CASE ~IsEndCycle(Len(block)) -> stay
          [] ProposalIsExpired(x, p, Len(block)) ->
               IF old = "EXPIRED" THEN stay
               ELSE IF HasPendingPaymentRequests(acc.view, p) THEN To("PENDING_VOTING_PREQ")
               ELSE IF old \in {"ACCEPTED", "PENDING_VOTING_PREQ"}
               THEN [To("EXPIRED") EXCEPT !.fund = Lock(@, -available)]
               ELSE To("EXPIRED")
          [] IsRejected(x) -> IF old # "REJECTED" THEN To("REJECTED") ELSE stay
          [] IsAccepted(x) /\ old \in {"NIL", "PENDING_FUNDS"} ->
               IF acc.fund.supply >= available
               THEN [To("ACCEPTED") EXCEPT !.fund = Lock(@, available)]
               ELSE IF old # "PENDING_FUNDS" THEN To("PENDING_FUNDS") ELSE stay
          [] OTHER -> stay

\* After a whole-cycle scan an item that can be voted and got no vote is reset,
\* its abstentions excepted.
ResetUnseen(view, seen) ==
    [i \in DOMAIN view |-> IF i \notin seen /\ CanVote(view, i)
                           THEN [view[i] EXCEPT !.votes.yes = 0, !.votes.no = 0]
                           ELSE view[i]]

\* VoteStep for the chain 'blocks' that ends in pindexNew.
VoteStep(view, blocks, count, undo, deleted) ==
    LET block == Id(blocks)
        counted == CountVotes(blocks, count, undo)
        written == WriteVotes(view, counted, Len(blocks), undo, deleted)
        start == [view |-> WriteExclude(written.view, counted), fund |-> FundAt(blocks)]
        requests == FoldLeft(LAMBDA acc, r : DecideRequest(acc, r, block, undo, deleted),
                             start, RequestSeq)
        decided == FoldLeft(LAMBDA acc, p : DecideProposal(acc, p, block, undo, deleted),
                            requests, ProposalSeq)
    IN  [view |-> IF ScansWholeCycle(blocks, count, undo)
                  THEN ResetUnseen(decided.view, written.seen) ELSE decided.view,
         fund |-> decided.fund,
         count |-> counted]

-----------------------------------------------------------------------------
\* ConnectBlock.

\* IsValidPaymentRequest; IsValidProposal puts no condition on the state. An
\* item that exists already is not added again.
MayCreate(view, i) ==
    /\ i \notin DOMAIN view
    /\ i \in Request =>
         /\ HasState(view, ParentOf[i], {"ACCEPTED"})
         /\ Amount[i] <= GetAvailable(view, ParentOf[i], TRUE)

MayPay(view, r, height) ==
    /\ HasState(view, r, {"ACCEPTED"})
    /\ (height - 1) - LastStateHeight(view[r], "ACCEPTED") > MinAge

Valid(view, content, height) ==
    /\ Cardinality(content.create) <= 1
    /\ \A i \in content.create : MayCreate(view, i)
    /\ \A r \in content.pay : MayPay(view, r, height)

\* The votes a block has on record: those for items that could be voted. (An
\* excluded block has none from its coinbase, but still those its staker left
\* in the vote cache.)
RecordedVotes(view, content) ==
    Restrict(content.votes, {i \in DOMAIN content.votes : CanVote(view, i)})

\* The new block, and the view with its items and payments.
ConnectBlock(view, blocks, content) ==
    LET fund == FundAt(blocks)
        block == [content |-> content,
                  votes |-> RecordedVotes(view, content),
                  fund |-> [fund EXCEPT !.supply = @ + content.donate]]
        after == Append(blocks, block)
        added == [i \in content.create |-> NewItem(Len(after))] @@ view
    IN  [chain |-> after,
         view |-> [i \in DOMAIN added |->
                      IF i \in content.pay THEN SetState(added[i], Id(after), "PAID") ELSE added[i]]]

\* ConnectBlock, VoteStep and the flush of the view, on a state of the model.
Connected(s, content) ==
    LET c == ConnectBlock(s.items, s.chain, content)
        v == VoteStep(c.view, c.chain, s.count, FALSE, <<>>)
    IN  [chain |-> [c.chain EXCEPT ![Len(c.chain)].fund = v.fund],
         items |-> v.view, count |-> v.count]

\* DisconnectBlock: the block's items go, its votes are taken off.
DisconnectBlock(view, block) ==
    LET left == Restrict(view, DOMAIN view \ block.content.create)
    IN  [i \in DOMAIN left |->
            IF i \in DOMAIN block.votes
            THEN [left[i] EXCEPT !.votes[block.votes[i]] = Max({@ - 1, 0})]
            ELSE left[i]]

Disconnected(s) ==
    LET v == VoteStep(DisconnectBlock(s.items, Last(s.chain)), Front(s.chain), s.count,
                      TRUE, Id(s.chain))
    IN  [chain |-> Front(s.chain), items |-> v.view, count |-> v.count]

\* VerifyDB on n blocks: from level 3 they are disconnected, at level 4 then
\* connected again, in a view that is dropped in the end.
TakenBack(s, n) == FoldLeft(LAMBDA acc, k : Disconnected(acc), s, [k \in 1..n |-> k])
LastContents(s, n) == Id(SubSeq(s.chain, Len(s.chain) - n + 1, Len(s.chain)))
Verified(s, level, n) ==
    FoldLeft(Connected, TakenBack(s, IF level < 3 THEN 0 ELSE n),
             IF level < 4 THEN <<>> ELSE LastContents(s, n))

\* The comparison of the state hashes that VerifyDB ends with at level 4.
SameHash(s, v) == v.items = s.items /\ FundAt(v.chain) = FundAt(s.chain)

-----------------------------------------------------------------------------
State == [chain |-> chain, items |-> items, count |-> [tally |-> tally, excluded |-> excluded]]

Becomes(s) == /\ setting' = setting
              /\ chain' = s.chain
              /\ items' = s.items
              /\ tally' = s.count.tally
              /\ excluded' = s.count.excluded

Genesis == [chain |-> <<>>, items |-> <<>>, count |-> ZeroCount]

\* What a node that connects these blocks and never disconnects one arrives at.
Replay(contents) == FoldLeft(Connected, Genesis, contents)

Init == /\ setting \in Settings
        /\ LET s == Replay(Prefix)
           IN  /\ chain = s.chain
               /\ items = s.items
               /\ tally = s.count.tally
               /\ excluded = s.count.excluded

\* Votes for items that cannot be voted are ignored and left out here.
ConnectTip(content) == /\ Len(chain) < MaxHeight
                       /\ Valid(items, content, Len(chain) + 1)
                       /\ \A i \in DOMAIN content.votes : CanVote(items, i)
                       /\ Becomes(Connected(State, content))

DisconnectTip == /\ Len(chain) > Len(Prefix)
                 /\ Becomes(Disconnected(State))

\* What VerifyDB leaves of the state v it ended with: the cached counts, and at
\* level 4 the blocks' funds and votes, which it wrote again.
Leaves(s, v, level) == [chain |-> IF level = 4 THEN v.chain ELSE s.chain,
                        items |-> s.items,
                        count |-> v.count]

\* The command verifychain.
VerifyChain(level, n) == /\ n <= Len(chain)
                         /\ Becomes(Leaves(State, Verified(State, level, n), level))

\* A restart keeps the chain and the items and loses the cached counts.
Restarted == [State EXCEPT !.count = ZeroCount]

\* If VerifyDB finds a difference the node does not start.
Starts(v, level) == /\ level = 4 => SameHash(State, v)
                    /\ Becomes(Leaves(State, v, level))

Restart(level, n) == n <= Len(chain) /\ Starts(Verified(Restarted, level, n), level)

Next == \/ \E content \in BlockContent[setting] : ConnectTip(content)
        \/ DisconnectTip
        \/ \E level \in CheckLevel, n \in CheckBlocks : VerifyChain(level, n)
        \/ \E level \in CheckLevel, n \in CheckBlocks : Restart(level, n)

Spec == Init /\ [][Next]_vars

-----------------------------------------------------------------------------
Fund == FundAt(chain)

\* What the requests in these states ask for.
Asked(requests, states) ==
    MapThenSumSet(LAMBDA r : Amount[r], {r \in requests : HasState(items, r, states)})

RequestsOf(p) == {r \in Request : ParentOf[r] = p}

\* The books of the fund balance (nCFSupply, nCFLocked), however proposals are
\* accepted, expire and are rolled back. No coin appears or disappears: what was
\* donated on the active chain is free, locked, or promised to accepted and paid
\* requests. And what is locked is exactly what the live proposals may still pay
\* out, so that an accepted request never finds nCFLocked short.
BooksBalance ==
    /\ Fund.supply + Fund.locked + Asked(Request, {"ACCEPTED", "PAID"})
         = MapThenSumSet(LAMBDA h : chain[h].content.donate, DOMAIN chain)
    /\ Fund.locked =
         MapThenSumSet(LAMBDA p : Amount[p] - Asked(RequestsOf(p), {"ACCEPTED", "PAID"}),
             {p \in Proposal : HasState(items, p, {"ACCEPTED", "PENDING_VOTING_PREQ"})})

\* The fund and each proposal's budget are never overdrawn, open requests
\* included.
NoOverdraft == /\ Fund.supply >= 0
               /\ Fund.locked >= 0
               /\ \A p \in Proposal :
                    Asked(RequestsOf(p), {"NIL", "ACCEPTED", "PAID"}) <= Amount[p]

\* Voting ends: once an item has been through its voting cycles the block that
\* ends the next one decides it.
DecidedInTime ==
    \A i \in DOMAIN items :
        GetLastState(items[i]) = "NIL" =>
            Cycle(Len(chain) + 1) - Cycle(items[i].born) <= MaxVotingCycles + 1

\* What has been decided stays decided as the chain grows; only these moves
\* exist.
FinalMoves == {<<"NIL", s>> : s \in {"NIL", "ACCEPTED", "REJECTED", "EXPIRED", "PENDING_FUNDS"}}
    \cup {<<"PENDING_FUNDS", s>> : s \in {"PENDING_FUNDS", "ACCEPTED"}}
    \cup {<<"ACCEPTED", s>> : s \in {"ACCEPTED", "PENDING_VOTING_PREQ", "EXPIRED", "PAID"}}
    \cup {<<"PENDING_VOTING_PREQ", s>> : s \in {"PENDING_VOTING_PREQ", "EXPIRED"}}
    \cup {<<s, s>> : s \in {"REJECTED", "EXPIRED", "PAID"}}

DecisionsAreFinal ==
    [][Len(chain') > Len(chain) =>
         \A i \in DOMAIN items :
            /\ i \in DOMAIN items'
            /\ <<GetLastState(items[i]), GetLastState(items'[i])>> \in FinalMoves]_vars

\* The votes the active chain's blocks of this cycle carry for an item.
CycleVotes(blocks, i, v) ==
    Cardinality({h \in 1..Len(blocks) :
        /\ Cycle(h) = Cycle(Len(blocks))
        /\ ~blocks[h].content.exclude
        /\ i \in DOMAIN blocks[h].votes
        /\ blocks[h].votes[i] = v})

\* The incremental counts are right: after every block an item still in voting
\* shows the yes and no votes of the running cycle, whatever was disconnected
\* or lost in a restart before.
CountsAreRight ==
    [][Len(chain') > Len(chain) =>
         \A i \in DOMAIN items' : CanVote(items', i) =>
            /\ items'[i].votes.yes = CycleVotes(chain', i, "yes")
            /\ items'[i].votes.no = CycleVotes(chain', i, "no")]_vars

\* A reorganization leaves no trace: after every block the items and the fund
\* are those of a node that connected the same blocks and never disconnected
\* one, so that two nodes on one chain agree on the state hash.
ReorgLeavesNoTrace ==
    [][Len(chain') > Len(chain) =>
         LET s == Replay(Id(chain'))
         IN  items' = s.items /\ FundAt(chain') = FundAt(s.chain)]_vars

\* The node can always be started again: VerifyDB at level 4, which AppInit2
\* runs by default, finds the state hash it had before it disconnected and
\* connected the last blocks, also if the last thing the node did was to
\* disconnect a block.
StartsAgain ==
    \A n \in CheckBlocks : n <= Len(chain) => SameHash(State, Verified(Restarted, 4, n))
=============================================================================
