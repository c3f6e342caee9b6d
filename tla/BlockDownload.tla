---------------------------- MODULE BlockDownload ----------------------------
(***************************************************************************)
(* How blocks are fetched from peers (main.cpp): which peer is asked for   *)
(* which block, the two views of what is in flight (mapBlocksInFlight and  *)
(* the list of each peer), the counters that go with them, compact blocks, *)
(* the header spam filter, and the peers that stall, time out or are       *)
(* banned.                                                                 *)
(*                                                                         *)
(* Messages are handled one at a time under cs_main. There is no clock: a  *)
(* timeout that is running may have run out at the next SendMessages to    *)
(* the peer. What a peer sends and when is its choice, except for the      *)
(* honest peers, which answer in time. Whether the node is close to the    *)
(* tip of the network is a choice at each test of it. All blocks are valid *)
(* (module BlockTree has the others); what a peer sends as one may be      *)
(* mutated. A charge of 100 reaches the default -banscore; of the smaller  *)
(* ones nothing is kept, as any peer that is not honest may leave at any   *)
(* moment.                                                                 *)
(***************************************************************************)
EXTENDS Integers, Sequences, FiniteSets, SequencesExt, FiniteSetsExt, Functions

CONSTANTS Block, Genesis, Parent,  \* the tree of blocks, of equal work each
          Peer,                    \* node ids, each used once
          Preferred,               \* outbound or whitelisted peers
          MaxInTransit,            \* MAX_BLOCKS_IN_TRANSIT_PER_PEER
          Window,                  \* BLOCK_DOWNLOAD_WINDOW
          MaxToAnnounce,           \* MAX_BLOCKS_TO_ANNOUNCE
          MaxPoints,               \* maxSize of the header spam filter
          Settings,                \* the blocks, peers and messages of an instance
          None

AncestorsOf[b \in Block] == {b} \cup (IF b = Genesis THEN {} ELSE AncestorsOf[Parent[b]])
Anc == [b \in Block |-> AncestorsOf[b]]
Height(b) == Cardinality(Anc[b]) - 1

ASSUME DownloadAssumption ==
    /\ Genesis \in Block /\ Parent \in [Block \ {Genesis} -> Block]
    /\ \A b \in Block : Genesis \in Anc[b]
    /\ None \notin Block \cup Peer
    /\ \A s \in Settings :
          /\ Genesis \in s.blocks /\ \A b \in s.blocks : Anc[b] \subseteq s.blocks
          /\ s.honest \subseteq s.peers \cap Preferred \cap s.witness
          /\ s.honest # {} => \A b \in s.blocks : Height(b) <= MaxPoints
    /\ MaxInTransit \in Nat \ {0} /\ Window \in Nat \ {0}
    /\ MaxToAnnounce \in Nat /\ MaxPoints \in Nat

VARIABLES setting,   \* blocks, peers (with NODE_WITNESS, whitelisted, honest), and the others' messages
          phase,     \* peer -> "new", "connected", "up" (it sent its version), "charged" (fShouldBan),
                     \* "dropped" (fDisconnect) or "gone"
          dl,        \* what is in flight
          best,      \* pindexBestKnownBlock
          unknown,   \* hashLastUnknownBlock
          common,    \* pindexLastCommonBlock
          preferred, nPreferredDownload,
          syncStarted, nSyncStarted,
          known,     \* mapBlockIndex
          data,      \* blocks with BLOCK_HAVE_DATA
          tip,       \* chainActive.Tip()
          scripts,   \* blocks with BLOCK_VALID_SCRIPTS: they were connected
          points,    \* mapServiceHeaders, one address for each peer
          owed       \* blocks an honest peer was asked for and has not sent yet

vars == <<setting, phase, dl, best, unknown, common, preferred, nPreferredDownload, syncStarted, nSyncStarted, known, data, tip,
          scripts, points, owed>>
availability == <<best, unknown>>
counters == <<preferred, nPreferredDownload, syncStarted, nSyncStarted>>
blocks == <<known, data, tip, scripts>>
chain == <<data, tip, scripts>>

\* The fields of dl: list, nBlocksInFlight, nBlocksInFlightValidHeaders and
\* nStallingSince # 0 of each peer; mapBlocksInFlight; and
\* nPeersWithValidatedDownloads. An assertion of the code that fails, or an
\* iterator or a peer's state that is used and not there, is a fault.
NothingInFlight ==
    [list |-> [p \in Peer |-> <<>>], count |-> [p \in Peer |-> 0], valid |-> [p \in Peer |-> 0],
     stalling |-> [p \in Peer |-> FALSE], map |-> <<>>, downloads |-> 0, fault |-> FALSE]

-----------------------------------------------------------------------------
\* What is in flight.

Entry(d, p, b) == {e \in Range(d.list[p]) : e.hash = b}
One(condition) == IF condition THEN 1 ELSE 0

\* Mutant: the peer is counted as one with validated downloads after its last.
TakeOffNoCount(d, p, b) ==
    [d EXCEPT !.valid[p] = @ - One(\E e \in Entry(d, p, b) : e.validated),
              !.list[p] = SelectSeq(@, LAMBDA e : e.hash # b),
              !.count[p] = @ - 1,
              !.stalling[p] = FALSE,
              !.map = Restrict(@, DOMAIN @ \ {b})]

TakeOff(d, p, b) ==
    [d EXCEPT !.valid[p] = @ - One(\E e \in Entry(d, p, b) : e.validated),
              !.downloads = @ - One(d.valid[p] = 1 /\ \E e \in Entry(d, p, b) : e.validated),
              !.list[p] = SelectSeq(@, LAMBDA e : e.hash # b),
              !.count[p] = @ - 1,
              !.stalling[p] = FALSE,
              !.map = Restrict(@, DOMAIN @ \ {b})]

MarkBlockAsReceived(d, b) == IF b \in DOMAIN d.map THEN TakeOff(d, d.map[b], b) ELSE d

PutOn(d, p, b, validated, partial) ==
    [d EXCEPT !.list[p] = Append(@, [hash |-> b, validated |-> validated, partial |-> partial]),
              !.count[p] = @ + 1,
              !.valid[p] = @ + One(validated),
              !.downloads = @ + One(validated /\ d.valid[p] = 0),
              !.map = [h \in DOMAIN @ \cup {b} |-> IF h = b THEN p ELSE @[h]]]

\* With partial, pit is given; without, it is null and must not be used.
MarkBlockAsInFlight(d, p, b, validated, partial) ==
    IF b \in DOMAIN d.map /\ d.map[b] = p THEN [d EXCEPT !.fault = @ \/ ~partial]
    ELSE PutOn(MarkBlockAsReceived(d, b), p, b, validated, partial)

\* Blocks that are asked for with getdata, from a list.
RequestAll(d, p, s) == FoldLeft(LAMBDA x, b : MarkBlockAsInFlight(x, p, b, TRUE, FALSE), d, s)

-----------------------------------------------------------------------------
\* The block index and the chain.

Linked(D) == {b \in D : Anc[b] \subseteq D}

\* ActivateBestChain: the first of the blocks with most work.
ActivateBestChain ==
    /\ IF \E b \in Linked(data') : Height(b) > Height(tip)
       THEN \E b \in Linked(data') : /\ \A c \in Linked(data') : Height(c) <= Height(b)
                                     /\ tip' = b
       ELSE tip' = tip
    /\ scripts' = scripts \cup Anc[tip']

Better(x, b) == IF x = None \/ Height(b) >= Height(x) THEN b ELSE x

\* ProcessBlockAvailability, with the headers K.
Resolved(p, K) == unknown[p] # None /\ unknown[p] \in K
BestOf(p, K) == IF Resolved(p, K) THEN Better(best[p], unknown[p]) ELSE best[p]
UnknownOf(p, K) == IF Resolved(p, K) THEN None ELSE unknown[p]

UpdateBlockAvailability(p, b, K) ==
    /\ best' = [best EXCEPT ![p] = IF b \in K THEN Better(BestOf(p, K), b) ELSE BestOf(p, K)]
    /\ unknown' = [unknown EXCEPT ![p] = IF b \in K THEN UnknownOf(p, K) ELSE b]

-----------------------------------------------------------------------------
Init == /\ setting \in Settings
        /\ phase = [p \in Peer |-> "new"]
        /\ dl = NothingInFlight
        /\ best = [p \in Peer |-> None] /\ unknown = best /\ common = best
        /\ preferred = [p \in Peer |-> FALSE] /\ nPreferredDownload = 0
        /\ syncStarted = preferred /\ nSyncStarted = 0
        /\ known = {Genesis} /\ data = {Genesis} /\ tip = Genesis /\ scripts = {Genesis}
        /\ points = [p \in Peer |-> {}] /\ owed = points

InitializeNode(p) == /\ phase[p] = "new"
                     /\ phase' = [phase EXCEPT ![p] = "connected"]
                     /\ UNCHANGED <<setting, dl, availability, common, counters, blocks, points, owed>>

\* The message "version", which a peer sends once: UpdatePreferredDownload.
Version(p) == /\ phase[p] = "connected"
              /\ phase' = [phase EXCEPT ![p] = "up"]
              /\ preferred' = [preferred EXCEPT ![p] = p \in Preferred]
              /\ nPreferredDownload' = nPreferredDownload - One(preferred[p]) + One(p \in Preferred)
              /\ UNCHANGED <<setting, dl, availability, common, syncStarted, nSyncStarted, blocks, points, owed>>

Present(p) == phase[p] \in {"connected", "up", "charged", "dropped"}

\* The state of the peer goes, and its blocks leave the map.
ForgetDownloads(d, p) ==
    [d EXCEPT !.map = Restrict(@, {b \in DOMAIN @ : Entry(d, p, b) = {}}),
              !.list[p] = <<>>, !.count[p] = 0, !.valid[p] = 0, !.stalling[p] = FALSE,
              !.downloads = @ - One(d.valid[p] # 0)]

\* The assertions of FinalizeNode, after the peer is forgotten.
Consistent(d, nPreferred, last) ==
    /\ d.downloads >= 0
    /\ last => d.map = <<>> /\ nPreferred = 0 /\ d.downloads = 0

FinalizeNode(p) ==
    /\ Present(p) /\ p \notin setting.honest
    /\ phase' = [phase EXCEPT ![p] = "gone"]
    /\ nSyncStarted' = nSyncStarted - One(syncStarted[p])
    /\ syncStarted' = [syncStarted EXCEPT ![p] = FALSE]
    /\ nPreferredDownload' = nPreferredDownload - One(preferred[p])
    /\ preferred' = [preferred EXCEPT ![p] = FALSE]
    /\ LET d == ForgetDownloads(dl, p)
       IN  dl' = [d EXCEPT !.fault = @ \/ ~Consistent(d, nPreferredDownload', \A q \in Peer \ {p} : ~Present(q))]
    /\ best' = [best EXCEPT ![p] = None] /\ unknown' = [unknown EXCEPT ![p] = None]
    /\ common' = [common EXCEPT ![p] = None]
    /\ UNCHANGED <<setting, blocks, points, owed>>

\* The peer's messages are handled.
Up(p) == phase[p] \in {"up", "charged"}

\* Misbehaving with 100, which does nothing to a whitelisted peer.
Misbehaving(p, bad) ==
    phase' = IF bad /\ p \notin setting.whitelisted THEN [phase EXCEPT ![p] = "charged"] ELSE phase

\* The header spam filter, off during the initial download: what the peer sent
\* headers or blocks of and was never connected is limited.
Noted(p, S) == (points[p] \cup S) \ scripts
Spam(p, S, filtered) == filtered /\ Cardinality(Noted(p, S)) > MaxPoints
AddHeaders(p, S, filtered) ==
    points' = IF ~filtered THEN points
              ELSE [points EXCEPT ![p] = IF Spam(p, S, filtered) THEN {} ELSE Noted(p, S)]

\* What is put in flight from an honest peer by this step, it was asked for.
InFlight(d, p) == {e.hash : e \in Range(d.list[p])}
Asked(p) ==
    owed' = IF p \in setting.honest THEN [owed EXCEPT ![p] = @ \cup (InFlight(dl', p) \ InFlight(dl, p))] ELSE owed

-----------------------------------------------------------------------------
\* Messages that announce blocks.

\* "inv": without the header, the block is asked for without validated headers.
Inv(p, b, direct) ==
    /\ Up(p)
    /\ UpdateBlockAvailability(p, b, known)
    /\ dl' = IF b \notin known /\ b \notin DOMAIN dl.map /\ direct /\ dl.count[p] < MaxInTransit /\ p \in setting.witness
             THEN MarkBlockAsInFlight(dl, p, b, FALSE, FALSE) ELSE dl
    /\ UNCHANGED <<setting, phase, common, counters, blocks, points, owed>>

\* The blocks needed to switch to b, from the lowest one, unless there are more
\* than can be in flight by two.
Missing(p, b) ==
    {x \in Anc[b] \ Anc[tip] : x \notin data /\ x \notin DOMAIN dl.map /\ p \in setting.witness}
ByHeight(S) == SetToSortSeq(S, LAMBDA x, y : Height(x) < Height(y))
LargeReorg(s) == Len(s) > MaxInTransit /\ Parent[s[Len(s) - MaxInTransit]] \notin Anc[tip]

\* Mutant: the limit on what is in flight from the peer is not looked at.
DirectFetchAll(p, b) == RequestAll(dl, p, ByHeight(Missing(p, b)))

DirectFetch(p, b) ==
    LET fetch == ByHeight(Missing(p, b))
    IN  IF LargeReorg(fetch) THEN dl ELSE RequestAll(dl, p, SubSeq(fetch, 1, Min({Len(fetch), MaxInTransit - dl.count[p]})))

\* Headers S up to b that the index has now: the filter, and unless they are
\* spam the peer has b and may be asked for blocks.
HeadersAccepted(p, S, b, direct, filtered) ==
    /\ AddHeaders(p, S, filtered)
    /\ Misbehaving(p, Spam(p, S, filtered))
    /\ IF Spam(p, S, filtered) THEN UNCHANGED <<availability, dl>>
       ELSE /\ UpdateBlockAvailability(p, b, known')
            /\ dl' = IF direct /\ Height(tip) <= Height(b) THEN DirectFetch(p, b) ELSE dl

\* Headers that do not connect. A few, as in an announcement, tell that the
\* peer has b; more are refused.
HeadersUnconnected(p, n, b, filtered) ==
    IF n < MaxToAnnounce
    THEN UpdateBlockAvailability(p, b, known) /\ UNCHANGED <<phase, dl, points>>
    ELSE /\ AddHeaders(p, {}, filtered)
         /\ Misbehaving(p, Spam(p, {}, filtered))
         /\ UNCHANGED <<availability, dl>>

\* "headers" from first, which is an ancestor of b, to b.
Headers(p, first, b, direct, filtered) ==
    /\ Up(p)
    /\ IF Parent[first] \notin known
       THEN HeadersUnconnected(p, Height(b) - Height(first) + 1, b, filtered) /\ UNCHANGED known
       ELSE /\ known' = known \cup (Anc[b] \ Anc[Parent[first]])
            /\ HeadersAccepted(p, Anc[b] \ Anc[Parent[first]], b, direct, filtered)
    /\ Asked(p)
    /\ UNCHANGED <<setting, common, counters, chain>>

-----------------------------------------------------------------------------
\* Messages that bring blocks.

\* AcceptBlock looks into the block. One that was not asked for needs more
\* work than the tip.
Looks(d, b, forced) ==
    /\ b = Genesis \/ Parent[b] \in known
    /\ b \notin data
    /\ b \in DOMAIN d.map \/ forced \/ Height(b) > Height(tip)

\* ProcessNewBlock: d is what is in flight, of which b is taken off, accepted
\* or not.
ProcessNewBlock(d, b, forced, intact) ==
    /\ dl' = MarkBlockAsReceived(d, b)
    /\ known' = IF b = Genesis \/ Parent[b] \in known THEN known \cup {b} ELSE known
    /\ data' = IF intact /\ Looks(d, b, forced) THEN data \cup {b} ELSE data
    /\ ActivateBestChain

\* "block": forced when the peer is whitelisted.
BlockMessage(p, b, forced, intact, filtered) ==
    /\ Up(p)
    /\ forced => p \in setting.whitelisted
    /\ AddHeaders(p, {b}, filtered)
    /\ Misbehaving(p, Spam(p, {b}, filtered) \/ (~intact /\ Looks(dl, b, forced)))
    /\ IF Spam(p, {b}, filtered) THEN UNCHANGED <<dl, blocks>> ELSE ProcessNewBlock(dl, b, forced, intact)
    /\ UNCHANGED <<setting, availability, common, counters>>

\* The partial block is made of what was sent and the memory pool: it is
\* "bad" (a charge), "invalid", "waits" for transactions or for the whole block,
\* or is complete.
FillBlock(d, b, status) ==
    CASE status \in {"bad", "invalid"} -> dl' = MarkBlockAsReceived(d, b) /\ UNCHANGED chain
      [] status = "waits" -> dl' = d /\ UNCHANGED chain
      [] status = "complete" -> /\ dl' = MarkBlockAsReceived(d, b)
                                /\ data' = data \cup {b}
                                /\ ActivateBestChain

BlockTxn(p, b, status) ==
    /\ Up(p)
    /\ b \in DOMAIN dl.map /\ dl.map[b] = p /\ \E e \in Entry(dl, p, b) : e.partial
    /\ FillBlock(dl, b, status)
    /\ UNCHANGED <<setting, phase, availability, common, counters, known, points, owed>>

\* An entry that was asked for with getdata becomes a partial block.
WithPartial(d, p, b) ==
    [d EXCEPT !.list[p] = [i \in DOMAIN @ |-> IF @[i].hash = b THEN [@[i] EXCEPT !.partial = TRUE] ELSE @[i]]]

CmpctWanted(p, b) ==
    IF b \in DOMAIN dl.map THEN dl.map[b] = p /\ \A e \in Entry(dl, p, b) : ~e.partial
    ELSE dl.count[p] < MaxInTransit

\* A block too far ahead is taken as its header.
CmpctBlock(p, b, direct, status, filtered) ==
    /\ Up(p)
    /\ b # Genesis /\ Parent[b] \in known
    /\ known' = known \cup {b}
    /\ UpdateBlockAvailability(p, b, known')
    /\ IF b \in data \/ Height(b) <= Height(tip) \/ ~(b \in DOMAIN dl.map \/ direct)
       THEN UNCHANGED <<phase, dl, chain, points>>
       ELSE IF Height(b) > Height(tip) + 2
       THEN /\ IF b \notin DOMAIN dl.map THEN HeadersAccepted(p, {b}, b, direct, filtered)
               ELSE UNCHANGED <<phase, dl, points>>
            /\ UNCHANGED chain
       ELSE IF ~CmpctWanted(p, b)
       THEN UNCHANGED <<phase, dl, chain, points>>
       ELSE /\ Misbehaving(p, status = "bad")
            /\ FillBlock(WithPartial(MarkBlockAsInFlight(dl, p, b, TRUE, TRUE), p, b), b, status)
            /\ UNCHANGED points
    /\ UNCHANGED <<setting, common, counters, owed>>

-----------------------------------------------------------------------------
\* SendMessages.

\* Mutant: a block that is on disk is common, even if one below it is missing.
LookAnyData(r, b, p, windowEnd) ==
    IF r.done THEN r
    ELSE IF b \in data THEN [r EXCEPT !.common = b]
    ELSE IF b \in DOMAIN dl.map \/ Height(b) > windowEnd THEN r
    ELSE [r EXCEPT !.fetch = Append(@, b), !.done = Len(r.fetch) + 1 = MaxInTransit - dl.count[p]]

\* One block on the way from the last common block to the best known one.
Look(r, b, p, windowEnd) ==
    IF r.done THEN r
    ELSE IF b \in data THEN (IF b \in Linked(data) THEN [r EXCEPT !.common = b] ELSE r)
    ELSE IF b \in DOMAIN dl.map THEN (IF r.waitingFor = None THEN [r EXCEPT !.waitingFor = dl.map[b]] ELSE r)
    ELSE IF Height(b) > windowEnd
    THEN [r EXCEPT !.done = TRUE,
                   !.staller = IF r.fetch = <<>> /\ r.waitingFor # p THEN r.waitingFor ELSE None]
    ELSE [r EXCEPT !.fetch = Append(@, b), !.done = Len(r.fetch) + 1 = MaxInTransit - dl.count[p]]

\* The first guess is the block of the active chain as high as b.
LastCommon(p, b) ==
    LET guess == IF common[p] # None THEN common[p]
                 ELSE CHOOSE x \in Anc[tip] : Height(x) = Min({Height(b), Height(tip)})
    IN  CHOOSE x \in Anc[guess] \cap Anc[b] : \A y \in Anc[guess] \cap Anc[b] : Height(y) <= Height(x)

\* FindNextBlocksToDownload, towards the block b.
FindNextBlocksToDownload(p, b) ==
    LET last == LastCommon(p, b)
        path == ByHeight({x \in Anc[b] \ Anc[last] : Height(x) <= Height(last) + Window + 1})
    IN  FoldLeft(LAMBDA r, x : Look(r, x, p, Height(last) + Window),
                 [common |-> last, fetch |-> <<>>, waitingFor |-> None, staller |-> None, done |-> FALSE], path)

\* What is found is asked for; the peer that holds up the window, when this one
\* has nothing to do, is a staller.
Fetched(p, r) ==
    LET d == IF p \in setting.witness THEN RequestAll(dl, p, r.fetch) ELSE dl
    IN  IF d.count[p] = 0 /\ r.staller # None /\ p \in setting.witness
        THEN [d EXCEPT !.stalling[r.staller] = TRUE, !.fault = @ \/ ~Present(r.staller)]
        ELSE d

Fetch(p, b) ==
    IF b = None \/ Height(b) < Height(tip) THEN UNCHANGED <<dl, common>>
    ELSE \E r \in {FindNextBlocksToDownload(p, b)} : /\ dl' = Fetched(p, r)
                                                    /\ common' = [common EXCEPT ![p] = r.common]

\* fFetch is computed before anything changes.
FetchFrom(p) == preferred[p] \/ nPreferredDownload = 0

StartSync(p, recent) ==
    LET start == ~syncStarted[p] /\ ((nSyncStarted = 0 /\ FetchFrom(p)) \/ recent)
    IN  /\ syncStarted' = [syncStarted EXCEPT ![p] = @ \/ start]
        /\ nSyncStarted' = nSyncStarted + One(start)


\* A timeout is running: the peer stalls, or its first block is waited for.
RunsOut(p) == dl.stalling[p] \/ dl.list[p] # <<>>

\* late: a timeout that is running has run out. A peer that is to be banned is
\* dropped, and the filter forgets its address.
SendMessages(p, recent, initial, late) ==
    /\ Up(p)
    /\ StartSync(p, recent)
    /\ best' = [best EXCEPT ![p] = BestOf(p, known)]
    /\ unknown' = [unknown EXCEPT ![p] = UnknownOf(p, known)]
    /\ late => phase[p] = "up" /\ RunsOut(p) /\ p \notin setting.honest
    /\ phase' = [phase EXCEPT ![p] = IF late \/ @ = "charged" THEN "dropped" ELSE "up"]
    /\ points' = IF phase[p] = "charged" THEN [points EXCEPT ![p] = {}] ELSE points
    /\ IF phase'[p] = "up" /\ (FetchFrom(p) \/ ~initial) /\ dl.count[p] < MaxInTransit
       THEN Fetch(p, BestOf(p, known))
       ELSE UNCHANGED <<dl, common>>
    /\ Asked(p)
    /\ UNCHANGED <<setting, preferred, nPreferredDownload, blocks>>

-----------------------------------------------------------------------------
NewBlock == setting.blocks \ {Genesis}
Kind(p, kind) == p \notin setting.honest /\ kind \in setting.kinds

\* -headerspamfilter, and that the initial download is over.
Filtered == {filtered \in BOOLEAN : filtered => setting.filter}

Best == {b \in setting.blocks : \A c \in setting.blocks : Height(c) <= Height(b)}

\* An honest peer announces blocks of the best chain from the first one, and
\* sends what it was asked for, although another peer may have sent it first.
Announces(p, b) ==
    /\ p \in setting.honest /\ \E c \in Best : b \in Anc[c]
    /\ \E direct \in BOOLEAN, filtered \in Filtered, first \in {x \in Anc[b] : Height(x) = 1} :
          Headers(p, first, b, direct, filtered)
Answers(p, b) ==
    /\ b \in owed[p]
    /\ owed' = [owed EXCEPT ![p] = @ \ {b}]
    /\ \E filtered \in Filtered : BlockMessage(p, b, FALSE, TRUE, filtered)

Message(p, b) ==
    \/ Kind(p, "inv") /\ \E direct \in BOOLEAN : Inv(p, b, direct)
    \/ Kind(p, "headers") /\ \E direct \in BOOLEAN, filtered \in Filtered, first \in Anc[b] \ {Genesis} :
          Headers(p, first, b, direct, filtered)
    \/ Kind(p, "block") /\ UNCHANGED owed /\ \E forced, intact \in BOOLEAN, filtered \in Filtered :
          BlockMessage(p, b, forced, intact, filtered)
    \/ Kind(p, "compact") /\ \E status \in {"bad", "invalid", "waits", "complete"} :
          \/ status # "bad" /\ BlockTxn(p, b, status)
          \/ \E direct \in BOOLEAN, filtered \in Filtered : CmpctBlock(p, b, direct, status, filtered)

Step(p) ==
    \/ InitializeNode(p) \/ Version(p) \/ FinalizeNode(p)
    \/ \E recent, initial, late \in BOOLEAN : SendMessages(p, recent, initial, late)
    \/ \E b \in NewBlock : Message(p, b) \/ Announces(p, b) \/ Answers(p, b)

Next == \E p \in setting.peers : Step(p)

\* The threads of the node go on: SendMessages is called for every peer, time
\* passes, and a peer that was dropped is finalized. An honest peer connects,
\* announces and answers.
Fairness ==
    \A p \in Peer :
       /\ WF_vars(\E recent, initial \in BOOLEAN : SendMessages(p, recent, initial, FALSE))
       /\ WF_vars((\E recent, initial \in BOOLEAN : SendMessages(p, recent, initial, TRUE))
                  \/ (phase[p] = "dropped" /\ FinalizeNode(p)))
       /\ WF_vars(p \in setting.honest /\ (InitializeNode(p) \/ Version(p) \/ \E b \in Best : Announces(p, b)))
       /\ WF_vars(\E b \in NewBlock : Answers(p, b))

Spec == Init /\ [][Next]_vars /\ Fairness

-----------------------------------------------------------------------------
\* Properties.

\* mapBlocksInFlight and the lists of the peers hold the same blocks, each block
\* in one list, once, and all counters count: nBlocksInFlight,
\* nBlocksInFlightValidHeaders, nPeersWithValidatedDownloads,
\* nPreferredDownload, nSyncStarted. An iterator in the map that is used is one
\* of the list of a peer that is there, the assertions of FinalizeNode hold, the
\* null pit of MarkBlockAsInFlight is never written through, and the staller
\* that SendMessages finds has a state.
DownloadsAgree ==
    /\ ~dl.fault
    /\ \A b \in DOMAIN dl.map : Present(dl.map[b])
    /\ \A p \in Peer :
          /\ {e.hash : e \in Range(dl.list[p])} = {b \in DOMAIN dl.map : dl.map[b] = p}
          /\ dl.count[p] = Len(dl.list[p]) /\ dl.count[p] = Cardinality({b \in DOMAIN dl.map : dl.map[b] = p})
          /\ dl.valid[p] = Cardinality({e \in Range(dl.list[p]) : e.validated})
    /\ dl.downloads = Cardinality({p \in Peer : dl.valid[p] > 0})
    /\ nPreferredDownload = Cardinality({p \in Peer : preferred[p]})
    /\ nSyncStarted = Cardinality({p \in Peer : syncStarted[p]})

\* No peer has more than MAX_BLOCKS_IN_TRANSIT_PER_PEER blocks in flight, by
\* whichever of the four ways they were asked for.
TransitBounded == \A p \in Peer : dl.count[p] <= MaxInTransit

\* "The last full block we both have" (CNodeState): the block and all below it
\* are on disk, so that the download window that starts there does not leave
\* out a block that is missing.
CommonBlockIsFull == \A p \in Peer : common[p] # None => common[p] \in Linked(data)

=============================================================================
