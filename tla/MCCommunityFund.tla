--------------------------- MODULE MCCommunityFund ---------------------------
EXTENDS CommunityFund

CONSTANTS p1, p2, r1, r2, r3

MCProposals == <<p1, p2>>
MCRequests == <<r1, r2, r3>>
MCParent == [r \in {r1, r2, r3} |-> p1]
MCAmount == (p1 :> 2) @@ (p2 :> 2) @@ (r1 :> 1) @@ (r2 :> 1) @@ (r3 :> 2)
MCDeadline == (p1 :> 2) @@ (p2 :> 4)

\* Block contents for the prefixes.
Plain == [exclude |-> FALSE, votes |-> <<>>, create |-> {}, pay |-> {}, donate |-> 0]
Creates(i) == [Plain EXCEPT !.create = {i}]
VotesFor(i, v) == [Plain EXCEPT !.votes = i :> v]

\* A fund of three and two proposals that ask for two each: only one can be
\* locked.
TwoProposals == <<[Creates(p1) EXCEPT !.donate = 3], Creates(p2)>>

\* The same, with a vote for p1 at height 3, enough to accept it at the end of
\* that cycle.
FirstVoted == TwoProposals \o <<VotesFor(p1, "yes")>>

\* A fund of three, p1 accepted at height 3, request r1 open from height 4.
RequestOpen == <<[Creates(p1) EXCEPT !.donate = 3], Plain, VotesFor(p1, "yes"), Creates(r1)>>

\* Two proposals compete; one vote in three blocks is a quorum.
Competing == [items |-> {p1, p2}, donation |-> {3}, cycleLength |-> 3,
              prefix |-> FirstVoted, maxHeight |-> 8]

\* Requests of one proposal; one vote in two blocks is a quorum.
Requesting == [items |-> {p1, r1, r2, r3}, donation |-> {}, cycleLength |-> 2,
               prefix |-> RequestOpen, maxHeight |-> 9]

MCSettings == {Competing, Requesting}
MCRequesting == {[Requesting EXCEPT !.maxHeight = 7]}
=============================================================================
