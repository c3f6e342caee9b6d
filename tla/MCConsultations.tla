--------------------------- MODULE MCConsultations ---------------------------
EXTENDS Consultations

CONSTANTS range, open, cmin, cmax, clen, o1, o2, min1, min2, max1, max2, len1, len2

MCItems == <<clen, o2, open, min2, len2, cmax, range, min1, o1, max2, len1, cmin, max1>>
MCAbout == (range :> "range") @@ (open :> "answers") @@ (cmin :> "minCycles")
           @@ (cmax :> "maxSupport") @@ (clen :> "cycleLength")
MCParentOf == (o1 :> open) @@ (o2 :> open) @@ (min1 :> cmin) @@ (min2 :> cmin)
              @@ (max1 :> cmax) @@ (max2 :> cmax) @@ (len1 :> clen) @@ (len2 :> clen)
MCValue == (o1 :> 1) @@ (o2 :> 2) @@ (min1 :> 2) @@ (min2 :> 3)
           @@ (max1 :> 1) @@ (max2 :> 2) @@ (len1 :> 1) @@ (len2 :> 3)
MCInline == [c \in DOMAIN MCAbout |-> CASE c = cmin -> {min1}
                                        [] c = cmax -> {max1}
                                        [] c = clen -> {len1}
                                        [] OTHER -> {}]

\* Block contents.
Plain == [exclude |-> FALSE, support |-> {}, votes |-> <<>>, create |-> <<>>]
Creates(i) == [Plain EXCEPT !.create = <<i>>]
Supports(i) == [Plain EXCEPT !.support = {i}]
VotesFor(i, v) == [Plain EXCEPT !.votes = i :> v]

Short == [cycleLength |-> 2, minCycles |-> 1, maxSupport |-> 2, maxVoting |-> 2, reflection |-> 1]

\* A range consultation, from its creation.
RangeSetting ==
    [default |-> Short, prefix |-> <<Creates(range)>>, offer |-> {}, maxHeight |-> 6]

\* The same when it is voted, from height 8 to its end at 11.
RangeVoted ==
    [RangeSetting EXCEPT
        !.prefix = <<Creates(range), Plain, Supports(range), Plain, Plain>>,
        !.maxHeight = 11]

\* A consultation with two answers, from its creation.
AnswersSetting ==
    [default |-> Short, prefix |-> <<Creates(open)>>, offer |-> {<<o1>>, <<o2>>}, maxHeight |-> 6]

\* The same when it is voted, from height 10.
AnswersVoted ==
    [default |-> [Short EXCEPT !.maxSupport = 3],
     prefix |-> <<Creates(open), Creates(o1), Creates(o2), Supports(o1), Supports(o2),
                  Plain, Plain>>,
     offer |-> {}, maxHeight |-> 11]

\* Cycles of one block; consultations about the two bounds on the cycles of
\* support.
One == [cycleLength |-> 1, minCycles |-> 1, maxSupport |-> 3, maxVoting |-> 2, reflection |-> 1]
BoundsSetting ==
    [default |-> One, prefix |-> <<Creates(cmin)>>, offer |-> {<<cmax>>, <<min2>>}, maxHeight |-> 9]

\* The same two consultations in one block, in either order, or one with a
\* second answer.
TogetherSetting ==
    [default |-> One, prefix |-> <<>>,
     offer |-> {<<cmin, cmax>>, <<cmax, cmin>>, <<cmin, min2>>, <<cmax>>}, maxHeight |-> 7]

\* The length of the cycle is voted.
LengthSetting ==
    [default |-> Short,
     prefix |-> <<Creates(clen), Supports(len1), Creates(len2), Supports(len2), Plain, Plain>>,
     offer |-> {<<range>>}, maxHeight |-> 10]

MCSettings == {RangeSetting, RangeVoted, AnswersSetting, AnswersVoted, BoundsSetting, TogetherSetting,
               LengthSetting}
=============================================================================
