----------------------------- MODULE MCDaoItems -----------------------------
(* One proposal with one payment request, or one vote list, or one          *)
(* consultation with two answers; two contents of an item.                  *)
EXTENDS DaoItems

CONSTANTS c1, a1, a2

ParentOf == [a \in {a1, a2} |-> c1]

Groups == {{"proposal", "request"}, {"register"}, {"consultation", "answer"}}
=============================================================================
