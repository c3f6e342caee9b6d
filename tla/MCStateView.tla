----------------------------- MODULE MCStateView -----------------------------
(* Two transactions, two unspent contents and two blocks.                   *)
EXTENDS StateView
=============================================================================
