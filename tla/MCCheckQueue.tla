---------------------------- MODULE MCCheckQueue ----------------------------
(* Two workers, and four checks of which one fails, for one block after     *)
(* the other.                                                               *)
EXTENDS CheckQueue
=============================================================================
