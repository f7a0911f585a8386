--------------------------- MODULE MCBackgroundTasks ---------------------------
(***************************************************************************)
(* BackgroundTasks for TLC: two clients of one task name.  Two worker slots *)
(* are enough for a race of two starts, for a restart while the old worker  *)
(* is still there, and for the reuse of a slot.                             *)
(***************************************************************************)
EXTENDS BackgroundTasks

CONSTANTS c1, c2, w1, w2
=============================================================================
