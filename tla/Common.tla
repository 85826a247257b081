------------------------------- MODULE Common -------------------------------
(* What every component's module shares. *)
CONSTANT None   \* nothing: no value, no row, nobody
=============================================================================
