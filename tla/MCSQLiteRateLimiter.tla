------------------------- MODULE MCSQLiteRateLimiter --------------------------
(***************************************************************************)
(* Values for checking SQLiteRateLimiter with TLC: two workers, three      *)
(* clients with room for two rows, a burst of one.                         *)
(***************************************************************************)
EXTENDS SQLiteRateLimiter, TLC

Symmetry == Permutations(Workers)
=============================================================================
