------------------------- MODULE MCMemoryRateLimiter --------------------------
(***************************************************************************)
(* Values for checking MemoryRateLimiter with TLC: three clients, room for *)
(* two, two ticks to the second.                                           *)
(***************************************************************************)
EXTENDS MemoryRateLimiter, TLC

Symmetry == Permutations(Clients)
=============================================================================
