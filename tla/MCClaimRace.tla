----------------------------- MODULE MCClaimRace -----------------------------
(***************************************************************************)
(* ClaimRace for TLC: engines are alike, and so are the jobs of a kind.    *)
(***************************************************************************)
EXTENDS ClaimRace, TLC

Symmetry == Permutations(Claimer) \cup Permutations(Capped) \cup Permutations(Ranked)
=============================================================================
