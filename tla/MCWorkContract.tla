--------------------------- MODULE MCWorkContract ---------------------------
(* WorkContract on a small instance.  The users are not interchangeable    *)
(* (one of them moderates); the ids of rows are.                           *)
EXTENDS WorkContract, TLC

IdSymmetry ==
    UNION {Permutations(S) : S \in {Users \ Moderators, FaultRulings, Contracts, Problems, Tickets}}

=============================================================================
