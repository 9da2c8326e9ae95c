-------------------------- MODULE MCWorkContractTx --------------------------
(* WorkContractTx on a small instance; see the cfg files for the bounds.   *)
EXTENDS WorkContractTx, TLC

IdSymmetry ==
    UNION {Permutations(S) :
              S \in {Users \ Moderators, FaultRulings, Contracts, Problems, Tickets, Sessions}}

\* Who moderates makes no difference to the handlers of the parties, nor to
\* the invariants checked here, so the moderator need not try both sides.
ModeratorHires ==
    \A k \in Contracts : contracts[k].employer \in Moderators \cup {None}

=============================================================================
