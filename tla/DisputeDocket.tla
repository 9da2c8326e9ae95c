---------------------------- MODULE DisputeDocket ---------------------------
(***************************************************************************)
(* What the dispute process promises about one problem, with the tables    *)
(* that carry it left out: a reported problem is settled by the parties or *)
(* goes on the administrators' docket, and a docketed problem leaves the   *)
(* docket once, with a ruling that is never changed.                       *)
(***************************************************************************)
CONSTANTS Problems, Rulings, None

VARIABLES
    stage,   \* problem -> unreported, open, settled, docketed or ruled
    ruling   \* problem -> the ruling on it, if any

docketVars == <<stage, ruling>>

DocketInit ==
    /\ stage = [p \in Problems |-> "unreported"]
    /\ ruling = [p \in Problems |-> None]

Report(p) ==
    /\ stage[p] = "unreported"
    /\ stage' = [stage EXCEPT ![p] = "open"]
    /\ UNCHANGED ruling

Settle(p) ==
    /\ stage[p] = "open"
    /\ stage' = [stage EXCEPT ![p] = "settled"]
    /\ UNCHANGED ruling

Docket(p) ==
    /\ stage[p] = "open"
    /\ stage' = [stage EXCEPT ![p] = "docketed"]
    /\ UNCHANGED ruling

Rule(p, r) ==
    /\ stage[p] = "docketed"
    /\ stage' = [stage EXCEPT ![p] = "ruled"]
    /\ ruling' = [ruling EXCEPT ![p] = r]

DocketNext ==
    \E p \in Problems :
        \/ Report(p) \/ Settle(p) \/ Docket(p)
        \/ \E r \in Rulings : Rule(p, r)

DocketSpec == DocketInit /\ [][DocketNext]_docketVars

=============================================================================
