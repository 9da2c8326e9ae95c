----------------------------- MODULE MCDirectory -----------------------------
(***************************************************************************)
(* ListingModeration, ModeratorScope, Appointments and KnowledgeIndex for  *)
(* TLC.  They share no variable, nor do the two halves of Appointments     *)
(* write the same ones: a behaviour is one part, chosen by side, and TLC   *)
(* explores their sum.  Every property is a safety property.               *)
(*                                                                         *)
(* The listings are explored twice: one listing of any kind whatever is    *)
(* done to it ("listings"), and two products created, reviewed and rated   *)
(* side by side ("scores").  Requests, clerks and jobs are the same model  *)
(* values, so that one permutation serves all sides.                       *)
(***************************************************************************)
EXTENDS ListingModeration, ModeratorScope, Appointments, KnowledgeIndex, TLC

VARIABLE side

MCInit ==
    /\ Init /\ ScopeInit /\ CivicInit /\ IndexInit
    /\ side \in {"listings", "scores", "scope", "posts", "institutions", "index"}
    \* The scope and the index start anywhere in their own side only.
    /\ side # "scope" => tree = [l \in Locations |-> Everywhere] /\ roles = {}
                         /\ moderator.primary = "moderator" /\ moderator.upazila = Everywhere
    /\ side # "index" => kind = "faq"

\* Bounds of the two sides of ListingModeration.  The first leaves ratings, and so
\* automatic approvals, to the second.  What is done to products and shops is done to
\* exchange listings too: for them the first runs requests one at a time.
Busy == {s \in Sessions : req[s] # Idle}
Made == {l \in Listings : listings[l].status # "absent"} \cup {req[s].listing : s \in {t \in Busy : req[t].op = "create"}}
OneListing ==
    /\ Cardinality(Made) <= 1
    /\ \A s \in Sessions : req[s].op # "rate"
    /\ \/ Cardinality(Busy) <= 1
       \/ /\ \A l \in Made : listings[l].kind \notin {"product", "shop"}
          /\ \A s \in Busy : req[s].kind \notin {"product", "shop"}
Products ==
    /\ \A l \in Listings : listings[l].kind \in {None, "product"}
    /\ \A s \in Busy : req[s].op \in {"create", "review", "rate"} /\ req[s].kind \in {None, "product"}

\* The kinds but news do what places do, or less of it: for them, and beside an
\* answer in preparation, the jobs run one at a time.
JobsApart ==
    kind \notin {"place", "news"} \/ chat # NoChat => Cardinality({j \in Jobs : jobs[j] # NoJob}) <= 1

MCNext ==
    /\ UNCHANGED side
    /\ \/ /\ \/ side = "listings" /\ Next /\ OneListing'
             \/ side = "scores" /\ Next /\ Products'
          /\ UNCHANGED <<scopeVars, civicVars, indexVars>>
       \/ side = "scope" /\ ScopeNext /\ UNCHANGED <<vars, civicVars, indexVars>>
       \/ side = "posts" /\ RepNext /\ UNCHANGED <<vars, scopeVars, indexVars>>
       \/ side = "institutions" /\ InstitutionNext /\ UNCHANGED <<vars, scopeVars, indexVars>>
       \/ side = "index" /\ IndexNext /\ JobsApart' /\ UNCHANGED <<vars, scopeVars, civicVars>>

MCSpec == MCInit /\ [][MCNext]_<<vars, scopeVars, civicVars, indexVars, side>>

\* The state of the four modules has its type.
MCTypeOK == TypeOK /\ ScopeTypeOK /\ CivicTypeOK /\ IndexTypeOK

Symmetry == Permutations(Sessions) \cup Permutations(Reps)
=============================================================================
