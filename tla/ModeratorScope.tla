---------------------------- MODULE ModeratorScope ----------------------------
(***************************************************************************)
(* Which queue rows a moderator lists and decides (modules/moderation/     *)
(* service.py): the locations under the moderator's roles, found by        *)
(* subtree_location_ids, a walk down the locations table, which is seeded  *)
(* and never edited.  The roles are read by one query: those it returned   *)
(* are the ones of the call.                                               *)
(***************************************************************************)
EXTENDS Naturals, FiniteSets

CONSTANTS
    Locations,
    Everywhere      \* a scope_location_id or a location_id that is NULL

ASSUME ScopeAssumption ==
    IsFiniteSet(Locations) /\ Everywhere \notin Locations

VARIABLES
    tree,           \* locations.parent_id
    moderator,      \* the primary role of the token and the tenant's upazila
    roles,          \* the moderator's user_roles rows, as the query returns them
    call            \* the call of _moderator_scope in progress or just ended

scopeVars == <<tree, moderator, roles, call>>

Place == Locations \cup {Everywhere}

\* moderates: the role carries MARKETPLACE_MODERATE
UserRole == [at : Place, moderates : BOOLEAN]

\* "moderator" stands for every other primary role with MARKETPLACE_MODERATE,
\* "citizen" for every one without it.
Moderator == [primary : {"citizen", "moderator", "upazila_admin"}, upazila : Place]

\* rows: those the loop has left; stack, result: the locals of
\* subtree_location_ids; unscoped: None is returned.
Call == [pc : {"start", "rows", "walk", "end"}, rows : SUBSET UserRole,
         stack : SUBSET Locations, result : SUBSET Locations, scope : SUBSET Locations,
         unscoped : BOOLEAN]

Started == [pc |-> "start", rows |-> {}, stack |-> {}, result |-> {}, scope |-> {},
            unscoped |-> FALSE]

ScopeTypeOK ==
    /\ tree \in [Locations -> Place]
    /\ moderator \in Moderator
    /\ roles \subseteq UserRole
    /\ call \in Call

\* Nothing keeps parent_id from forming a cycle.  Bound: two scoped roles.
ScopeInit ==
    /\ tree \in [Locations -> Place]
    /\ moderator \in Moderator
    /\ \E q, r \in UserRole : roles \in {{}, {r}, {q, r}}
    /\ call = Started

-----------------------------------------------------------------------------
Returned(unscoped) == [call EXCEPT !.pc = "end", !.unscoped = unscoped]

\* _moderator_scope: what the primary role settles by itself, else the query.
ModeratorScope ==
    /\ call.pc = "start"
    /\ call' = CASE moderator.primary = "upazila_admin" /\ moderator.upazila # Everywhere ->
                      [call EXCEPT !.pc = "walk", !.stack = {moderator.upazila}]
                 [] moderator.primary = "citizen" ->
                      [call EXCEPT !.pc = "rows", !.rows = roles]
                 [] OTHER -> Returned(TRUE)
    /\ UNCHANGED <<tree, moderator, roles>>

\* One turn of the loop over the rows.
NextRow(r) ==
    LET rest == [call EXCEPT !.rows = @ \ {r}] IN
    /\ call.pc = "rows"
    /\ r \in call.rows
    /\ call' = CASE ~r.moderates -> rest
                 [] r.moderates /\ r.at = Everywhere -> [rest EXCEPT !.pc = "end", !.unscoped = TRUE]
                 [] OTHER -> [rest EXCEPT !.pc = "walk", !.stack = {r.at}, !.result = {}]
    /\ UNCHANGED <<tree, moderator, roles>>

RowsEnd ==
    /\ call.pc = "rows" /\ call.rows = {}
    /\ call' = Returned(FALSE)
    /\ UNCHANGED <<tree, moderator, roles>>

Children(l) == {c \in Locations : tree[c] = l}

\* MUTANT: a location found before ends the walk (break for continue)
VisitUntilSeen(l) ==
    /\ call.pc = "walk"
    /\ l \in call.stack
    /\ call' = [call EXCEPT !.stack = IF l \in call.result THEN {} ELSE (@ \ {l}) \cup Children(l),
                            !.result = @ \cup {l}]
    /\ UNCHANGED <<tree, moderator, roles>>

\* One turn of the loop of subtree_location_ids.
Visit(l) ==
    /\ call.pc = "walk"
    /\ l \in call.stack
    /\ call' = [call EXCEPT !.stack = (@ \ {l}) \cup IF l \in call.result THEN {} ELSE Children(l),
                            !.result = @ \cup {l}]
    /\ UNCHANGED <<tree, moderator, roles>>

\* scope |= the subtree, or the subtree itself for an upazila_admin.
WalkEnd ==
    /\ call.pc = "walk" /\ call.stack = {}
    /\ call' = [call EXCEPT !.pc = IF moderator.primary = "citizen" THEN "rows" ELSE "end",
                            !.scope = @ \cup call.result]
    /\ UNCHANGED <<tree, moderator, roles>>

\* The request is answered; another begins.
NextCall ==
    /\ call.pc = "end"
    /\ call' = Started
    /\ UNCHANGED <<tree, moderator, roles>>

ScopeNext ==
    \/ ModeratorScope \/ RowsEnd \/ WalkEnd \/ NextCall
    \/ \E r \in roles : NextRow(r)
    \/ \E l \in Locations : Visit(l)

ScopeSpec == ScopeInit /\ [][ScopeNext]_scopeVars

\* list_queue and get_stats: location_id IN scope
Lists(location) == call.unscoped \/ location \in call.scope

\* _assert_in_scope
MayReview(location, dispute) == dispute \/ call.unscoped \/ location \in call.scope

-----------------------------------------------------------------------------

ParentOf(l) == IF l = Everywhere THEN Everywhere ELSE tree[l]

\* core/location_scope.py is_location_within: the walk up from the location, of
\* eight turns at most.
Climb(l) ==
    LET up[k \in 0..7] == IF k = 0 THEN l ELSE ParentOf(up[k-1]) IN up

IsLocationWithin(l, ancestor) ==
    \/ ancestor = Everywhere
    \/ l # Everywhere /\ \E n \in 0..7 : Climb(l)[n] = ancestor

\* The scopes the moderator's roles give (the docstring of _moderator_scope).
ScopesGiven ==
    CASE moderator.primary = "upazila_admin" -> {moderator.upazila}
      [] moderator.primary = "moderator" -> {Everywhere}
      [] OTHER -> {r.at : r \in {q \in roles : q.moderates}}

\* moderation/service.py:171 "the union of location subtrees the moderator's
\* scoped roles cover", with core/location_scope.py:11 as what a subtree is: once
\* the walks end, a listing's row is listed, and may be decided, exactly if its
\* location is within one of the scopes, for any parent_ids, overlapping scopes
\* and cycles included; a dispute may be decided by every moderator, and is listed
\* only for an unscoped one.
ScopeIsSubtree ==
    call.pc = "end" =>
        \A l \in Place :
            LET within == \E a \in ScopesGiven : IsLocationWithin(l, a) IN
            /\ Lists(l) = within
            /\ MayReview(l, FALSE) = within
            /\ MayReview(Everywhere, TRUE)
=============================================================================
