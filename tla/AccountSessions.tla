--------------------------- MODULE AccountSessions ---------------------------
(***************************************************************************)
(* Sign-in, refresh-token rotation and account administration              *)
(* (modules/auth/service.py, modules/admin/service.py).                    *)
(*                                                                         *)
(* A handler is a session of its own: what it loads, what it commits and   *)
(* the commits of the others in between are separate steps.  A pair id     *)
(* stands for one refresh_tokens row and the access token issued with it.  *)
(***************************************************************************)
EXTENDS Naturals, FiniteSets

CONSTANTS
    Users,          \* accounts; the acting administrators are not among them
    Pairs,          \* refresh row + access token, issued together
    Sessions,       \* requests in flight
    MaxChanges,     \* bound: administrative changes in a behaviour
    None

ASSUME SessionsAssumption ==
    /\ IsFiniteSet(Users) /\ IsFiniteSet(Pairs) /\ IsFiniteSet(Sessions)
    /\ MaxChanges \in Nat
    /\ None \notin Users \cup Pairs

VARIABLES
    users,      \* users table: status and rights
    pairs,      \* refresh_tokens row, with the access token and socket born of it
    req,        \* what each request holds in memory
    changes     \* administrative changes made so far (bounds the model)

vars == <<users, pairs, req, changes>>

\* What a token claims: by the users row (role, can_manage_hospital,
\* can_manage_school) or by a scoped assignment in user_roles.
Rights == {"row", "scoped"}

AccountStatus == {"absent", "active", "suspended"}
UserRow == [status : AccountStatus, rights : SUBSET Rights]

\* refresh: the row; access: the signed token issued with it.
\* escaped: it carries stale claims that no revocation is on its way to: it was
\* inserted after the change, or the request that made the change died (history).
\* succeeded: a rotation of it has inserted its successor (history).
PairRow == [user : Users \cup {None}, rights : SUBSET Rights,
            refresh : {"absent", "live", "revoked"}, access : {"none", "live", "expired"},
            escaped : BOOLEAN, succeeded : BOOLEAN]

NoPair == [user |-> None, rights |-> {}, refresh |-> "absent", access |-> "none",
           escaped |-> FALSE, succeeded |-> FALSE]

Pc == {"idle", "rotate", "reload", "mint", "insert", "revokeAll", "refused"}
Request == [pc : Pc, user : Users \cup {None}, pair : Pairs \cup {None}, rights : SUBSET Rights]
Idle == [pc |-> "idle", user |-> None, pair |-> None, rights |-> {}]

TypeOK ==
    /\ users \in [Users -> UserRow]
    /\ pairs \in [Pairs -> PairRow]
    /\ req \in [Sessions -> Request]
    /\ changes \in 0..MaxChanges

Init ==
    /\ users = [u \in Users |-> [status |-> "absent", rights |-> {}]]
    /\ pairs = [p \in Pairs |-> NoPair]
    /\ req = [s \in Sessions |-> Idle]
    /\ changes = 0

-----------------------------------------------------------------------------
(* Signing in.  A login loads the account and issues from what it loaded.    *)

EnsureActive(u) == users[u].status = "active"

Current(u, rights) == EnsureActive(u) /\ users[u].rights = rights

\* _ensure_active: the 403 says "account is suspended" whatever the status is.
SignIn(s, u) ==
    /\ req[s] = Idle
    /\ req' = [req EXCEPT ![s] = IF EnsureActive(u) THEN [pc |-> "mint", user |-> u, pair |-> None,
                                                            rights |-> users[u].rights]
                                 ELSE [Idle EXCEPT !.pc = "refused", !.user = u]]
    /\ UNCHANGED <<users, pairs, changes>>

AuthenticateUser(s, u) == users[u].status # "absent" /\ SignIn(s, u)

\* Facebook and Google find the account by provider id or email.  A person who
\* has none gets a User that is not flushed yet when _ensure_active reads its
\* status: the column default is applied by the INSERT, so the status is None.
SocialLogin(s, u) == SignIn(s, u)
LoginWithFacebook(s, u) == SocialLogin(s, u)
LoginWithGoogle(s, u) == SocialLogin(s, u)

RegisterUser(s, u) ==
    /\ req[s] = Idle
    /\ users[u].status = "absent"
    /\ users' = [users EXCEPT ![u] = [status |-> "active", rights |-> {}]]
    /\ req' = [req EXCEPT ![s] = [pc |-> "mint", user |-> u, pair |-> None, rights |-> {}]]
    /\ UNCHANGED <<pairs, changes>>

\* The 403 is sent.
Refuse(s) ==
    /\ req[s].pc = "refused"
    /\ req' = [req EXCEPT ![s] = Idle]
    /\ UNCHANGED <<users, pairs, changes>>

\* A handler that dies between two of its steps.
Abandon(s) ==
    /\ req[s] # Idle
    /\ pairs' = IF req[s].pc # "revokeAll" THEN pairs
                ELSE [p \in Pairs |-> IF pairs[p].refresh = "live" /\ pairs[p].user = req[s].user
                                      THEN [pairs[p] EXCEPT !.escaped = @ \/ ~Current(req[s].user, pairs[p].rights)]
                                      ELSE pairs[p]]
    /\ req' = [req EXCEPT ![s] = Idle]
    /\ UNCHANGED <<users, changes>>

-----------------------------------------------------------------------------
(* The token lifecycle.                                                      *)

Revoked(r) == [r EXCEPT !.refresh = "revoked", !.escaped = FALSE]

RevokeAllOf(u) ==
    [p \in Pairs |-> IF pairs[p].user = u /\ pairs[p].refresh = "live"
                     THEN Revoked(pairs[p]) ELSE pairs[p]]

\* Claims: scoped roles come from user_roles when the token is made, the others
\* from the user row as loaded.
MintAccess(s) ==
    /\ req[s].pc = "mint"
    /\ req' = [req EXCEPT ![s].pc = "insert",
                          ![s].rights = (@ \ {"scoped"}) \cup
                                        (users[req[s].user].rights \cap {"scoped"})]
    /\ UNCHANGED <<users, pairs, changes>>

\* MUTANT: the successor copies the claims of the token it replaces
CopyClaims(s) ==
    /\ req[s].pc = "reload"
    /\ req' = [req EXCEPT ![s].pc = "insert", ![s].rights = pairs[req[s].pair].rights]
    /\ UNCHANGED <<users, pairs, changes>>

\* After a rotation's commit expired the loaded user, it is read again.
ReloadUser(s) ==
    /\ req[s].pc = "reload"
    /\ req' = [req EXCEPT ![s].pc = "insert", ![s].rights = users[req[s].user].rights]
    /\ UNCHANGED <<users, pairs, changes>>

\* The successor of a rotation is noted on the pair that was rotated.
Noted(p) == IF p = None THEN pairs ELSE [pairs EXCEPT ![p].succeeded = TRUE]

CommitPair(s) ==
    /\ req[s].pc = "insert"
    /\ \E new \in Pairs :
         /\ pairs[new] = NoPair
         /\ pairs' = [Noted(req[s].pair) EXCEPT ![new] =
                        [NoPair EXCEPT !.user = req[s].user, !.rights = req[s].rights,
                                       !.refresh = "live", !.access = "live",
                                       !.escaped = ~Current(req[s].user, req[s].rights)]]
    /\ req' = [req EXCEPT ![s] = Idle]
    /\ UNCHANGED <<users, changes>>

BeginRotate(s, p) ==
    /\ req[s] = Idle
    /\ pairs[p].refresh = "live"
    /\ EnsureActive(pairs[p].user)
    /\ req' = [req EXCEPT ![s] = [Idle EXCEPT !.pc = "rotate", !.user = pairs[p].user, !.pair = p]]
    /\ UNCHANGED <<users, pairs, changes>>

\* MUTANT: the pair is issued without committing revoked_at
RotateWithoutRevoking(s) ==
    /\ req[s].pc = "rotate"
    /\ req' = [req EXCEPT ![s].pc = "reload"]
    /\ UNCHANGED <<users, pairs, changes>>

CommitRotation(s) ==
    /\ req[s].pc = "rotate"
    /\ pairs' = [pairs EXCEPT ![req[s].pair] = Revoked(@)]
    /\ req' = [req EXCEPT ![s].pc = "reload"]
    /\ UNCHANGED <<users, changes>>

\* A revoked token presented again: every live token of the account goes.
ReplayRevoked(s, p) ==
    /\ req[s] = Idle
    /\ pairs[p].refresh = "revoked"
    /\ pairs' = RevokeAllOf(pairs[p].user)
    /\ UNCHANGED <<users, req, changes>>

Logout(s, p) ==
    /\ req[s] = Idle
    /\ pairs[p].refresh = "live"
    /\ pairs' = [pairs EXCEPT ![p] = Revoked(@)]
    /\ UNCHANGED <<users, req, changes>>

\* get_current_user decodes the access token and asks nothing of the database.
GetCurrentUser(p) == pairs[p].access = "live"

\* What its claims say the caller is, and require_permission and require_roles:
\* the claims are all they look at.
CurrentUser(p) == pairs[p].rights
RequirePermission(p, right) == GetCurrentUser(p) /\ right \in CurrentUser(p)

LogoutAll(s, p) ==
    /\ req[s] = Idle
    /\ GetCurrentUser(p)
    /\ pairs' = RevokeAllOf(pairs[p].user)
    /\ UNCHANGED <<users, req, changes>>

AccessExpires(p) ==
    /\ pairs[p].access = "live"
    /\ pairs' = [pairs EXCEPT ![p].access = "expired"]
    /\ UNCHANGED <<users, req, changes>>

\* Days after the access token, the row expires: every presentation of it is
\* answered 401.  (Its id stands for another pair from here on.)
RefreshExpires(p) ==
    /\ pairs[p].access = "expired"
    /\ \A s \in Sessions : req[s].pair # p
    /\ pairs' = [pairs EXCEPT ![p] = NoPair]
    /\ UNCHANGED <<users, req, changes>>

-----------------------------------------------------------------------------
(* Account administration: commit the change, then revoke in a second        *)
(* transaction.  The actor's token is not modelled: it is another account's, *)
(* so the guards against demoting or suspending oneself pass.                *)

\* MUTANT: the sessions are revoked only when something is taken away
RevokeOnLossOnly(s, u, row) ==
    /\ req[s] = Idle
    /\ changes < MaxChanges
    /\ users[u].status # "absent"
    /\ users' = [users EXCEPT ![u] = row]
    /\ req' = IF row.status = "active" /\ users[u].rights \subseteq row.rights
              THEN req ELSE [req EXCEPT ![s] = [Idle EXCEPT !.pc = "revokeAll", !.user = u]]
    /\ changes' = changes + 1
    /\ UNCHANGED pairs

CommitChange(s, u, row) ==
    /\ req[s] = Idle
    /\ changes < MaxChanges
    /\ users[u].status # "absent"
    /\ users' = [users EXCEPT ![u] = row]
    /\ req' = IF row.status # users[u].status /\ row.status = "active"
              THEN req ELSE [req EXCEPT ![s] = [Idle EXCEPT !.pc = "revokeAll", !.user = u]]
    /\ changes' = changes + 1
    /\ UNCHANGED pairs

\* "row" is whichever of the three columns of users is written.
UpdateRowRights(s, u) ==
    \/ CommitChange(s, u, [users[u] EXCEPT !.rights = @ \cup {"row"}])
    \/ CommitChange(s, u, [users[u] EXCEPT !.rights = @ \ {"row"}])

UpdateUserRole(s, u) == UpdateRowRights(s, u)
UpdateHospitalPermission(s, u) == UpdateRowRights(s, u)
UpdateSchoolPermission(s, u) == UpdateRowRights(s, u)

\* MUTANT: the check against USER_STATUSES is gone
UpdateAnyStatus(s, u) ==
    \E status \in {"active", "suspended", "banned"} \ {users[u].status} :
        CommitChange(s, u, [users[u] EXCEPT !.status = status])

UpdateUserStatus(s, u) ==
    \E status \in {"active", "suspended"} \ {users[u].status} :
        CommitChange(s, u, [users[u] EXCEPT !.status = status])

AddScopedRole(s, u) ==
    /\ "scoped" \notin users[u].rights
    /\ CommitChange(s, u, [users[u] EXCEPT !.rights = @ \cup {"scoped"}])

RemoveScopedRole(s, u) ==
    /\ "scoped" \in users[u].rights
    /\ CommitChange(s, u, [users[u] EXCEPT !.rights = @ \ {"scoped"}])

RevokeAll(s) ==
    /\ req[s].pc = "revokeAll"
    /\ pairs' = RevokeAllOf(req[s].user)
    /\ req' = [req EXCEPT ![s] = Idle]
    /\ UNCHANGED <<users, changes>>

-----------------------------------------------------------------------------
HandlerStep(s) ==
    \/ CommitRotation(s) \/ ReloadUser(s) \/ MintAccess(s) \/ CommitPair(s) \/ RevokeAll(s) \/ Refuse(s)

Administer(s, u) ==
    \/ UpdateUserRole(s, u) \/ UpdateHospitalPermission(s, u) \/ UpdateSchoolPermission(s, u)
    \/ UpdateUserStatus(s, u) \/ AddScopedRole(s, u) \/ RemoveScopedRole(s, u)

Authenticate(s, u) ==
    \/ AuthenticateUser(s, u) \/ LoginWithFacebook(s, u) \/ LoginWithGoogle(s, u) \/ RegisterUser(s, u)

UseTokens(s, p) == BeginRotate(s, p) \/ ReplayRevoked(s, p) \/ Logout(s, p) \/ LogoutAll(s, p)

Next ==
    \/ \E s \in Sessions, u \in Users : Authenticate(s, u) \/ Administer(s, u)
    \/ \E s \in Sessions, p \in Pairs : UseTokens(s, p)
    \/ \E s \in Sessions : HandlerStep(s) \/ Abandon(s)
    \/ \E p \in Pairs : AccessExpires(p) \/ RefreshExpires(p)

\* A handler that was started runs to its end or dies; an access token's
\* lifetime ends; nobody has to send a request.
Fairness ==
    /\ \A s \in Sessions : WF_vars(HandlerStep(s) \/ Abandon(s))
    /\ \A p \in Pairs : WF_vars(AccessExpires(p))

Spec == Init /\ [][Next]_vars /\ Fairness

-----------------------------------------------------------------------------
(* Properties.                                                               *)

\* Reuse detection (auth/service.py:156-160): once a successor of a refresh token
\* exists, no request can begin to rotate that token again.  (Two rotations that
\* both began before either committed do both succeed.)
SpentTokensAreReplays ==
    [][\A s \in Sessions :
         req'[s].pc = "rotate" /\ req[s].pc # "rotate" => ~pairs[req'[s].pair].succeeded]_vars

\* admin/service.py:103 "force re-login so the change takes effect": a refresh
\* token whose claims are out of date, or whose account is suspended, can be
\* live only while the revocation is still to come, when the request died before
\* it, or when the token was inserted after the change from an earlier read.
StaleTokensAreRevoked ==
    \A p \in Pairs :
        (pairs[p].refresh = "live" /\ ~Current(pairs[p].user, pairs[p].rights)) =>
            \/ \E s \in Sessions : req[s].pc = "revokeAll" /\ req[s].user = pairs[p].user
            \/ pairs[p].escaped

\* Whatever was interrupted and however requests interleaved, once administrators
\* stop changing accounts the tokens that open the API come to carry the rights
\* the table grants, to active accounts only (auth/service.py:162-169).
AccessConverges ==
    <>[](\A p \in Pairs : GetCurrentUser(p) =>
            LET u == pairs[p].user IN
            EnsureActive(u) /\ \A right \in Rights : RequirePermission(p, right) <=> right \in users[u].rights)

\* auth/service.py:121 answers 403 "account is suspended": an account refused
\* with it is suspended when it is refused.
SuspendedMeansSuspended ==
    [][\A s \in Sessions :
         req'[s].pc = "refused" /\ req[s].pc # "refused" =>
             users[req'[s].user].status = "suspended"]_vars
=============================================================================
