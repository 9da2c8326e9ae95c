------------------------ MODULE AccountSessionsProofs ------------------------
(***************************************************************************)
(* Proofs about AccountSessions, for any number of accounts, token pairs,  *)
(* requests in flight and administrative changes.                          *)
(***************************************************************************)
EXTENDS AccountSessions, TLAPS

-----------------------------------------------------------------------------
(* The inductive invariant.                                                *)

\* A request that is under way is about an account, and one that rotates a
\* refresh token holds its row.
RequestsAreBound ==
    \A s \in Sessions :
        /\ req[s].pc # "idle" => req[s].user \in Users
        /\ req[s].pc \in {"rotate", "reload"} => req[s].pair \in Pairs
        /\ req[s].pair # None => req[s].pc \in {"rotate", "reload", "insert"}

\* A refresh row belongs to an account.
RowsAreOwned ==
    \A p \in Pairs : pairs[p].refresh # "absent" => pairs[p].user \in Users

\* A row a rotation holds stays in the table, its id is not given to another pair,
\* and once the rotation has committed revoked_at it stays revoked.
RotatedStaysRevoked ==
    \A s \in Sessions :
        req[s].pair # None =>
            /\ pairs[req[s].pair].refresh # "absent"
            /\ req[s].pc \in {"reload", "insert"} => pairs[req[s].pair].refresh = "revoked"

\* A token that has a successor is no longer live.
SpentIsNotLive ==
    \A p \in Pairs : pairs[p].succeeded => pairs[p].refresh # "live"

SessionsInv ==
    /\ TypeOK
    /\ RequestsAreBound /\ RowsAreOwned /\ RotatedStaysRevoked /\ SpentIsNotLive

-----------------------------------------------------------------------------
(* Rows and requests.                                                      *)

\* What the handlers store are rows of the two tables.
LEMMA RowsClosed ==
    /\ NoPair \in PairRow
    /\ \A r \in PairRow : Revoked(r) \in PairRow
    /\ \A r \in PairRow : [r EXCEPT !.succeeded = TRUE] \in PairRow
    /\ \A r \in PairRow, b \in BOOLEAN : [r EXCEPT !.escaped = b] \in PairRow
    /\ Idle \in Request
BY DEF NoPair, PairRow, Revoked, Idle, Request, Pc

\* Revoking every live token of an account revokes rows in place.
LEMMA RevokeAllOfType ==
    ASSUME pairs \in [Pairs -> PairRow], NEW u
    PROVE  /\ RevokeAllOf(u) \in [Pairs -> PairRow]
           /\ \A p \in Pairs :
                 RevokeAllOf(u)[p] = IF pairs[p].user = u /\ pairs[p].refresh = "live"
                                     THEN Revoked(pairs[p]) ELSE pairs[p]
BY RowsClosed DEF RevokeAllOf

\* A revoked row keeps everything but its state.
LEMMA RevokedRow ==
    ASSUME NEW r \in PairRow
    PROVE  /\ Revoked(r).refresh = "revoked" /\ Revoked(r).user = r.user
           /\ Revoked(r).rights = r.rights /\ Revoked(r).succeeded = r.succeeded
           /\ Revoked(r).access = r.access
BY DEF PairRow, Revoked

-----------------------------------------------------------------------------
(* Every step keeps the invariant.                                         *)

\* No table row and no request at the start.
LEMMA SessionsInit == Init => SessionsInv
<1> SUFFICES ASSUME Init PROVE SessionsInv
  OBVIOUS
<1>1. TypeOK
  BY RowsClosed, SessionsAssumption DEF Init, TypeOK, UserRow, AccountStatus
<1> QED
  BY <1>1, SessionsAssumption DEF Init, SessionsInv, RequestsAreBound, RowsAreOwned,
     RotatedStaysRevoked, SpentIsNotLive, NoPair, Idle

\* A step that changes neither pairs nor changes and moves one request on: what
\* has to be said of the request is all there is to prove.
LEMMA RequestMoves ==
    ASSUME SessionsInv, NEW s \in Sessions, NEW r \in Request,
           users' \in [Users -> UserRow], req' = [req EXCEPT ![s] = r],
           UNCHANGED <<pairs, changes>>,
           r.pc # "idle" => r.user \in Users,
           r.pc \in {"rotate", "reload"} => r.pair \in Pairs,
           r.pair # None => r.pc \in {"rotate", "reload", "insert"},
           r.pair # None =>
              /\ pairs[r.pair].refresh # "absent"
              /\ r.pc \in {"reload", "insert"} => pairs[r.pair].refresh = "revoked"
    PROVE  SessionsInv'
<1>1. TypeOK'
  BY DEF SessionsInv, TypeOK
<1>2. \A t \in Sessions : req'[t] = IF t = s THEN r ELSE req[t]
  BY DEF SessionsInv, TypeOK
<1>3. RequestsAreBound'
  BY <1>2 DEF SessionsInv, RequestsAreBound
<1>4. RotatedStaysRevoked'
  BY <1>2 DEF SessionsInv, RotatedStaysRevoked
<1> QED
  BY <1>1, <1>3, <1>4 DEF SessionsInv, RowsAreOwned, SpentIsNotLive

\* A step that leaves the requests that hold a row alone and revokes or ages rows
\* in place: no row becomes live, and a revoked one stays revoked.
LEMMA RowsAge ==
    ASSUME SessionsInv, pairs' \in [Pairs -> PairRow], UNCHANGED <<users, changes>>,
           req' \in [Sessions -> Request],
           \A s \in Sessions : req'[s] = req[s] \/ req'[s] = Idle,
           \A p \in Pairs :
              /\ pairs'[p].refresh # "absent" => pairs'[p].user = pairs[p].user /\ pairs[p].refresh # "absent"
              /\ pairs'[p].succeeded => pairs[p].succeeded
              /\ pairs'[p].refresh = "live" => pairs[p].refresh = "live"
              /\ \A s \in Sessions : req'[s].pair = p =>
                    /\ pairs[p].refresh # "absent" => pairs'[p].refresh # "absent"
                    /\ pairs[p].refresh = "revoked" => pairs'[p].refresh = "revoked"
    PROVE  SessionsInv'
<1>1. TypeOK'
  BY DEF SessionsInv, TypeOK
<1>2. RequestsAreBound'
  BY DEF SessionsInv, RequestsAreBound, Idle
<1>3. RotatedStaysRevoked'
  BY SessionsAssumption DEF SessionsInv, RotatedStaysRevoked, Idle, TypeOK, Request
<1> QED
  BY <1>1, <1>2, <1>3 DEF SessionsInv, RowsAreOwned, SpentIsNotLive

\* Signing in starts a request, or is refused.
LEMMA SignInSteps ==
    ASSUME SessionsInv, NEW s \in Sessions, NEW u \in Users,
           SignIn(s, u) \/ RegisterUser(s, u)
    PROVE  SessionsInv'
<1>1. CASE SignIn(s, u)
  <2>1. users[u].rights \subseteq Rights
    BY DEF SessionsInv, TypeOK, UserRow
  <2> DEFINE r == IF EnsureActive(u) THEN [pc |-> "mint", user |-> u, pair |-> None,
                                           rights |-> users[u].rights]
                  ELSE [Idle EXCEPT !.pc = "refused", !.user = u]
  <2>2. /\ r \in Request /\ r.user = u /\ r.pair = None
        /\ r.pc \in {"mint", "refused"}
    BY <2>1 DEF Request, Pc, Idle
  <2>3. req' = [req EXCEPT ![s] = r] /\ users' = users /\ UNCHANGED <<pairs, changes>>
    BY <1>1 DEF SignIn
  <2> HIDE DEF r
  <2> QED
    BY <2>2, <2>3, RequestMoves DEF SessionsInv, TypeOK
<1>2. CASE RegisterUser(s, u)
  <2> DEFINE r == [pc |-> "mint", user |-> u, pair |-> None, rights |-> {}]
  <2>1. r \in Request /\ r.user = u /\ r.pair = None /\ r.pc = "mint"
    BY DEF Request, Pc
  <2>2. users' \in [Users -> UserRow]
    BY <1>2 DEF RegisterUser, SessionsInv, TypeOK, UserRow, AccountStatus
  <2>3. req' = [req EXCEPT ![s] = r] /\ UNCHANGED <<pairs, changes>>
    BY <1>2 DEF RegisterUser
  <2> HIDE DEF r
  <2> QED
    BY <2>1, <2>2, <2>3, RequestMoves
<1> QED
  BY <1>1, <1>2

\* A request that issues tokens goes on, or begins to rotate one.
LEMMA TokenRequests ==
    ASSUME SessionsInv, NEW s \in Sessions,
           MintAccess(s) \/ ReloadUser(s) \/ Refuse(s) \/ \E p \in Pairs : BeginRotate(s, p)
    PROVE  SessionsInv'
<1>1. CASE MintAccess(s)
  <2> DEFINE r == [req[s] EXCEPT !.pc = "insert",
                                 !.rights = (@ \ {"scoped"}) \cup (users[req[s].user].rights \cap {"scoped"})]
  <2>1. r \in Request /\ r.user = req[s].user /\ r.pair = req[s].pair /\ r.pc = "insert"
    BY DEF SessionsInv, TypeOK, Request, Pc, Rights
  <2>2. req' = [req EXCEPT ![s] = r] /\ users' = users /\ UNCHANGED <<pairs, changes>>
    BY <1>1 DEF MintAccess
  <2>3. req[s].user \in Users /\ req[s].pair = None
    BY <1>1 DEF MintAccess, SessionsInv, RequestsAreBound
  <2> HIDE DEF r
  <2> QED
    BY <2>1, <2>2, <2>3, RequestMoves DEF SessionsInv, TypeOK
<1>2. CASE ReloadUser(s)
  <2> DEFINE r == [req[s] EXCEPT !.pc = "insert", !.rights = users[req[s].user].rights]
  <2>1. req[s].user \in Users /\ req[s].pair \in Pairs
    BY <1>2 DEF ReloadUser, SessionsInv, RequestsAreBound
  <2>2. users[req[s].user].rights \subseteq Rights
    BY <2>1 DEF SessionsInv, TypeOK, UserRow
  <2>3. r \in Request /\ r.user = req[s].user /\ r.pair = req[s].pair /\ r.pc = "insert"
    BY <2>2 DEF SessionsInv, TypeOK, Request, Pc
  <2>4. req' = [req EXCEPT ![s] = r] /\ users' = users /\ UNCHANGED <<pairs, changes>>
    BY <1>2 DEF ReloadUser
  <2>5. pairs[req[s].pair].refresh = "revoked"
    BY <1>2, <2>1, SessionsAssumption DEF ReloadUser, SessionsInv, RotatedStaysRevoked
  <2> HIDE DEF r
  <2> QED
    BY <2>1, <2>3, <2>4, <2>5, RequestMoves DEF SessionsInv, TypeOK
<1>3. CASE Refuse(s)
  <2>1. req' = [req EXCEPT ![s] = Idle] /\ users' = users /\ UNCHANGED <<pairs, changes>>
    BY <1>3 DEF Refuse
  <2>2. Idle.pc = "idle" /\ Idle.pair = None
    BY DEF Idle
  <2> QED
    BY <2>1, <2>2, RowsClosed, RequestMoves DEF SessionsInv, TypeOK
<1>4. ASSUME NEW p \in Pairs, BeginRotate(s, p) PROVE SessionsInv'
  <2> DEFINE r == [Idle EXCEPT !.pc = "rotate", !.user = pairs[p].user, !.pair = p]
  <2>1. pairs[p].user \in Users /\ pairs[p].refresh # "absent"
    BY <1>4 DEF BeginRotate, SessionsInv, RowsAreOwned
  <2>2. r \in Request /\ r.user \in Users /\ r.pair = p /\ r.pc = "rotate"
    BY <2>1 DEF Request, Pc, Idle
  <2>3. req' = [req EXCEPT ![s] = r] /\ users' = users /\ UNCHANGED <<pairs, changes>>
    BY <1>4 DEF BeginRotate
  <2> HIDE DEF r
  <2> QED
    BY <2>1, <2>2, <2>3, RequestMoves DEF SessionsInv, TypeOK
<1> QED
  BY <1>1, <1>2, <1>3, <1>4

\* Rows revoked one at a time, or all those of an account; rows that grow old.
LEMMA RowSteps ==
    ASSUME SessionsInv,
           \/ \E s \in Sessions, p \in Pairs : ReplayRevoked(s, p) \/ Logout(s, p) \/ LogoutAll(s, p)
           \/ \E s \in Sessions : RevokeAll(s) \/ Abandon(s)
           \/ \E p \in Pairs : AccessExpires(p) \/ RefreshExpires(p)
    PROVE  SessionsInv'
<1> USE DEF SessionsInv, TypeOK
<1>1. ASSUME NEW u, pairs' = RevokeAllOf(u), UNCHANGED <<users, changes>>,
             \A s \in Sessions : req'[s] = req[s] \/ req'[s] = Idle, req' \in [Sessions -> Request]
      PROVE  SessionsInv'
  BY <1>1, RevokeAllOfType, RevokedRow, RowsAge
<1>2. ASSUME NEW s \in Sessions, NEW p \in Pairs, ReplayRevoked(s, p) PROVE SessionsInv'
  BY <1>1, <1>2 DEF ReplayRevoked
<1>3. ASSUME NEW s \in Sessions, NEW p \in Pairs, LogoutAll(s, p) PROVE SessionsInv'
  BY <1>1, <1>3 DEF LogoutAll
<1>4. ASSUME NEW s \in Sessions, RevokeAll(s) PROVE SessionsInv'
  BY <1>1, <1>4, RowsClosed DEF RevokeAll
<1>5. ASSUME NEW s \in Sessions, NEW p \in Pairs, Logout(s, p) PROVE SessionsInv'
  <2>1. pairs' \in [Pairs -> PairRow] /\ \A q \in Pairs : pairs'[q] = IF q = p THEN Revoked(pairs[p]) ELSE pairs[q]
    BY <1>5, RowsClosed DEF Logout
  <2> QED
    BY <1>5, <2>1, RevokedRow, RowsAge DEF Logout
<1>6. ASSUME NEW s \in Sessions, Abandon(s) PROVE SessionsInv'
  <2> DEFINE marked(p) == [pairs[p] EXCEPT !.escaped = @ \/ ~Current(req[s].user, pairs[p].rights)]
  <2>1. ASSUME NEW p \in Pairs
        PROVE  /\ marked(p) \in PairRow /\ marked(p).user = pairs[p].user
               /\ marked(p).refresh = pairs[p].refresh /\ marked(p).succeeded = pairs[p].succeeded
    BY DEF PairRow, Current, EnsureActive
  <2>2. pairs' \in [Pairs -> PairRow]
    BY <1>6, <2>1 DEF Abandon
  <2>3. \A p \in Pairs : /\ pairs'[p].user = pairs[p].user /\ pairs'[p].refresh = pairs[p].refresh
                         /\ pairs'[p].succeeded = pairs[p].succeeded
    BY <1>6, <2>1 DEF Abandon
  <2>4. \A t \in Sessions : req'[t] = req[t] \/ req'[t] = Idle
    BY <1>6 DEF Abandon
  <2>5. req' \in [Sessions -> Request] /\ UNCHANGED <<users, changes>>
    BY <1>6, RowsClosed DEF Abandon
  <2> QED
    BY <2>2, <2>3, <2>4, <2>5, RowsAge
<1>7. ASSUME NEW p \in Pairs, AccessExpires(p) PROVE SessionsInv'
  <2>1. /\ pairs' \in [Pairs -> PairRow]
        /\ \A q \in Pairs : /\ pairs'[q].user = pairs[q].user /\ pairs'[q].refresh = pairs[q].refresh
                            /\ pairs'[q].succeeded = pairs[q].succeeded
    BY <1>7 DEF AccessExpires, PairRow
  <2> QED
    BY <1>7, <2>1, RowsAge DEF AccessExpires
<1>8. ASSUME NEW p \in Pairs, RefreshExpires(p) PROVE SessionsInv'
  <2>1. pairs' \in [Pairs -> PairRow] /\ \A q \in Pairs : pairs'[q] = IF q = p THEN NoPair ELSE pairs[q]
    BY <1>8, RowsClosed DEF RefreshExpires
  <2>2. NoPair.refresh = "absent" /\ NoPair.succeeded = FALSE
    BY DEF NoPair
  <2> QED
    BY <1>8, <2>1, <2>2, RowsAge DEF RefreshExpires
<1> QED
  BY <1>2, <1>3, <1>4, <1>5, <1>6, <1>7, <1>8

\* A rotation revokes the row it holds: from here on it stays revoked.
LEMMA RotationCommits ==
    ASSUME SessionsInv, NEW s \in Sessions, CommitRotation(s)
    PROVE  SessionsInv'
<1> DEFINE p == req[s].pair
<1>1. p \in Pairs /\ req[s].user \in Users /\ pairs[p].refresh # "absent"
  BY SessionsAssumption DEF CommitRotation, SessionsInv, RequestsAreBound, RotatedStaysRevoked
<1>2. pairs' \in [Pairs -> PairRow] /\ \A q \in Pairs : pairs'[q] = IF q = p THEN Revoked(pairs[q]) ELSE pairs[q]
  BY <1>1, RowsClosed DEF CommitRotation, SessionsInv, TypeOK
<1>3. /\ req' \in [Sessions -> Request]
      /\ \A t \in Sessions : req'[t] = IF t = s THEN [req[s] EXCEPT !.pc = "reload"] ELSE req[t]
  BY DEF CommitRotation, SessionsInv, TypeOK, Request, Pc
<1>4. /\ req'[s].pc = "reload" /\ req'[s].user = req[s].user /\ req'[s].pair = p
  BY <1>3 DEF SessionsInv, TypeOK, Request
<1>5. TypeOK'
  BY <1>2, <1>3 DEF CommitRotation, SessionsInv, TypeOK
<1>6. RequestsAreBound'
  BY <1>1, <1>3, <1>4 DEF SessionsInv, RequestsAreBound
<1>7. RotatedStaysRevoked'
  <2> SUFFICES ASSUME NEW t \in Sessions, req'[t].pair # None
               PROVE  /\ pairs'[req'[t].pair].refresh # "absent"
                      /\ req'[t].pc \in {"reload", "insert"} => pairs'[req'[t].pair].refresh = "revoked"
    BY DEF RotatedStaysRevoked
  <2>1. CASE t = s
    BY <1>1, <1>2, <1>4, <2>1, RevokedRow DEF SessionsInv, TypeOK
  <2>2. CASE t # s
    <3>1. req'[t] = req[t] /\ req[t].pair \in Pairs
      BY <1>3, <2>2 DEF SessionsInv, TypeOK, Request
    <3>2. /\ pairs[req[t].pair].refresh # "absent"
          /\ req[t].pc \in {"reload", "insert"} => pairs[req[t].pair].refresh = "revoked"
      BY <3>1 DEF SessionsInv, RotatedStaysRevoked
    <3> QED
      BY <1>2, <3>1, <3>2, RevokedRow DEF SessionsInv, TypeOK
  <2> QED
    BY <2>1, <2>2
<1>8. RowsAreOwned' /\ SpentIsNotLive'
  BY <1>1, <1>2, RevokedRow DEF SessionsInv, TypeOK, RowsAreOwned, SpentIsNotLive
<1> QED
  BY <1>5, <1>6, <1>7, <1>8 DEF SessionsInv

\* The successor is inserted under an id no row has, and noted on the row that was
\* rotated, which is revoked by then.
LEMMA PairCommits ==
    ASSUME SessionsInv, NEW s \in Sessions, CommitPair(s)
    PROVE  SessionsInv'
<1> DEFINE p == req[s].pair
           row == [NoPair EXCEPT !.user = req[s].user, !.rights = req[s].rights,
                                 !.refresh = "live", !.access = "live",
                                 !.escaped = ~Current(req[s].user, req[s].rights)]
<1>1. PICK new \in Pairs : pairs[new] = NoPair /\ pairs' = [Noted(p) EXCEPT ![new] = row]
  BY DEF CommitPair
<1>2. /\ req[s].user \in Users /\ req[s].rights \subseteq Rights /\ req[s].pc = "insert"
      /\ p # None => p \in Pairs /\ pairs[p].refresh = "revoked"
  BY DEF CommitPair, SessionsInv, TypeOK, Request, RequestsAreBound, RotatedStaysRevoked
<1>3. /\ row \in PairRow /\ row.user \in Users /\ row.refresh = "live" /\ row.succeeded = FALSE
      /\ NoPair.refresh = "absent"
  BY <1>2 DEF NoPair, PairRow, Current, EnsureActive
<1> HIDE DEF row
<1>4. /\ Noted(p) \in [Pairs -> PairRow]
      /\ \A q \in Pairs : Noted(p)[q] = IF q = p THEN [pairs[q] EXCEPT !.succeeded = TRUE] ELSE pairs[q]
  BY <1>2, RowsClosed, SessionsAssumption DEF Noted, SessionsInv, TypeOK
<1>5. \A q \in Pairs : /\ Noted(p)[q].user = pairs[q].user /\ Noted(p)[q].refresh = pairs[q].refresh
                       /\ q # p => Noted(p)[q].succeeded = pairs[q].succeeded
  BY <1>4 DEF SessionsInv, TypeOK, PairRow
<1>6. pairs' \in [Pairs -> PairRow] /\ \A q \in Pairs : pairs'[q] = IF q = new THEN row ELSE Noted(p)[q]
  BY <1>1, <1>3, <1>4
<1>7. req' \in [Sessions -> Request] /\ \A t \in Sessions : req'[t] = IF t = s THEN Idle ELSE req[t]
  BY RowsClosed DEF CommitPair, SessionsInv, TypeOK
<1>8. TypeOK'
  BY <1>6, <1>7 DEF CommitPair, SessionsInv, TypeOK
<1>9. RequestsAreBound'
  BY <1>7 DEF SessionsInv, RequestsAreBound, Idle
<1>10. RotatedStaysRevoked'
  <2> SUFFICES ASSUME NEW t \in Sessions, req'[t].pair # None
               PROVE  /\ pairs'[req'[t].pair].refresh # "absent"
                      /\ req'[t].pc \in {"reload", "insert"} => pairs'[req'[t].pair].refresh = "revoked"
    BY DEF RotatedStaysRevoked
  <2>1. req'[t] = req[t] /\ req[t].pair \in Pairs
    BY <1>7 DEF Idle, SessionsInv, TypeOK, Request
  <2>2. /\ pairs[req[t].pair].refresh # "absent"
        /\ req[t].pc \in {"reload", "insert"} => pairs[req[t].pair].refresh = "revoked"
    BY <2>1 DEF SessionsInv, RotatedStaysRevoked
  <2>3. req[t].pair # new
    BY <1>1, <1>3, <2>2
  <2> QED
    BY <1>5, <1>6, <2>1, <2>2, <2>3
<1>11. RowsAreOwned' /\ SpentIsNotLive'
  <2>1. ASSUME NEW q \in Pairs, pairs'[q].refresh # "absent" PROVE pairs'[q].user \in Users
    BY <1>3, <1>5, <1>6, <2>1 DEF SessionsInv, RowsAreOwned
  <2>2. ASSUME NEW q \in Pairs, pairs'[q].succeeded PROVE pairs'[q].refresh # "live"
    <3>1. CASE q = new
      BY <1>3, <1>6, <2>2, <3>1
    <3>2. CASE q # new /\ q = p
      BY <1>2, <1>5, <1>6, <3>2, SessionsAssumption
    <3>3. CASE q # new /\ q # p
      BY <1>5, <1>6, <2>2, <3>3 DEF SessionsInv, SpentIsNotLive
    <3> QED
      BY <3>1, <3>2, <3>3
  <2> QED
    BY <2>1, <2>2 DEF RowsAreOwned, SpentIsNotLive
<1> QED
  BY <1>8, <1>9, <1>10, <1>11 DEF SessionsInv

\* Every operation of the administration is the commit of a change to one account.
LEMMA AdministerIsChange ==
    ASSUME SessionsInv, NEW s \in Sessions, NEW u \in Users, Administer(s, u)
    PROVE  \E row \in UserRow : /\ CommitChange(s, u, row)
                                /\ row.status # users[u].status => row.rights = users[u].rights
<1>1. users[u] \in UserRow
  BY DEF SessionsInv, TypeOK
<1>2. CASE UpdateRowRights(s, u)
  BY <1>1, <1>2 DEF UpdateRowRights, UserRow, Rights
<1>3. CASE UpdateUserStatus(s, u)
  <2>1. PICK status \in {"active", "suspended"} : CommitChange(s, u, [users[u] EXCEPT !.status = status])
    BY <1>3 DEF UpdateUserStatus
  <2>2. /\ [users[u] EXCEPT !.status = status] \in UserRow
        /\ [users[u] EXCEPT !.status = status].rights = users[u].rights
    BY <1>1 DEF UserRow, AccountStatus
  <2> QED
    BY <2>1, <2>2
<1>4. CASE AddScopedRole(s, u) \/ RemoveScopedRole(s, u)
  BY <1>1, <1>4 DEF AddScopedRole, RemoveScopedRole, UserRow, Rights
<1> QED
  BY <1>2, <1>3, <1>4 DEF Administer, UpdateUserRole, UpdateHospitalPermission, UpdateSchoolPermission

\* The change is committed; the revocation, if one is due, is still to come.
LEMMA ChangeCommits ==
    ASSUME SessionsInv, NEW s \in Sessions, NEW u \in Users, NEW row \in UserRow,
           CommitChange(s, u, row)
    PROVE  SessionsInv'
<1>1. users' \in [Users -> UserRow] /\ changes' \in 0..MaxChanges
  BY SessionsAssumption DEF CommitChange, SessionsInv, TypeOK
<1>2. /\ [Idle EXCEPT !.pc = "revokeAll", !.user = u] \in Request
      /\ [Idle EXCEPT !.pc = "revokeAll", !.user = u].pair = None
      /\ [Idle EXCEPT !.pc = "revokeAll", !.user = u].user = u
      /\ [Idle EXCEPT !.pc = "revokeAll", !.user = u].pc = "revokeAll"
  BY DEF Idle, Request, Pc
<1>3. /\ req' \in [Sessions -> Request]
      /\ \A t \in Sessions : req'[t] = req[t] \/ req'[t] = [Idle EXCEPT !.pc = "revokeAll", !.user = u]
  BY <1>2 DEF CommitChange, SessionsInv, TypeOK
<1>4. TypeOK'
  BY <1>1, <1>3 DEF CommitChange, SessionsInv, TypeOK
<1>5. RequestsAreBound' /\ RotatedStaysRevoked'
  BY <1>2, <1>3 DEF CommitChange, SessionsInv, RequestsAreBound, RotatedStaysRevoked
<1> QED
  BY <1>4, <1>5 DEF CommitChange, SessionsInv, RowsAreOwned, SpentIsNotLive

\* Every step of a request, of the administration and of time keeps the invariant.
LEMMA SessionsStep == SessionsInv /\ [Next]_vars => SessionsInv'
<1> SUFFICES ASSUME SessionsInv, [Next]_vars PROVE SessionsInv'
  OBVIOUS
<1>1. ASSUME NEW s \in Sessions, NEW u \in Users, Authenticate(s, u) PROVE SessionsInv'
  BY <1>1, SignInSteps DEF Authenticate, AuthenticateUser, LoginWithFacebook, LoginWithGoogle, SocialLogin
<1>2. ASSUME NEW s \in Sessions, NEW u \in Users, Administer(s, u) PROVE SessionsInv'
  BY <1>2, AdministerIsChange, ChangeCommits
<1>3. ASSUME NEW s \in Sessions, NEW p \in Pairs, UseTokens(s, p) PROVE SessionsInv'
  BY <1>3, TokenRequests, RowSteps DEF UseTokens
<1>4. ASSUME NEW s \in Sessions, HandlerStep(s) \/ Abandon(s) PROVE SessionsInv'
  BY <1>4, RotationCommits, TokenRequests, PairCommits, RowSteps DEF HandlerStep
<1>5. ASSUME NEW p \in Pairs, AccessExpires(p) \/ RefreshExpires(p) PROVE SessionsInv'
  BY <1>5, RowSteps
<1>6. CASE UNCHANGED vars
  BY <1>6 DEF vars, SessionsInv, TypeOK, RequestsAreBound, RowsAreOwned, RotatedStaysRevoked, SpentIsNotLive
<1> QED
  BY <1>1, <1>2, <1>3, <1>4, <1>5, <1>6 DEF Next

\* The invariant holds throughout, whatever requests, deaths and expiries occur.
LEMMA SessionsAlways == Spec => []SessionsInv
BY SessionsInit, SessionsStep, PTL DEF Spec

\* Tables and requests stay well typed, for any number of accounts, tokens and
\* requests in flight.
THEOREM SessionsTypeCorrect == Spec => []TypeOK
<1>1. SessionsInv => TypeOK
  BY DEF SessionsInv
<1> QED
  BY <1>1, SessionsAlways, PTL

-----------------------------------------------------------------------------
(* Reuse detection.                                                        *)

\* Only a row that is live, so one without a successor, is taken up for rotation
\* (auth/service.py:156-160): a spent token can only be presented as a replay.
LEMMA SpentStep ==
    SessionsInv /\ [Next]_vars =>
        \A s \in Sessions :
            req'[s].pc = "rotate" /\ req[s].pc # "rotate" => ~pairs[req'[s].pair].succeeded
<1> SUFFICES ASSUME SessionsInv, [Next]_vars, NEW s \in Sessions,
                    req'[s].pc = "rotate", req[s].pc # "rotate"
             PROVE  ~pairs[req'[s].pair].succeeded
  OBVIOUS
<1> USE DEF SessionsInv, TypeOK, Request
<1>1. ASSUME NEW t \in Sessions, NEW p \in Pairs, BeginRotate(t, p)
      PROVE  ~pairs[req'[s].pair].succeeded
  <2>1. req'[s].pair = p
    BY <1>1 DEF BeginRotate, Idle
  <2> QED
    BY <1>1, <2>1 DEF BeginRotate, SpentIsNotLive
<1>0. ASSUME NEW t \in Sessions, NEW r, r.pc # "rotate", req' = [req EXCEPT ![t] = r] PROVE FALSE
  BY <1>0
<1>2. ASSUME NEW t \in Sessions, NEW u \in Users, Authenticate(t, u) PROVE FALSE
  <2>1. CASE SignIn(t, u)
    <3> DEFINE r == IF EnsureActive(u) THEN [pc |-> "mint", user |-> u, pair |-> None,
                                             rights |-> users[u].rights]
                    ELSE [Idle EXCEPT !.pc = "refused", !.user = u]
    <3>1. r.pc # "rotate"
      BY DEF Idle
    <3>2. req' = [req EXCEPT ![t] = r]
      BY <2>1 DEF SignIn
    <3> QED
      BY <1>0, <3>1, <3>2
  <2>2. CASE RegisterUser(t, u)
    BY <1>0, <2>2 DEF RegisterUser
  <2> QED
    BY <1>2, <2>1, <2>2 DEF Authenticate, AuthenticateUser, LoginWithFacebook, LoginWithGoogle,
       SocialLogin
<1>3. ASSUME NEW t \in Sessions, NEW u \in Users, Administer(t, u) PROVE FALSE
  <2>1. [Idle EXCEPT !.pc = "revokeAll", !.user = u].pc = "revokeAll"
    BY DEF Idle
  <2>2. PICK row \in UserRow : CommitChange(t, u, row)
    BY <1>3, AdministerIsChange
  <2> QED
    BY <1>0, <2>1, <2>2 DEF CommitChange
<1>4. ASSUME NEW t \in Sessions, HandlerStep(t) \/ Abandon(t) PROVE FALSE
  BY <1>4 DEF HandlerStep, CommitRotation, ReloadUser, MintAccess, CommitPair, RevokeAll, Refuse,
     Abandon, Idle
<1> QED
  BY <1>1, <1>2, <1>3, <1>4 DEF Next, UseTokens, ReplayRevoked, Logout, LogoutAll,
     AccessExpires, RefreshExpires, vars

\* A refresh token whose successor has been issued is never rotated again.
THEOREM SpentNeverRotated == Spec => SpentTokensAreReplays
<1>1. SessionsInv /\ [Next]_vars =>
         [\A s \in Sessions :
             req'[s].pc = "rotate" /\ req[s].pc # "rotate" => ~pairs[req'[s].pair].succeeded]_vars
  BY SpentStep
<1> QED
  BY <1>1, SessionsAlways, PTL DEF Spec, SpentTokensAreReplays

-----------------------------------------------------------------------------
(* Revocation after a change of rights or status.                          *)

\* A revocation for the account is on its way.
Pending(u) == \E s \in Sessions : req[s].pc = "revokeAll" /\ req[s].user = u

\* The same, and what is current, once the step is taken.
PendingNext(u) == \E s \in Sessions : req'[s].pc = "revokeAll" /\ req'[s].user = u
CurrentNext(u, rights) == users'[u].status = "active" /\ users'[u].rights = rights

\* The property after a step, in these terms.
LEMMA CoveredNext ==
    ASSUME \A p \in Pairs :
              pairs'[p].refresh = "live" /\ ~CurrentNext(pairs'[p].user, pairs'[p].rights) =>
                  PendingNext(pairs'[p].user) \/ pairs'[p].escaped
    PROVE  StaleTokensAreRevoked'
BY DEF StaleTokensAreRevoked, PendingNext, CurrentNext, Current, EnsureActive

\* Nothing that was covered is uncovered by a step that leaves accounts alone, makes
\* no row live, clears no mark of a live one, and drops no revocation to come.
LEMMA StillCovered ==
    ASSUME StaleTokensAreRevoked, UNCHANGED users,
           \A p \in Pairs : pairs'[p].refresh = "live" =>
              /\ pairs[p].refresh = "live"
              /\ pairs'[p].user = pairs[p].user /\ pairs'[p].rights = pairs[p].rights
              /\ pairs[p].escaped => pairs'[p].escaped
              /\ ~Current(pairs[p].user, pairs[p].rights) /\ Pending(pairs[p].user) =>
                    PendingNext(pairs[p].user) \/ pairs'[p].escaped
    PROVE  StaleTokensAreRevoked'
BY CoveredNext DEF StaleTokensAreRevoked, Pending, Current, CurrentNext, EnsureActive

\* A request that is not a revocation, or one that goes on, leaves those to come.
LEMMA StillPending ==
    ASSUME NEW u, Pending(u),
           \A s \in Sessions : req[s].pc = "revokeAll" => req'[s] = req[s]
    PROVE  PendingNext(u)
BY DEF Pending, PendingNext

\* A row revoked in place, or gone, is not live: what is live is as it was.
LEMMA RevokingCovers ==
    ASSUME SessionsInv, StaleTokensAreRevoked, UNCHANGED users,
           \A s \in Sessions : req[s].pc = "revokeAll" => req'[s] = req[s],
           \A p \in Pairs : pairs'[p].refresh = "live" =>
              /\ pairs[p].refresh = "live"
              /\ pairs'[p].user = pairs[p].user /\ pairs'[p].rights = pairs[p].rights
              /\ pairs'[p].escaped = pairs[p].escaped
    PROVE  StaleTokensAreRevoked'
BY StillCovered, StillPending

\* The steps that change no account, begin no revocation and end none.
LEMMA QuietStepsCover ==
    ASSUME SessionsInv, StaleTokensAreRevoked,
           \/ \E s \in Sessions, u \in Users : SignIn(s, u)
           \/ \E s \in Sessions, p \in Pairs : UseTokens(s, p)
           \/ \E s \in Sessions : CommitRotation(s) \/ ReloadUser(s) \/ MintAccess(s) \/ Refuse(s)
           \/ \E p \in Pairs : AccessExpires(p) \/ RefreshExpires(p)
    PROVE  StaleTokensAreRevoked'
<1> USE DEF SessionsInv, TypeOK
<1>1. ASSUME UNCHANGED <<users, pairs>>, NEW s \in Sessions, req[s].pc # "revokeAll",
             NEW r, req' = [req EXCEPT ![s] = r]
      PROVE  StaleTokensAreRevoked'
  BY <1>1, RevokingCovers
<1>2. ASSUME UNCHANGED <<users, req>>, NEW u, pairs' = RevokeAllOf(u)
      PROVE  StaleTokensAreRevoked'
  BY <1>2, RevokeAllOfType, RevokedRow, RevokingCovers
<1>3. ASSUME UNCHANGED users, NEW p \in Pairs, pairs' = [pairs EXCEPT ![p] = Revoked(@)],
             \A s \in Sessions : req[s].pc = "revokeAll" => req'[s] = req[s]
      PROVE  StaleTokensAreRevoked'
  BY <1>3, RevokedRow, RevokingCovers
<1>4. Idle.pc # "revokeAll"
  BY DEF Idle
<1>5. ASSUME NEW s \in Sessions, NEW u \in Users, SignIn(s, u) PROVE StaleTokensAreRevoked'
  BY <1>1, <1>4, <1>5 DEF SignIn
<1>6. ASSUME NEW s \in Sessions, NEW p \in Pairs, UseTokens(s, p) PROVE StaleTokensAreRevoked'
  BY <1>1, <1>2, <1>3, <1>4, <1>6 DEF UseTokens, BeginRotate, ReplayRevoked, Logout, LogoutAll
<1>7. ASSUME NEW s \in Sessions, ReloadUser(s) \/ MintAccess(s) \/ Refuse(s)
      PROVE  StaleTokensAreRevoked'
  <2>1. \E r : req' = [req EXCEPT ![s] = r]
    BY <1>7 DEF ReloadUser, MintAccess, Refuse
  <2> QED
    BY <1>1, <1>7, <2>1 DEF ReloadUser, MintAccess, Refuse
<1>8. ASSUME NEW s \in Sessions, CommitRotation(s) PROVE StaleTokensAreRevoked'
  <2>1. req[s].pair \in Pairs
    BY <1>8 DEF CommitRotation, RequestsAreBound
  <2>2. \A t \in Sessions : req[t].pc = "revokeAll" => req'[t] = req[t]
    BY <1>8 DEF CommitRotation
  <2> QED
    BY <1>3, <1>8, <2>1, <2>2 DEF CommitRotation
<1>9. ASSUME NEW p \in Pairs, AccessExpires(p) PROVE StaleTokensAreRevoked'
  <2>1. \A q \in Pairs : /\ pairs'[q].refresh = pairs[q].refresh /\ pairs'[q].user = pairs[q].user
                         /\ pairs'[q].rights = pairs[q].rights /\ pairs'[q].escaped = pairs[q].escaped
    BY <1>9 DEF AccessExpires, PairRow
  <2> QED
    BY <1>9, <2>1, RevokingCovers DEF AccessExpires
<1>10. ASSUME NEW p \in Pairs, RefreshExpires(p) PROVE StaleTokensAreRevoked'
  <2>1. NoPair.refresh # "live"
    BY DEF NoPair
  <2> QED
    BY <1>10, <2>1, RevokingCovers DEF RefreshExpires
<1> QED
  BY <1>5, <1>6, <1>7, <1>8, <1>9, <1>10

\* The revocation revokes what it was to come for.
LEMMA RevocationCovers ==
    ASSUME SessionsInv, StaleTokensAreRevoked, NEW s \in Sessions, RevokeAll(s)
    PROVE  StaleTokensAreRevoked'
<1>1. ASSUME NEW u, u # req[s].user, Pending(u) PROVE PendingNext(u)
  <2>1. PICK t \in Sessions : req[t].pc = "revokeAll" /\ req[t].user = u
    BY <1>1 DEF Pending, PendingNext
  <2>2. req'[t] = req[t]
    BY <1>1, <2>1 DEF RevokeAll, SessionsInv, TypeOK
  <2> QED
    BY <2>1, <2>2 DEF Pending, PendingNext
<1>2. ASSUME NEW p \in Pairs, pairs'[p].refresh = "live"
      PROVE  pairs'[p] = pairs[p] /\ pairs[p].user # req[s].user
  BY <1>2, RevokeAllOfType, RevokedRow DEF RevokeAll, SessionsInv, TypeOK
<1> QED
  BY <1>1, <1>2, StillCovered DEF RevokeAll

\* A request that dies before its revocation leaves the stale tokens marked.
LEMMA AbandonCovers ==
    ASSUME SessionsInv, StaleTokensAreRevoked, NEW s \in Sessions, Abandon(s)
    PROVE  StaleTokensAreRevoked'
<1>1. CASE req[s].pc # "revokeAll"
  <2>1. \A t \in Sessions : req[t].pc = "revokeAll" => req'[t] = req[t]
    BY <1>1 DEF Abandon, SessionsInv, TypeOK
  <2> QED
    BY <1>1, <2>1, RevokingCovers DEF Abandon
<1>2. CASE req[s].pc = "revokeAll"
  <2> DEFINE u == req[s].user
             marked(p) == [pairs[p] EXCEPT !.escaped = @ \/ ~Current(u, pairs[p].rights)]
  <2>1. ASSUME NEW p \in Pairs
        PROVE  /\ marked(p).user = pairs[p].user /\ marked(p).rights = pairs[p].rights
               /\ marked(p).refresh = pairs[p].refresh
               /\ marked(p).escaped = (pairs[p].escaped \/ ~Current(u, pairs[p].rights))
    BY DEF SessionsInv, TypeOK, PairRow
  <2>2. ASSUME NEW p \in Pairs
        PROVE  pairs'[p] = IF pairs[p].refresh = "live" /\ pairs[p].user = u THEN marked(p) ELSE pairs[p]
    BY <1>2 DEF Abandon
  <2>3. ASSUME NEW v, v # u, Pending(v) PROVE PendingNext(v)
    <3>1. PICK t \in Sessions : req[t].pc = "revokeAll" /\ req[t].user = v
      BY <2>3 DEF Pending, PendingNext
    <3>2. req'[t] = req[t]
      BY <2>3, <3>1 DEF Abandon, SessionsInv, TypeOK
    <3> QED
      BY <3>1, <3>2 DEF Pending, PendingNext
  <2>4. UNCHANGED users
    BY DEF Abandon
  <2>5. ASSUME NEW p \in Pairs, pairs'[p].refresh = "live"
        PROVE  /\ pairs[p].refresh = "live"
               /\ pairs'[p].user = pairs[p].user /\ pairs'[p].rights = pairs[p].rights
               /\ pairs[p].escaped => pairs'[p].escaped
               /\ ~Current(pairs[p].user, pairs[p].rights) /\ Pending(pairs[p].user) =>
                     PendingNext(pairs[p].user) \/ pairs'[p].escaped
    <3> HIDE DEF u, marked
    <3>1. CASE pairs[p].refresh = "live" /\ pairs[p].user = u
      BY <2>1, <2>2, <2>5, <3>1
    <3>2. CASE ~(pairs[p].refresh = "live" /\ pairs[p].user = u)
      BY <2>2, <2>3, <2>5, <3>2
    <3> QED
      BY <3>1, <3>2
  <2> QED
    BY <2>4, <2>5, StillCovered
<1> QED
  BY <1>1, <1>2

\* A pair inserted from claims that are out of date by then is marked.
LEMMA InsertionCovers ==
    ASSUME SessionsInv, StaleTokensAreRevoked, NEW s \in Sessions, CommitPair(s)
    PROVE  StaleTokensAreRevoked'
<1> DEFINE row == [NoPair EXCEPT !.user = req[s].user, !.rights = req[s].rights,
                                 !.refresh = "live", !.access = "live",
                                 !.escaped = ~Current(req[s].user, req[s].rights)]
<1>1. PICK new \in Pairs : pairs[new] = NoPair /\ pairs' = [Noted(req[s].pair) EXCEPT ![new] = row]
  BY DEF CommitPair
<1>2. row.user = req[s].user /\ row.rights = req[s].rights /\ row.escaped = ~Current(req[s].user, req[s].rights)
  BY DEF NoPair
<1> HIDE DEF row
<1>3. /\ DOMAIN Noted(req[s].pair) = Pairs
      /\ \A p \in Pairs : /\ Noted(req[s].pair)[p].user = pairs[p].user
                          /\ Noted(req[s].pair)[p].rights = pairs[p].rights
                          /\ Noted(req[s].pair)[p].refresh = pairs[p].refresh
                          /\ Noted(req[s].pair)[p].escaped = pairs[p].escaped
  BY DEF Noted, SessionsInv, TypeOK, PairRow
<1>4. \A t \in Sessions : req[t].pc = "revokeAll" => req'[t] = req[t]
  BY DEF CommitPair, SessionsInv, TypeOK
<1>5. \A u : Pending(u) => PendingNext(u)
  BY <1>4, StillPending
<1>6. \A u, rights : CurrentNext(u, rights) = Current(u, rights)
  BY DEF CommitPair, Current, CurrentNext, EnsureActive
<1> SUFFICES ASSUME NEW p \in Pairs, pairs'[p].refresh = "live",
                    ~CurrentNext(pairs'[p].user, pairs'[p].rights)
             PROVE  PendingNext(pairs'[p].user) \/ pairs'[p].escaped
  BY CoveredNext
<1>7. CASE p = new
  BY <1>1, <1>2, <1>3, <1>6, <1>7
<1>8. CASE p # new
  BY <1>1, <1>3, <1>5, <1>6, <1>8 DEF StaleTokensAreRevoked, Pending
<1> QED
  BY <1>7, <1>8

\* A change puts its revocation on the way, unless it reactivates the account: the
\* tokens that are live then were out of date before.
LEMMA ChangeCovers ==
    ASSUME SessionsInv, StaleTokensAreRevoked, NEW s \in Sessions, NEW u \in Users,
           NEW row \in UserRow, CommitChange(s, u, row),
           row.status # users[u].status => row.rights = users[u].rights
    PROVE  StaleTokensAreRevoked'
<1>1. \A t \in Sessions : req[t].pc = "revokeAll" => req'[t] = req[t]
  BY DEF CommitChange, SessionsInv, TypeOK, Idle
<1>2. \A v : Pending(v) => PendingNext(v)
  BY <1>1, StillPending
<1>3. \A v \in Users : users'[v] = IF v = u THEN row ELSE users[v]
  BY DEF CommitChange, SessionsInv, TypeOK
<1> SUFFICES ASSUME NEW p \in Pairs, pairs'[p].refresh = "live",
                    ~CurrentNext(pairs'[p].user, pairs'[p].rights)
             PROVE  PendingNext(pairs'[p].user) \/ pairs'[p].escaped
  BY CoveredNext
<1>4. pairs' = pairs /\ pairs[p].user \in Users
  BY DEF CommitChange, SessionsInv, RowsAreOwned
<1>5. CASE pairs[p].user # u
  BY <1>2, <1>3, <1>4, <1>5 DEF StaleTokensAreRevoked, Pending, Current, CurrentNext, EnsureActive
<1>6. CASE pairs[p].user = u /\ row.status # users[u].status /\ row.status = "active"
  BY <1>2, <1>3, <1>4, <1>6 DEF StaleTokensAreRevoked, Pending, Current, CurrentNext, EnsureActive
<1>7. CASE pairs[p].user = u /\ ~(row.status # users[u].status /\ row.status = "active")
  <2>1. req'[s] = [Idle EXCEPT !.pc = "revokeAll", !.user = u]
    BY <1>7 DEF CommitChange, SessionsInv, TypeOK
  <2> QED
    BY <1>4, <1>7, <2>1 DEF PendingNext, Idle
<1> QED
  BY <1>5, <1>6, <1>7

\* Signing up activates an account: what was live for it was out of date before.
LEMMA RegistrationCovers ==
    ASSUME SessionsInv, StaleTokensAreRevoked, NEW s \in Sessions, NEW u \in Users,
           RegisterUser(s, u)
    PROVE  StaleTokensAreRevoked'
<1>1. \A t \in Sessions : req[t].pc = "revokeAll" => req'[t] = req[t]
  BY DEF RegisterUser, SessionsInv, TypeOK, Idle
<1>2. \A v : Pending(v) => PendingNext(v)
  BY <1>1, StillPending
<1>3. /\ \A v \in Users : v # u => users'[v] = users[v]
      /\ pairs' = pairs /\ users[u].status # "active"
  BY DEF RegisterUser, SessionsInv, TypeOK
<1> SUFFICES ASSUME NEW p \in Pairs, pairs'[p].refresh = "live",
                    ~CurrentNext(pairs'[p].user, pairs'[p].rights)
             PROVE  PendingNext(pairs'[p].user) \/ pairs'[p].escaped
  BY CoveredNext
<1>4. pairs[p].user \in Users
  BY <1>3 DEF SessionsInv, RowsAreOwned
<1> QED
  BY <1>2, <1>3, <1>4 DEF StaleTokensAreRevoked, Pending, Current, CurrentNext, EnsureActive

LEMMA StaleStep == SessionsInv /\ StaleTokensAreRevoked /\ [Next]_vars => StaleTokensAreRevoked'
<1> SUFFICES ASSUME SessionsInv, StaleTokensAreRevoked, [Next]_vars PROVE StaleTokensAreRevoked'
  OBVIOUS
<1>1. ASSUME NEW s \in Sessions, NEW u \in Users, Authenticate(s, u) PROVE StaleTokensAreRevoked'
  BY <1>1, QuietStepsCover, RegistrationCovers
     DEF Authenticate, AuthenticateUser, LoginWithFacebook, LoginWithGoogle, SocialLogin
<1>2. ASSUME NEW s \in Sessions, NEW u \in Users, Administer(s, u) PROVE StaleTokensAreRevoked'
  BY <1>2, AdministerIsChange, ChangeCovers
<1>3. ASSUME NEW s \in Sessions, HandlerStep(s) \/ Abandon(s) PROVE StaleTokensAreRevoked'
  BY <1>3, QuietStepsCover, InsertionCovers, RevocationCovers, AbandonCovers DEF HandlerStep
<1>4. CASE UNCHANGED vars
  BY <1>4 DEF vars, StaleTokensAreRevoked, Current, EnsureActive
<1> QED
  BY <1>1, <1>2, <1>3, <1>4, QuietStepsCover DEF Next

\* admin/service.py:103 "force re-login so the change takes effect", for any
\* interleaving of logins, rotations, changes and deaths of requests: a live refresh
\* token that is out of date has its revocation coming, or is one of the marked ones.
THEOREM ChangesForceRelogin == Spec => []StaleTokensAreRevoked
<1>1. Init => StaleTokensAreRevoked
  BY DEF Init, StaleTokensAreRevoked, NoPair
<1> QED
  BY <1>1, StaleStep, SessionsAlways, PTL DEF Spec
=============================================================================
