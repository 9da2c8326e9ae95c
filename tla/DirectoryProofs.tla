---------------------------- MODULE DirectoryProofs ----------------------------
(***************************************************************************)
(* Proofs about Appointments and ModeratorScope, for any locations,        *)
(* positions, representatives, owners and requests in flight; and about    *)
(* MCDirectory, where they stand beside the listings and the index.        *)
(***************************************************************************)
EXTENDS MCDirectory, ListingModerationProofs, KnowledgeIndexProofs

-----------------------------------------------------------------------------
(* Representatives and institutions: the inductive invariant.              *)

HeldBy(r, post) == reps[r].status = "active" /\ reps[r].post = post

\* A request that will write a representative names one, and until something has
\* come to hold the post it was told is free, only that one may hold it.
PostsLookedUp ==
    \A c \in Clerks : desk[c].pc = "appoint" =>
        /\ desk[c].rep \in Reps
        /\ desk[c].checked => \A r \in Reps : HeldBy(r, desk[c].to.post) => r = desk[c].rep

Vouched(r) == reps[r].status = "active" /\ ~reps[r].unchecked

OneVouched == \A r, q \in Reps : Vouched(r) /\ Vouched(q) /\ reps[r].post = reps[q].post => r = q

\* A creation that found nothing still finds nothing, unless it has met a rival.
CreationsLookedUp ==
    \A c \in Clerks : desk[c].pc = "found" =>
        institutions[<<desk[c].owner, desk[c].kind>>].rows = 0 \/ desk[c].rival

OneEach == \A o \in Owners \X InstitutionKind : institutions[o].rows <= 1 \/ institutions[o].doubled

CivicInv == CivicTypeOK /\ PostsLookedUp /\ OneVouched /\ CreationsLookedUp /\ OneEach

LEMMA CivicStarts == CivicInit => CivicInv
<1> SUFFICES ASSUME CivicInit PROVE CivicInv
  OBVIOUS
<1>1. NoPost \in Post /\ NoRep \in RepRow /\ NoChange \in Change
  BY DEF NoPost, NoRep, NoChange, Post, RepRow, Change, RepStatus
<1>2. Free \in Desk /\ Free.pc = "idle"
  BY <1>1 DEF Free, Desk
<1>3. NoRep.status = "absent"
  BY DEF NoRep
<1> QED
  BY <1>1, <1>2, <1>3 DEF CivicInit, CivicInv, CivicTypeOK, PostsLookedUp, OneVouched, Vouched,
     CreationsLookedUp, OneEach, Owned

\* A request that ends, or begins a write it has looked up, changes nothing else.
LEMMA DeskWritten ==
    ASSUME CivicInv, UNCHANGED <<reps, institutions>>,
           NEW c \in Clerks, NEW entry \in Desk, desk' = [desk EXCEPT ![c] = entry],
           entry.pc = "appoint" =>
               entry.rep \in Reps /\ (entry.checked => \A r \in Reps : HeldBy(r, entry.to.post) => r = entry.rep),
           entry.pc = "found" => institutions[<<entry.owner, entry.kind>>].rows = 0
    PROVE  CivicInv'
<1>1. CivicTypeOK'
  BY DEF CivicInv, CivicTypeOK
<1>2. \A d \in Clerks : desk'[d] = IF d = c THEN entry ELSE desk[d]
  BY DEF CivicInv, CivicTypeOK
<1>3. PostsLookedUp'
  BY <1>2 DEF CivicInv, PostsLookedUp, HeldBy
<1>4. CreationsLookedUp'
  BY <1>2 DEF CivicInv, CreationsLookedUp
<1> QED
  BY <1>1, <1>3, <1>4 DEF CivicInv, OneVouched, Vouched, OneEach

\* The row an UPDATE or INSERT leaves is one; if it comes to hold a post unflagged,
\* the post is the one the request looked up, and was still free.
LEMMA WrittenRow ==
    ASSUME CivicInv, NEW c \in Clerks, desk[c].pc = "appoint"
    PROVE  LET d == desk[c]
               entry == Written(d) IN
           /\ entry \in RepRow
           /\ entry.status = "active" /\ ~entry.unchecked =>
                 \/ reps[d.rep].post = entry.post /\ Vouched(d.rep)
                 \/ entry.post = d.to.post /\ d.checked
<1> DEFINE d == desk[c]
           old == reps[d.rep]
           post == [location |-> (IF d.to.post.location # d.was.post.location
                                  THEN d.to.post.location ELSE old.post.location),
                    position |-> (IF d.to.post.position # d.was.post.position
                                  THEN d.to.post.position ELSE old.post.position)]
           status == IF d.to.status # d.was.status THEN d.to.status ELSE old.status
           moved == status = "active" /\ (old.status # "active" \/ old.post # post)
           flag == IF moved THEN ~d.checked \/ post # d.to.post ELSE old.unchecked /\ status = "active"
<1>1. /\ d.rep \in Reps /\ d.was \in Change /\ d.to \in Change /\ d.checked \in BOOLEAN
      /\ old \in RepRow
  BY DEF CivicInv, CivicTypeOK, PostsLookedUp, Desk
<1>2. post \in Post /\ status \in RepStatus
  BY <1>1 DEF Post, Change, RepRow
<1>3. flag \in BOOLEAN
  BY <1>1 DEF RepRow
<1>4. Written(d) = [post |-> post, status |-> status, unchecked |-> flag]
  BY DEF Written
<1>5. status = "active" /\ ~flag =>
         \/ old.post = post /\ Vouched(d.rep)
         \/ post = d.to.post /\ d.checked
  BY <1>1 DEF Vouched
<1> HIDE DEF post, status, flag, d
<1>6. /\ Written(d) \in RepRow
      /\ Written(d).post = post /\ Written(d).status = status /\ Written(d).unchecked = flag
  BY <1>2, <1>3, <1>4 DEF RepRow
<1>7. Written(d).status = "active" /\ ~Written(d).unchecked =>
         \/ old.post = Written(d).post /\ Vouched(d.rep)
         \/ Written(d).post = d.to.post /\ d.checked
  BY <1>5, <1>6
<1> QED
  BY <1>6, <1>7 DEF d

LEMMA CommitRepKeeps ==
    ASSUME CivicInv, NEW c \in Clerks, CommitRep(c)
    PROVE  CivicInv'
<1> DEFINE rep == desk[c].rep
           entry == Written(desk[c])
           Held(d) == desk[d].checked /\ ~(entry.status = "active" /\ entry.post = desk[d].to.post)
<1>1. /\ desk[c].pc = "appoint" /\ rep \in Reps
      /\ reps' = [reps EXCEPT ![rep] = entry]
      /\ desk' = [d \in Clerks |->
                    IF d = c THEN Free
                    ELSE IF desk[d].pc = "appoint" THEN [desk[d] EXCEPT !.checked = Held(d)] ELSE desk[d]]
      /\ institutions' = institutions
  BY DEF CommitRep, CivicInv, PostsLookedUp
<1>2. /\ entry \in RepRow
      /\ entry.status = "active" /\ ~entry.unchecked =>
            \/ reps[rep].post = entry.post /\ Vouched(rep)
            \/ entry.post = desk[c].to.post /\ desk[c].checked
  BY <1>1, WrittenRow
<1>3. \A r \in Reps : reps'[r] = IF r = rep THEN entry ELSE reps[r]
  BY <1>1 DEF CivicInv, CivicTypeOK
<1>4. Free \in Desk /\ Free.pc = "idle"
  <2>1. NoPost \in Post /\ NoChange \in Change
    BY DEF NoPost, NoChange, Post, Change, RepStatus
  <2> QED
    BY <2>1 DEF Free, Desk
<1>5. ASSUME NEW d \in Clerks, d # c, desk[d].pc = "appoint"
      PROVE  /\ desk'[d] \in Desk /\ desk'[d].pc = "appoint" /\ desk'[d].rep = desk[d].rep
             /\ desk'[d].to = desk[d].to /\ desk'[d].checked = Held(d)
  <2>1. desk[d] \in [pc : {"idle", "appoint"}, rep : Reps \cup {Nowhere}, was : Change, to : Change,
                     checked : BOOLEAN]
    BY <1>5 DEF CivicInv, CivicTypeOK, Desk
  <2>2. Held(d) \in BOOLEAN
    BY <2>1
  <2>3. desk'[d] = [desk[d] EXCEPT !.checked = Held(d)]
    BY <1>1, <1>5
  <2> HIDE DEF Held
  <2> QED
    BY <1>5, <2>1, <2>2, <2>3 DEF Desk
<1>6. \A d \in Clerks : desk[d].pc # "appoint" => d = c \/ desk'[d] = desk[d]
  BY <1>1
<1>7. desk'[c] = Free
  BY <1>1
<1>8. CivicTypeOK'
  <2>1. reps' \in [Reps -> RepRow]
    BY <1>1, <1>2 DEF CivicInv, CivicTypeOK
  <2>2. \A d \in Clerks : desk'[d] \in Desk
    BY <1>4, <1>5, <1>6, <1>7 DEF CivicInv, CivicTypeOK
  <2>3. desk' \in [Clerks -> Desk]
    BY <1>1, <2>2
  <2> QED
    BY <1>1, <2>1, <2>3 DEF CivicInv, CivicTypeOK
<1> HIDE DEF entry
<1>9. PostsLookedUp'
  <2>1. ASSUME NEW d \in Clerks, desk'[d].pc = "appoint"
        PROVE  /\ desk'[d].rep \in Reps
               /\ desk'[d].checked => \A r \in Reps :
                     reps'[r].status = "active" /\ reps'[r].post = desk'[d].to.post => r = desk'[d].rep
    <3>1. d # c /\ desk[d].pc = "appoint"
      BY <1>4, <1>6, <1>7, <2>1
    <3>2. desk'[d].rep = desk[d].rep /\ desk'[d].to = desk[d].to /\ desk'[d].checked = Held(d)
      BY <1>5, <3>1
    <3>3. ASSUME Held(d), NEW r \in Reps, reps'[r].status = "active", reps'[r].post = desk[d].to.post
          PROVE  r = desk[d].rep
      BY <1>3, <3>1, <3>3 DEF CivicInv, PostsLookedUp, HeldBy
    <3> QED
      BY <3>1, <3>2, <3>3 DEF CivicInv, PostsLookedUp
  <2> QED
    BY <2>1 DEF PostsLookedUp, HeldBy
<1>10. OneVouched'
  <2>1. ASSUME NEW q \in Reps, q # rep, entry.status = "active", ~entry.unchecked,
               Vouched(q), reps[q].post = entry.post
        PROVE  FALSE
    BY <1>1, <1>2, <2>1 DEF CivicInv, PostsLookedUp, OneVouched, Vouched, HeldBy
  <2> QED
    BY <1>3, <2>1 DEF CivicInv, OneVouched, Vouched
<1>11. CreationsLookedUp'
  BY <1>1, <1>4, <1>5, <1>6, <1>7 DEF CivicInv, CreationsLookedUp
<1> QED
  BY <1>1, <1>8, <1>9, <1>10, <1>11 DEF CivicInv, OneEach

LEMMA CommitInstitutionKeeps ==
    ASSUME CivicInv, NEW c \in Clerks, CommitInstitution(c)
    PROVE  CivicInv'
<1> DEFINE o == <<desk[c].owner, desk[c].kind>>
           entry == [rows |-> institutions[o].rows + 1, doubled |-> institutions[o].doubled \/ desk[c].rival]
           Same(e) == desk[e].pc = "found" /\ desk[e].owner = desk[c].owner /\ desk[e].kind = desk[c].kind
<1>1. desk[c].pc = "found" /\ institutions[o].rows < 2 /\ reps' = reps
  BY DEF CommitInstitution
<1>2. institutions' = [institutions EXCEPT ![o] = entry]
  BY DEF CommitInstitution
<1>3. desk' = [e \in Clerks |-> IF e = c THEN Free
                                ELSE IF Same(e) THEN [desk[e] EXCEPT !.rival = TRUE] ELSE desk[e]]
  BY DEF CommitInstitution
<1>4. desk[c] \in [pc : {"found"}, owner : Owners, kind : InstitutionKind, rival : BOOLEAN]
  BY <1>1 DEF CivicInv, CivicTypeOK, Desk
<1>5. o \in Owners \X InstitutionKind /\ institutions[o] \in Owned
  BY <1>4 DEF CivicInv, CivicTypeOK
<1>6. institutions[o].rows = 0 \/ desk[c].rival
  BY <1>1 DEF CivicInv, CreationsLookedUp
<1>7. entry \in Owned /\ entry.rows = institutions[o].rows + 1 /\ entry.doubled = (institutions[o].doubled \/ desk[c].rival)
  BY <1>1, <1>4, <1>5 DEF Owned
<1>8. entry.rows <= 1 \/ entry.doubled
  <2>1. CASE institutions[o].rows = 0
    BY <1>7, <2>1
  <2>2. CASE desk[c].rival
    BY <1>7, <2>2
  <2> QED
    BY <1>6, <2>1, <2>2
<1> HIDE DEF entry
<1>9. \A p \in Owners \X InstitutionKind : institutions'[p] = IF p = o THEN entry ELSE institutions[p]
  BY <1>2 DEF CivicInv, CivicTypeOK
<1>10. Free \in Desk /\ Free.pc = "idle"
  <2>1. NoPost \in Post /\ NoChange \in Change
    BY DEF NoPost, NoChange, Post, Change, RepStatus
  <2> QED
    BY <2>1 DEF Free, Desk
<1>11. ASSUME NEW e \in Clerks, e # c, Same(e)
       PROVE  /\ desk'[e] \in Desk /\ desk'[e].pc = "found" /\ desk'[e].rival
              /\ desk'[e].owner = desk[e].owner /\ desk'[e].kind = desk[e].kind
  <2>1. desk[e] \in [pc : {"found"}, owner : Owners, kind : InstitutionKind, rival : BOOLEAN]
    BY <1>11 DEF CivicInv, CivicTypeOK, Desk
  <2>2. desk'[e] = [desk[e] EXCEPT !.rival = TRUE]
    BY <1>3, <1>11
  <2> QED
    BY <2>1, <2>2 DEF Desk
<1>12. \A e \in Clerks : e # c /\ ~Same(e) => desk'[e] = desk[e]
  BY <1>3
<1>13. desk'[c] = Free
  BY <1>3
<1>14. CivicTypeOK'
  <2>1. institutions' \in [Owners \X InstitutionKind -> Owned]
    BY <1>2, <1>7 DEF CivicInv, CivicTypeOK
  <2>2. \A e \in Clerks : desk'[e] \in Desk
    BY <1>10, <1>11, <1>12, <1>13 DEF CivicInv, CivicTypeOK
  <2>3. desk' \in [Clerks -> Desk]
    BY <1>3, <2>2
  <2> QED
    BY <1>1, <2>1, <2>3 DEF CivicInv, CivicTypeOK
<1>15. PostsLookedUp'
  BY <1>1, <1>10, <1>11, <1>12, <1>13 DEF CivicInv, PostsLookedUp, HeldBy
<1>16. CreationsLookedUp'
  <2>1. ASSUME NEW e \in Clerks, desk'[e].pc = "found"
        PROVE  institutions'[<<desk'[e].owner, desk'[e].kind>>].rows = 0 \/ desk'[e].rival
    <3>1. CASE Same(e)
      BY <1>10, <1>11, <1>13, <2>1, <3>1
    <3>2. CASE ~Same(e)
      <4>1. desk'[e] = desk[e] /\ desk[e].pc = "found"
        BY <1>10, <1>12, <1>13, <2>1, <3>2
      <4>2. desk[e] \in [pc : {"found"}, owner : Owners, kind : InstitutionKind, rival : BOOLEAN]
        BY <4>1 DEF CivicInv, CivicTypeOK, Desk
      <4>3. /\ <<desk[e].owner, desk[e].kind>> \in Owners \X InstitutionKind
            /\ <<desk[e].owner, desk[e].kind>> # o
        BY <3>2, <4>1, <4>2
      <4>4. institutions'[<<desk[e].owner, desk[e].kind>>] = institutions[<<desk[e].owner, desk[e].kind>>]
        BY <1>9, <4>3
      <4> QED
        BY <4>1, <4>4 DEF CivicInv, CreationsLookedUp
    <3> QED
      BY <3>1, <3>2
  <2> QED
    BY <2>1 DEF CreationsLookedUp
<1>17. OneEach'
  BY <1>8, <1>9 DEF CivicInv, OneEach
<1> QED
  BY <1>1, <1>14, <1>15, <1>16, <1>17 DEF CivicInv, OneVouched, Vouched

LEMMA CivicStep == CivicInv /\ [CivicNext]_civicVars => CivicInv'
<1> SUFFICES ASSUME CivicInv, [CivicNext]_civicVars PROVE CivicInv'
  OBVIOUS
<1>1. /\ reps \in [Reps -> RepRow] /\ institutions \in [Owners \X InstitutionKind -> Owned]
      /\ desk \in [Clerks -> Desk]
  BY DEF CivicInv, CivicTypeOK
<1>2. NoChange \in Change /\ Free \in Desk /\ Free.pc = "idle"
  <2>1. NoPost \in Post /\ NoChange \in Change
    BY DEF NoPost, NoChange, Post, Change, RepStatus
  <2> QED
    BY <2>1 DEF Free, Desk
<1>3. ASSUME NEW c \in Clerks, GiveUp(c) PROVE CivicInv'
  <2>1. desk' = [desk EXCEPT ![c] = Free] /\ UNCHANGED <<reps, institutions>>
    BY <1>3 DEF GiveUp
  <2> QED
    BY <1>2, <2>1, DeskWritten
<1>4. ASSUME NEW c \in Clerks, NEW r \in Reps, NEW w \in Wards, NEW p \in Positions,
             BeginCreate(c, r, Posted(w, p))
      PROVE  CivicInv'
  <2> DEFINE to == [post |-> Posted(w, p), status |-> "active"]
             entry == [pc |-> "appoint", rep |-> r, was |-> NoChange, checked |-> TRUE, to |-> to]
  <2>1. desk' = [desk EXCEPT ![c] = entry] /\ UNCHANGED <<reps, institutions>>
    BY <1>4 DEF BeginCreate
  <2>2. Posted(w, p) \in Post /\ to \in Change /\ to.post = Posted(w, p)
    BY DEF Posted, Post, Change, RepStatus
  <2>3. \A q \in Reps : ~HeldBy(q, Posted(w, p))
    BY <1>4 DEF BeginCreate, NoActiveDuplicate, Holders, HeldBy
  <2> HIDE DEF to
  <2>4. entry \in Desk /\ entry.pc = "appoint" /\ entry.rep = r /\ entry.to = to
    BY <1>2, <2>2 DEF Desk
  <2> HIDE DEF entry
  <2>5. entry.pc # "found"
    BY <2>4
  <2>6. entry.pc = "appoint" => entry.rep \in Reps /\ (entry.checked => \A q \in Reps : HeldBy(q, entry.to.post) => q = entry.rep)
    BY <2>2, <2>3, <2>4
  <2> QED
    BY <2>1, <2>4, <2>5, <2>6, DeskWritten
<1>5. ASSUME NEW c \in Clerks, NEW r \in Reps, NEW w \in Wards, NEW p \in Positions,
             NEW status \in RepStatus \ {"absent"}, NEW named \in BOOLEAN,
             BeginRepUpdate(c, r, Posted(w, p), status, named)
      PROVE  CivicInv'
  <2> DEFINE to == [post |-> Posted(w, p), status |-> status]
             was == [post |-> reps[r].post, status |-> reps[r].status]
             entry == [pc |-> "appoint", rep |-> r, checked |-> named, was |-> was, to |-> to]
  <2>1. desk' = [desk EXCEPT ![c] = entry] /\ UNCHANGED <<reps, institutions>>
    BY <1>5 DEF BeginRepUpdate
  <2>2. Posted(w, p) \in Post /\ to \in Change /\ to.post = Posted(w, p)
    BY DEF Posted, Post, Change, RepStatus
  <2>3. was \in Change
    BY <1>1 DEF Change, RepRow
  <2>4. named => \A q \in Reps : HeldBy(q, Posted(w, p)) => q = r
    BY <1>5 DEF BeginRepUpdate, NoActiveDuplicate, Holders, HeldBy
  <2> HIDE DEF to, was
  <2>5. entry \in Desk /\ entry.pc = "appoint" /\ entry.rep = r /\ entry.to = to /\ entry.checked = named
    BY <2>2, <2>3 DEF Desk
  <2> HIDE DEF entry
  <2>6. entry.pc # "found"
    BY <2>5
  <2>7. entry.pc = "appoint" => entry.rep \in Reps /\ (entry.checked => \A q \in Reps : HeldBy(q, entry.to.post) => q = entry.rep)
    BY <2>2, <2>4, <2>5
  <2> QED
    BY <2>1, <2>5, <2>6, <2>7, DeskWritten
<1>6. ASSUME NEW c \in Clerks, NEW u \in Owners, NEW k \in InstitutionKind, BeginInstitution(c, u, k)
      PROVE  CivicInv'
  <2> DEFINE entry == [pc |-> "found", owner |-> u, kind |-> k, rival |-> FALSE]
  <2>1. desk' = [desk EXCEPT ![c] = entry] /\ UNCHANGED <<reps, institutions>> /\ institutions[<<u, k>>].rows = 0
    BY <1>6 DEF BeginInstitution
  <2>2. entry \in Desk /\ entry.pc # "appoint" /\ entry.owner = u /\ entry.kind = k
    BY DEF Desk
  <2> HIDE DEF entry
  <2>3. entry.pc = "appoint" => entry.rep \in Reps /\ (entry.checked => \A q \in Reps : HeldBy(q, entry.to.post) => q = entry.rep)
    BY <2>2
  <2>4. entry.pc = "found" => institutions[<<entry.owner, entry.kind>>].rows = 0
    BY <2>1, <2>2
  <2> QED
    BY <2>1, <2>2, <2>3, <2>4, DeskWritten
<1>7. CASE UNCHANGED civicVars
  BY <1>7 DEF civicVars, CivicInv, CivicTypeOK, PostsLookedUp, HeldBy, OneVouched, Vouched,
     CreationsLookedUp, OneEach
<1>8. CASE CivicNext
  <2>1. "hospital" \in InstitutionKind /\ "school" \in InstitutionKind
    BY DEF InstitutionKind
  <2>2. CASE RepNext
    BY <1>3, <1>4, <1>5, <2>2, CommitRepKeeps DEF RepNext
  <2>3. CASE InstitutionNext
    BY <1>3, <1>6, <2>1, <2>3, CommitInstitutionKeeps DEF InstitutionNext, CreateHospital, CreateSchool
  <2> QED
    BY <1>8, <2>2, <2>3 DEF CivicNext
<1> QED
  BY <1>7, <1>8

\* At most one public holder of a post was established as its only one, and one
\* institution of a kind belongs to a user who created one at a time.
LEMMA InvGivesOneHolder == CivicInv => OneHolder
<1> SUFFICES ASSUME CivicInv PROVE OneHolder
  OBVIOUS
<1>1. ASSUME NEW w \in Wards, NEW p \in Positions
      PROVE  Cardinality({r \in ListPublic(w, p) : ~reps[r].unchecked}) <= 1
  <2> DEFINE S == {r \in ListPublic(w, p) : ~reps[r].unchecked}
  <2>1. ASSUME NEW r \in S, NEW q \in S PROVE r = q
    <3>1. /\ r \in Reps /\ Vouched(r) /\ reps[r].post.location = w /\ reps[r].post.position = p
          /\ q \in Reps /\ Vouched(q) /\ reps[q].post.location = w /\ reps[q].post.position = p
      BY DEF ListPublic, Vouched
    <3>2. reps[r].post \in Post /\ reps[q].post \in Post
      BY <3>1 DEF CivicInv, CivicTypeOK, RepRow
    <3>3. reps[r].post = reps[q].post
      BY <3>1, <3>2 DEF Post
    <3> QED
      BY <3>1, <3>3 DEF CivicInv, OneVouched
  <2>2. \A r, q \in S : r = q
    BY <2>1
  <2> HIDE DEF S
  <2>3. Cardinality(S) <= 1
    BY <2>2, AtMostOne
  <2> QED
    BY <2>3 DEF S
<1>2. DOMAIN institutions = Owners \X InstitutionKind
  BY DEF CivicInv, CivicTypeOK
<1> QED
  BY <1>1, <1>2 DEF OneHolder, CivicInv, OneEach

\* The three tables of the appointments have their types.
THEOREM CivicTypeCorrect == CivicSpec => []CivicTypeOK
<1>1. CivicInv => CivicTypeOK
  BY DEF CivicInv
<1> QED
  BY <1>1, CivicStarts, CivicStep, PTL DEF CivicSpec

\* representatives/service.py:106 and hospitals/service.py:82: one public holder of
\* a post, and one hospital and one school of a user, however requests interleave,
\* but for the holders no check had been made for and creations open together.
THEOREM PostsHaveOneHolder == CivicSpec => []OneHolder
BY InvGivesOneHolder, CivicStarts, CivicStep, PTL DEF CivicSpec

-----------------------------------------------------------------------------
(* The scope of a moderator.                                               *)

LEMMA ScopeStarts == ScopeInit => ScopeTypeOK
<1> SUFFICES ASSUME ScopeInit PROVE ScopeTypeOK
  OBVIOUS
<1>1. PICK q, r \in UserRole : roles \in {{}, {r}, {q, r}}
  BY DEF ScopeInit
<1>2. roles \subseteq UserRole
  BY <1>1
<1>3. Started \in Call
  BY DEF Started, Call
<1> QED
  BY <1>2, <1>3 DEF ScopeInit, ScopeTypeOK

\* The walks stay within the locations, whatever parent_ids say.
LEMMA ScopeStep == ScopeTypeOK /\ [ScopeNext]_scopeVars => ScopeTypeOK'
<1> SUFFICES ASSUME ScopeTypeOK, [ScopeNext]_scopeVars PROVE ScopeTypeOK'
  OBVIOUS
<1>1. /\ call \in Call /\ roles \subseteq UserRole /\ moderator \in Moderator
      /\ moderator.upazila \in Locations \cup {Everywhere}
  BY DEF ScopeTypeOK, Moderator, Place
<1>2. Started \in Call
  BY DEF Started, Call
<1>3. ASSUME NEW b \in BOOLEAN PROVE Returned(b) \in Call
  BY <1>1 DEF Returned, Call
<1>4. CASE ModeratorScope
  <2>1. call' \in Call
    <3>1. CASE moderator.primary = "upazila_admin" /\ moderator.upazila # Everywhere
      <4>1. moderator.upazila \in Locations
        BY <1>1, <3>1
      <4>2. call' = [call EXCEPT !.pc = "walk", !.stack = {moderator.upazila}]
        BY <1>4, <3>1 DEF ModeratorScope
      <4> QED
        BY <1>1, <4>1, <4>2 DEF Call
    <3>2. CASE moderator.primary = "citizen"
      <4>1. call' = [call EXCEPT !.pc = "rows", !.rows = roles]
        BY <1>4, <3>2 DEF ModeratorScope
      <4> QED
        BY <1>1, <4>1 DEF Call
    <3>3. CASE ~(moderator.primary = "upazila_admin" /\ moderator.upazila # Everywhere) /\ moderator.primary # "citizen"
      <4>1. call' = Returned(TRUE)
        BY <1>4, <3>3 DEF ModeratorScope
      <4> QED
        BY <1>3, <4>1
    <3> QED
      BY <3>1, <3>2, <3>3
  <2> QED
    BY <1>4, <2>1 DEF ModeratorScope, ScopeTypeOK
<1>5. ASSUME NEW r \in roles, NextRow(r) PROVE ScopeTypeOK'
  <2> DEFINE rest == [call EXCEPT !.rows = @ \ {r}]
  <2>1. rest \in Call
    BY <1>1 DEF Call
  <2>2. r \in UserRole /\ (r.at # Everywhere => r.at \in Locations)
    BY <1>1 DEF UserRole, Place
  <2> DEFINE ended == [rest EXCEPT !.pc = "end", !.unscoped = TRUE]
             walking == [rest EXCEPT !.pc = "walk", !.stack = {r.at}, !.result = {}]
  <2>3. call' = rest \/ call' = ended \/ (r.at # Everywhere /\ call' = walking)
    BY <1>5, <2>2 DEF NextRow, UserRole
  <2> HIDE DEF rest
  <2>4. ended \in Call
    BY <2>1 DEF Call
  <2>5. r.at # Everywhere => walking \in Call
    BY <2>1, <2>2 DEF Call
  <2> HIDE DEF ended, walking
  <2>6. call' \in Call
    BY <2>1, <2>3, <2>4, <2>5
  <2> QED
    BY <1>5, <2>6 DEF NextRow, ScopeTypeOK
<1>6. ASSUME NEW l \in Locations, Visit(l) PROVE ScopeTypeOK'
  <2> DEFINE more == IF l \in call.result THEN {} ELSE Children(l)
  <2>1. more \subseteq Locations
    BY DEF Children
  <2>2. call' = [call EXCEPT !.stack = (call.stack \ {l}) \cup more, !.result = call.result \cup {l}]
    BY <1>6 DEF Visit
  <2> HIDE DEF more
  <2>3. call.stack \subseteq Locations /\ call.result \subseteq Locations
    BY <1>1 DEF Call
  <2>4. (call.stack \ {l}) \cup more \in SUBSET Locations /\ call.result \cup {l} \in SUBSET Locations
    BY <2>1, <2>3
  <2>5. call' \in Call
    BY <1>1, <2>2, <2>4 DEF Call
  <2> QED
    BY <1>6, <2>5 DEF Visit, ScopeTypeOK
<1>7. CASE RowsEnd
  BY <1>3, <1>7 DEF RowsEnd, ScopeTypeOK
<1>8. CASE WalkEnd
  <2> DEFINE pc == IF moderator.primary = "citizen" THEN "rows" ELSE "end"
  <2>1. call' = [call EXCEPT !.pc = pc, !.scope = call.scope \cup call.result]
    BY <1>8 DEF WalkEnd
  <2>2. pc \in {"rows", "end"} /\ call.scope \cup call.result \in SUBSET Locations
    BY <1>1 DEF Call
  <2> HIDE DEF pc
  <2>3. call' \in Call
    BY <1>1, <2>1, <2>2 DEF Call
  <2> QED
    BY <1>8, <2>3 DEF WalkEnd, ScopeTypeOK
<1>9. CASE NextCall
  BY <1>2, <1>9 DEF NextCall, ScopeTypeOK
<1>10. CASE UNCHANGED scopeVars
  BY <1>10 DEF scopeVars, ScopeTypeOK
<1> QED
  BY <1>4, <1>5, <1>6, <1>7, <1>8, <1>9, <1>10 DEF ScopeNext

\* A call for a moderator's scope keeps its type, and so names locations only.
THEOREM ScopeTypeCorrect == ScopeSpec => []ScopeTypeOK
BY ScopeStarts, ScopeStep, PTL DEF ScopeSpec

Closed(X) == \A l \in Locations : tree[l] \in X => l \in X

\* The subtrees of the scopes given, together: the least set of locations with the
\* scopes in it and, with a location, its children.
IsSubtreeOf(X, given) ==
    /\ given \subseteq X
    /\ Closed(X)
    /\ \A Y \in SUBSET Locations : given \subseteq Y /\ Closed(Y) => X \subseteq Y

\* What a call has returned: no scope, or the subtree of what the roles give.
ScopeIsClosure ==
    call.pc = "end" =>
        IF Everywhere \in ScopesGiven THEN call.unscoped
        ELSE ~call.unscoped /\ IsSubtreeOf(call.scope, ScopesGiven)

\* The scopes of the roles the loop has taken.
Taken ==
    IF moderator.primary = "upazila_admin" THEN {moderator.upazila}
    ELSE {r.at : r \in {q \in roles : q.moderates /\ q \notin call.rows}}

\* Locations found, and those the walk in progress has found or will visit.
Found == IF call.pc = "walk" THEN call.scope \cup call.result \cup call.stack ELSE call.scope

\* A call that has not met an unscoped role has found the scopes taken so far, and
\* nothing that is not in every closed set with the scopes in it; what it has
\* finished is closed, and what it walks lacks only the children still to visit.
WalkIsSound ==
    /\ call.pc = "start" => call = Started
    /\ call.pc \in {"rows", "walk"} => ~call.unscoped
    /\ call.pc = "rows" => moderator.primary = "citizen"
    /\ call.pc = "walk" => moderator.primary \in {"citizen", "upazila_admin"}
    /\ call.pc = "end" /\ call.unscoped => Everywhere \in ScopesGiven
    /\ call.pc = "end" /\ ~call.unscoped =>
          moderator.primary = "upazila_admin" \/ (moderator.primary = "citizen" /\ call.rows = {})
    /\ call.pc # "start" /\ ~call.unscoped =>
          /\ Everywhere \notin Taken
          /\ Taken \subseteq Found
          /\ Closed(call.scope)
          /\ \A Y \in SUBSET Locations : ScopesGiven \subseteq Y /\ Closed(Y) => Found \subseteq Y
    /\ call.pc = "walk" =>
          \A l \in Locations : tree[l] \in call.result => l \in call.result \cup call.stack

ScopeInv == ScopeTypeOK /\ WalkIsSound

LEMMA SoundStep ==
    ASSUME ScopeInv, ScopeNext
    PROVE  WalkIsSound'
<1> USE ScopeAssumption
<1>1. /\ call \in Call /\ roles \subseteq UserRole /\ moderator \in Moderator
      /\ moderator.primary \in {"citizen", "moderator", "upazila_admin"}
      /\ moderator.upazila \in Locations \cup {Everywhere} /\ tree \in [Locations -> Place]
  BY DEF ScopeInv, ScopeTypeOK, Moderator, Place
<1>2. tree' = tree /\ moderator' = moderator /\ roles' = roles
  BY DEF ScopeNext, ModeratorScope, RowsEnd, WalkEnd, NextCall, NextRow, Visit
<1>3. ScopesGiven' = ScopesGiven
  BY <1>2 DEF ScopesGiven
<1>4. \A Y : Closed(Y)' = Closed(Y)
  BY <1>2 DEF Closed
<1>5. moderator.primary = "citizen" => ScopesGiven = {r.at : r \in {q \in roles : q.moderates}}
  BY DEF ScopesGiven
<1>6. CASE ModeratorScope
  <2>1. call = Started
    BY <1>6 DEF ModeratorScope, ScopeInv, WalkIsSound
  <2>2. CASE moderator.primary = "upazila_admin" /\ moderator.upazila # Everywhere
    <3>1. call' = [Started EXCEPT !.pc = "walk", !.stack = {moderator.upazila}]
      BY <1>6, <2>1, <2>2 DEF ModeratorScope
    <3>2. /\ call'.pc = "walk" /\ call'.stack = {moderator.upazila} /\ call'.result = {} /\ call'.scope = {}
          /\ ~call'.unscoped
      BY <3>1 DEF Started
    <3>3. ScopesGiven = {moderator.upazila} /\ Taken' = {moderator.upazila}
      BY <1>2, <2>2 DEF ScopesGiven, Taken
    <3>4. Found' = {moderator.upazila}
      BY <3>2 DEF Found
    <3>5. Closed({})
      BY DEF Closed
    <3> QED
      BY <1>2, <1>3, <1>4, <2>2, <3>2, <3>3, <3>4, <3>5 DEF WalkIsSound
  <2>3. CASE moderator.primary = "citizen"
    <3>1. call' = [Started EXCEPT !.pc = "rows", !.rows = roles]
      BY <1>6, <2>1, <2>3 DEF ModeratorScope
    <3>2. call'.pc = "rows" /\ call'.rows = roles /\ call'.scope = {} /\ ~call'.unscoped
      BY <3>1 DEF Started
    <3>3. Taken' = {} /\ Found' = {}
      BY <1>2, <2>3, <3>2 DEF Taken, Found
    <3>4. Closed({})
      BY DEF Closed
    <3> QED
      BY <1>2, <1>3, <1>4, <2>3, <3>2, <3>3, <3>4 DEF WalkIsSound
  <2>4. CASE ~(moderator.primary = "upazila_admin" /\ moderator.upazila # Everywhere) /\ moderator.primary # "citizen"
    <3>1. call' = [Started EXCEPT !.pc = "end", !.unscoped = TRUE]
      BY <1>6, <2>1, <2>4 DEF ModeratorScope, Returned
    <3>2. call'.pc = "end" /\ call'.unscoped
      BY <3>1 DEF Started
    <3>3. Everywhere \in ScopesGiven
      BY <1>1, <2>4 DEF ScopesGiven
    <3> QED
      BY <1>3, <3>2, <3>3 DEF WalkIsSound
  <2> QED
    BY <2>2, <2>3, <2>4
<1>7. ASSUME NEW r \in roles, NextRow(r) PROVE WalkIsSound'
  <2> DEFINE rest == [call EXCEPT !.rows = @ \ {r}]
  <2>1. /\ call.pc = "rows" /\ r \in call.rows /\ r \in UserRole /\ r.moderates \in BOOLEAN
        /\ moderator.primary = "citizen" /\ ~call.unscoped
    BY <1>1, <1>7 DEF NextRow, ScopeInv, WalkIsSound, UserRole
  <2>2. /\ Everywhere \notin Taken /\ Taken \subseteq call.scope /\ Closed(call.scope)
        /\ \A Y \in SUBSET Locations : ScopesGiven \subseteq Y /\ Closed(Y) => call.scope \subseteq Y
    BY <2>1 DEF ScopeInv, WalkIsSound, Found
  <2>3. /\ rest.pc = call.pc /\ rest.rows = call.rows \ {r} /\ rest.scope = call.scope
        /\ rest.unscoped = call.unscoped /\ rest \in Call
    BY <1>1 DEF Call
  <2>4. CASE ~r.moderates
    <3>1. call' = rest
      BY <1>7, <2>4 DEF NextRow
    <3>2. Taken' = Taken /\ Found' = call.scope
      BY <1>2, <2>1, <2>3, <2>4, <3>1 DEF Taken, Found
    <3> QED
      BY <1>2, <1>3, <1>4, <2>1, <2>2, <2>3, <3>1, <3>2 DEF WalkIsSound
  <2>5. CASE r.moderates /\ r.at = Everywhere
    <3>1. call' = [rest EXCEPT !.pc = "end", !.unscoped = TRUE]
      BY <1>7, <2>5 DEF NextRow
    <3>2. call'.pc = "end" /\ call'.unscoped
      BY <2>3, <3>1 DEF Call
    <3>3. Everywhere \in ScopesGiven
      BY <1>5, <2>1, <2>5
    <3> QED
      BY <1>3, <3>2, <3>3 DEF WalkIsSound
  <2>6. CASE r.moderates /\ r.at # Everywhere
    <3>1. call' = [rest EXCEPT !.pc = "walk", !.stack = {r.at}, !.result = {}]
      BY <1>7, <2>6 DEF NextRow
    <3>2. /\ call'.pc = "walk" /\ call'.stack = {r.at} /\ call'.result = {}
          /\ call'.scope = call.scope /\ call'.rows = call.rows \ {r} /\ ~call'.unscoped
      BY <2>1, <2>3, <3>1 DEF Call
    <3>3. Taken' = Taken \cup {r.at}
      BY <1>2, <2>1, <2>6, <3>2 DEF Taken
    <3>4. Found' = call.scope \cup {r.at}
      BY <3>2 DEF Found
    <3>5. r.at \in ScopesGiven
      BY <1>5, <2>1, <2>6
    <3> QED
      BY <1>2, <1>3, <1>4, <2>1, <2>2, <2>6, <3>2, <3>3, <3>4, <3>5 DEF WalkIsSound
  <2> QED
    BY <2>1, <2>4, <2>5, <2>6
<1>8. CASE RowsEnd
  <2>1. /\ call.pc = "rows" /\ call.rows = {} /\ moderator.primary = "citizen" /\ ~call.unscoped
        /\ call' = [call EXCEPT !.pc = "end", !.unscoped = FALSE]
    BY <1>8 DEF RowsEnd, Returned, ScopeInv, WalkIsSound
  <2>2. call'.pc = "end" /\ ~call'.unscoped /\ call'.rows = {} /\ call'.scope = call.scope
    BY <1>1, <2>1 DEF Call
  <2>3. Taken' = Taken /\ Found' = Found
    BY <1>2, <2>1, <2>2 DEF Taken, Found
  <2> QED
    BY <1>2, <1>3, <1>4, <2>1, <2>2, <2>3 DEF ScopeInv, WalkIsSound
<1>9. ASSUME NEW l \in Locations, Visit(l) PROVE WalkIsSound'
  <2> DEFINE more == IF l \in call.result THEN {} ELSE Children(l)
  <2>1. /\ call.pc = "walk" /\ l \in call.stack
        /\ call' = [call EXCEPT !.stack = (call.stack \ {l}) \cup more, !.result = call.result \cup {l}]
    BY <1>9 DEF Visit
  <2>2. more \subseteq {c \in Locations : tree[c] = l}
        /\ (l \notin call.result => more = {c \in Locations : tree[c] = l})
    BY DEF Children
  <2> HIDE DEF more
  <2>3. /\ call'.pc = "walk" /\ call'.stack = (call.stack \ {l}) \cup more
        /\ call'.result = call.result \cup {l} /\ call'.scope = call.scope /\ call'.rows = call.rows
        /\ call'.unscoped = call.unscoped
    BY <1>1, <2>1 DEF Call
  <2>4. /\ ~call.unscoped /\ moderator.primary \in {"citizen", "upazila_admin"} /\ Everywhere \notin Taken
        /\ Taken \subseteq Found /\ Closed(call.scope)
        /\ \A Y \in SUBSET Locations : ScopesGiven \subseteq Y /\ Closed(Y) => Found \subseteq Y
        /\ \A c \in Locations : tree[c] \in call.result => c \in call.result \cup call.stack
    BY <2>1 DEF ScopeInv, WalkIsSound
  <2>5. Taken' = Taken /\ Found' = Found \cup more
    BY <1>2, <2>1, <2>3 DEF Taken, Found
  <2>6. \A Y \in SUBSET Locations : ScopesGiven \subseteq Y /\ Closed(Y) => Found \cup more \subseteq Y
    BY <2>1, <2>2, <2>4 DEF Found, Closed
  <2>7. \A c \in Locations : tree[c] \in call'.result => c \in call'.result \cup call'.stack
    BY <2>1, <2>2, <2>3, <2>4
  <2> QED
    BY <1>2, <1>3, <1>4, <2>3, <2>4, <2>5, <2>6, <2>7 DEF WalkIsSound
<1>10. CASE WalkEnd
  <2> DEFINE pc == IF moderator.primary = "citizen" THEN "rows" ELSE "end"
  <2>1. /\ call.pc = "walk" /\ call.stack = {}
        /\ call' = [call EXCEPT !.pc = pc, !.scope = call.scope \cup call.result]
    BY <1>10 DEF WalkEnd
  <2>2. /\ call'.pc = pc /\ call'.scope = call.scope \cup call.result /\ call'.rows = call.rows
        /\ call'.unscoped = call.unscoped
    BY <1>1, <2>1 DEF Call
  <2>3. /\ ~call.unscoped /\ moderator.primary \in {"citizen", "upazila_admin"} /\ Everywhere \notin Taken
        /\ Taken \subseteq Found /\ Closed(call.scope)
        /\ \A Y \in SUBSET Locations : ScopesGiven \subseteq Y /\ Closed(Y) => Found \subseteq Y
        /\ \A c \in Locations : tree[c] \in call.result => c \in call.result \cup call.stack
    BY <2>1 DEF ScopeInv, WalkIsSound
  <2>4. Taken' = Taken /\ Found' = Found /\ Found = call.scope \cup call.result
    BY <1>2, <2>1, <2>2 DEF Taken, Found
  <2>5. Closed(call.scope \cup call.result)
    BY <2>1, <2>3 DEF Closed
  <2>6. Closed(call.scope)'
    BY <1>2, <2>2, <2>5 DEF Closed
  <2>7. /\ pc \in {"rows", "end"} /\ (pc = "rows" => moderator.primary = "citizen")
        /\ (pc = "end" => moderator.primary = "upazila_admin")
    BY <2>3
  <2> HIDE DEF pc
  <2>8. \A Y \in SUBSET Locations : ScopesGiven' \subseteq Y /\ Closed(Y)' => Found' \subseteq Y
    BY <1>3, <1>4, <2>3, <2>4
  <2>9. ~call'.unscoped /\ Everywhere \notin Taken' /\ Taken' \subseteq Found'
    BY <2>2, <2>3, <2>4
  <2>10. call'.pc \in {"rows", "end"} /\ (call'.pc = "rows" => moderator'.primary = "citizen")
         /\ (call'.pc = "end" => moderator'.primary = "upazila_admin")
    BY <1>2, <2>2, <2>7
  <2> QED
    BY <2>6, <2>8, <2>9, <2>10 DEF WalkIsSound
<1>11. CASE NextCall
  <2>1. call' = Started /\ Started.pc = "start"
    BY <1>11 DEF NextCall, Started
  <2> QED
    BY <2>1 DEF WalkIsSound
<1> QED
  BY <1>6, <1>7, <1>8, <1>9, <1>10, <1>11 DEF ScopeNext

LEMMA ScopeInvStep == ScopeInv /\ [ScopeNext]_scopeVars => ScopeInv'
<1>1. ASSUME ScopeInv, UNCHANGED scopeVars PROVE WalkIsSound'
  BY <1>1 DEF ScopeInv, scopeVars, WalkIsSound, Taken, Found, Closed, ScopesGiven
<1> QED
  BY <1>1, ScopeStep, SoundStep DEF ScopeInv

LEMMA ScopeInvStarts == ScopeInit => ScopeInv
BY ScopeStarts DEF ScopeInit, ScopeInv, WalkIsSound, Started

LEMMA SoundIsClosure == ScopeInv => ScopeIsClosure
<1> SUFFICES ASSUME ScopeInv, call.pc = "end"
             PROVE  IF Everywhere \in ScopesGiven THEN call.unscoped
                    ELSE ~call.unscoped /\ IsSubtreeOf(call.scope, ScopesGiven)
  BY DEF ScopeIsClosure
<1>1. CASE call.unscoped
  BY <1>1 DEF ScopeInv, WalkIsSound
<1>2. CASE ~call.unscoped
  <2>1. ScopesGiven = Taken
    BY <1>2 DEF ScopeInv, WalkIsSound, ScopesGiven, Taken
  <2> QED
    BY <1>2, <2>1 DEF ScopeInv, WalkIsSound, IsSubtreeOf, Found
<1> QED
  BY <1>1, <1>2

\* moderation/service.py:171 "the union of location subtrees the moderator's scoped
\* roles cover": a call returns no scope exactly if a role gives every location,
\* and otherwise the least set of locations that holds the scopes and the children
\* of its members - for parent_ids of any depth, cyclic ones included.
THEOREM ScopesAreSubtrees == ScopeSpec => []ScopeIsClosure
BY ScopeInvStarts, ScopeInvStep, SoundIsClosure, PTL DEF ScopeSpec

\* The walk up of is_location_within: the location, then each one's parent.
LEMMA ClimbSteps ==
    ASSUME NEW l
    PROVE  Climb(l)[0] = l /\ \A k \in 1..7 : Climb(l)[k] = ParentOf(Climb(l)[k-1])
<1> DEFINE Step(up) == [k \in 0..7 |-> IF k = 0 THEN l ELSE ParentOf(up[k-1])]
           p1 == ParentOf(l)
           p2 == ParentOf(p1)
           p3 == ParentOf(p2)
           p4 == ParentOf(p3)
           p5 == ParentOf(p4)
           p6 == ParentOf(p5)
           p7 == ParentOf(p6)
           g == [k \in 0..7 |-> CASE k = 0 -> l [] k = 1 -> p1 [] k = 2 -> p2 [] k = 3 -> p3
                                  [] k = 4 -> p4 [] k = 5 -> p5 [] k = 6 -> p6 [] OTHER -> p7]
           walk == CHOOSE f : f = Step(f)
<1>1. /\ p1 = ParentOf(l) /\ p2 = ParentOf(p1) /\ p3 = ParentOf(p2) /\ p4 = ParentOf(p3)
      /\ p5 = ParentOf(p4) /\ p6 = ParentOf(p5) /\ p7 = ParentOf(p6)
  OBVIOUS
<1> HIDE DEF p1, p2, p3, p4, p5, p6, p7
<1>2. g = Step(g)
  <2>1. /\ g[0] = l /\ g[1] = p1 /\ g[2] = p2 /\ g[3] = p3 /\ g[4] = p4 /\ g[5] = p5
        /\ g[6] = p6 /\ g[7] = p7
    OBVIOUS
  <2>2. g = [k \in 0..7 |-> g[k]]
    OBVIOUS
  <2> HIDE DEF g
  <2>3. \A k \in 0..7 : k \in {0, 1, 2, 3, 4, 5, 6, 7}
    OBVIOUS
  <2>4. \A k \in 0..7 : g[k] = IF k = 0 THEN l ELSE ParentOf(g[k-1])
    BY <1>1, <2>1, <2>3
  <2> QED
    BY <2>2, <2>4
<1> HIDE DEF g
<1>3. walk = Step(walk)
  BY <1>2
<1>4. Climb(l) = walk
  BY DEF Climb
<1> HIDE DEF walk
<1>5. \A k \in 0..7 : Step(walk)[k] = IF k = 0 THEN l ELSE ParentOf(walk[k-1])
  OBVIOUS
<1> HIDE DEF Step
<1>6. \A k \in 0..7 : walk[k] = IF k = 0 THEN l ELSE ParentOf(walk[k-1])
  BY <1>3, <1>5
<1> QED
  BY <1>4, <1>6

\* The eight turns of is_location_within reach the top from every location, or go
\* round a cycle.
EightTurnsSuffice ==
    \A l \in Locations : ParentOf(Climb(l)[7]) \in {Climb(l)[n] : n \in 0..7} \cup {Everywhere}

\* A hierarchy of at most eight levels (location_scope.py:18 "The hierarchy is only five
\* levels deep"): each location below its parent.
EightLevels ==
    \E level \in [Locations -> 0..7] :
        \A l \in Locations : tree[l] # Everywhere => level[tree[l]] < level[l]

\* In one the eight turns suffice.
LEMMA EightLevelsSuffice ==
    ASSUME ScopeAssumption, tree \in [Locations -> Place], EightLevels
    PROVE  EightTurnsSuffice
<1> SUFFICES ASSUME NEW l \in Locations PROVE ParentOf(Climb(l)[7]) = Everywhere
  BY DEF EightTurnsSuffice
<1>1. PICK level \in [Locations -> 0..7] :
         \A m \in Locations : tree[m] # Everywhere => level[tree[m]] < level[m]
  BY DEF EightLevels
<1> DEFINE Right(x, k) == x = Everywhere \/ (x \in Locations /\ level[x] + k <= 7)
           Wrong == {k \in 0..7 : ~Right(Climb(l)[k], k)}
<1>2. ASSUME NEW x, NEW k \in Nat, Right(x, k) PROVE Right(ParentOf(x), k + 1)
  <2>1. CASE x = Everywhere
    BY <2>1 DEF ParentOf
  <2>2. CASE x # Everywhere
    <3>1. x \in Locations /\ level[x] + k <= 7 /\ level[x] \in 0..7 /\ ParentOf(x) = tree[x]
      BY <1>1, <1>2, <2>2 DEF ParentOf
    <3>2. tree[x] = Everywhere \/ (tree[x] \in Locations /\ level[tree[x]] \in 0..7 /\ level[tree[x]] < level[x])
      BY <1>1, <3>1 DEF Place
    <3> QED
      BY <3>1, <3>2
  <2> QED
    BY <2>1, <2>2
<1>3. Right(Climb(l)[0], 0)
  BY <1>1, ClimbSteps
<1> HIDE DEF Right
<1>4. ASSUME Wrong # {} PROVE FALSE
  <2>1. PICK k \in Wrong : \A p \in Wrong : k <= p
    BY <1>4, LeastExists
  <2>2. k \in 1..7 /\ k - 1 \in 0..7 /\ (k - 1) + 1 = k /\ Climb(l)[k] = ParentOf(Climb(l)[k - 1])
    BY <1>3, <2>1, ClimbSteps
  <2>3. Right(Climb(l)[k - 1], k - 1)
    BY <2>1, <2>2
  <2>4. Right(Climb(l)[k], (k - 1) + 1)
    BY <1>2, <2>2, <2>3
  <2> QED
    BY <2>1, <2>2, <2>4
<1>5. Right(ParentOf(Climb(l)[7]), 8)
  <2>1. Right(Climb(l)[7], 7)
    BY <1>4
  <2>2. Right(ParentOf(Climb(l)[7]), 7 + 1)
    BY <1>2, <2>1
  <2> QED
    BY <2>2
<1> QED
  BY <1>1, <1>5 DEF Right

\* Where they do, the locations the walk meets have no parent it does not meet.
LEMMA ClimbStays ==
    ASSUME ScopeAssumption, tree \in [Locations -> Place], EightTurnsSuffice, NEW l \in Locations,
           NEW x \in {Climb(l)[n] : n \in 0..7} \cup {Everywhere}, NEW k \in 0..7
    PROVE  Climb(x)[k] \in {Climb(l)[n] : n \in 0..7} \cup {Everywhere}
<1> DEFINE A == {Climb(l)[n] : n \in 0..7} \cup {Everywhere}
<1>1. \A a \in A : ParentOf(a) \in A
  <2> SUFFICES ASSUME NEW n \in 0..7 PROVE ParentOf(Climb(l)[n]) \in A
    BY DEF ParentOf
  <2>1. CASE n = 7
    BY <2>1 DEF EightTurnsSuffice
  <2>2. CASE n # 7
    <3>1. n + 1 \in 1..7 /\ (n + 1) - 1 = n
      BY <2>2
    <3>2. ParentOf(Climb(l)[n]) = Climb(l)[n + 1]
      BY <3>1, ClimbSteps
    <3> QED
      BY <3>1, <3>2
  <2> QED
    BY <2>1, <2>2
<1>2. x \in A
  OBVIOUS
<1> HIDE DEF A
<1> DEFINE Out == {n \in 0..7 : Climb(x)[n] \notin A}
<1>3. ASSUME Out # {} PROVE FALSE
  <2>1. PICK q \in Out : \A p \in Out : q <= p
    BY <1>3, LeastExists
  <2>2. q \in 1..7 /\ Climb(x)[q] = ParentOf(Climb(x)[q - 1])
    BY <1>2, <2>1, ClimbSteps
  <2>3. Climb(x)[q - 1] \in A
    BY <2>1, <2>2
  <2> QED
    BY <1>1, <2>1, <2>2, <2>3
<1> QED
  BY <1>3 DEF A

\* A walk up that meets a closed set of locations began in it.
LEMMA ClimbsFromInside ==
    ASSUME ScopeAssumption, NEW l \in Locations, tree \in [Locations -> Place],
           NEW X \in SUBSET Locations, Closed(X), NEW n \in 0..7, Climb(l)[n] \in X
    PROVE  l \in X
<1> DEFINE In == {k \in 0..7 : Climb(l)[k] \in X}
<1>1. PICK q \in In : \A p \in In : q <= p
  BY LeastExists
<1>2. ASSUME q # 0 PROVE FALSE
  <2>1. q \in 1..7 /\ q - 1 \in 0..7 /\ Climb(l)[q] = ParentOf(Climb(l)[q - 1])
    BY <1>1, <1>2, ClimbSteps
  <2>2. Climb(l)[q - 1] \in Locations
    <3> DEFINE Lost == {k \in 0..7 : Climb(l)[k] \notin Locations \cup {Everywhere}}
    <3>1. ASSUME Lost # {} PROVE FALSE
      <4>1. PICK k \in Lost : \A p \in Lost : k <= p
        BY <3>1, LeastExists
      <4>2. k \in 1..7 /\ k - 1 \in 0..7 /\ Climb(l)[k] = ParentOf(Climb(l)[k - 1])
        BY <4>1, ClimbSteps
      <4>3. Climb(l)[k - 1] \in Locations \cup {Everywhere}
        BY <4>1, <4>2
      <4> QED
        BY <4>1, <4>2, <4>3 DEF ParentOf, Place
    <3>2. Climb(l)[q - 1] \in Locations \cup {Everywhere}
      BY <2>1, <3>1
    <3>3. Climb(l)[q - 1] # Everywhere
      BY <1>1, <2>1, ScopeAssumption DEF ParentOf
    <3> QED
      BY <3>2, <3>3
  <2>3. tree[Climb(l)[q - 1]] \in X
    BY <1>1, <2>1, <2>2, ScopeAssumption DEF ParentOf
  <2>4. Climb(l)[q - 1] \in X
    BY <2>2, <2>3 DEF Closed
  <2> QED
    BY <1>1, <2>1, <2>4
<1> QED
  BY <1>1, <1>2, ClimbSteps

\* moderation/service.py:171 and location_scope.py:11: the walk down of the queue and
\* the walk up of is_location_within agree, for any locations, roles and parent_ids
\* whose climbs the cap of eight turns does not cut short: those of a hierarchy of at
\* most eight levels among them.
THEOREM ScopesAreWithin == ScopeSpec => [](EightLevels \/ EightTurnsSuffice => ScopeIsSubtree)
<1>1. ScopeInv /\ EightTurnsSuffice => ScopeIsSubtree
  <2> SUFFICES ASSUME ScopeInv, EightTurnsSuffice, call.pc = "end", NEW l \in Place
               PROVE  /\ Lists(l) <=> \E a \in ScopesGiven : IsLocationWithin(l, a)
                      /\ MayReview(Everywhere, TRUE)
    BY ScopeAssumption DEF ScopeIsSubtree, Lists, MayReview
  <2>1. /\ IF Everywhere \in ScopesGiven THEN call.unscoped
           ELSE ~call.unscoped /\ IsSubtreeOf(call.scope, ScopesGiven)
        /\ tree \in [Locations -> Place] /\ call.scope \subseteq Locations /\ call.unscoped \in BOOLEAN
    BY SoundIsClosure DEF ScopeIsClosure, ScopeInv, ScopeTypeOK, Call
  <2>2. CASE Everywhere \in ScopesGiven
    BY <2>1, <2>2 DEF Lists, MayReview, IsLocationWithin
  <2>3. CASE Everywhere \notin ScopesGiven
    <3> DEFINE Within == {m \in Locations : \E a \in ScopesGiven : IsLocationWithin(m, a)}
    <3>1. ~call.unscoped /\ ScopesGiven \subseteq call.scope /\ Closed(call.scope)
          /\ \A Y \in SUBSET Locations : ScopesGiven \subseteq Y /\ Closed(Y) => call.scope \subseteq Y
      BY <2>1, <2>3 DEF IsSubtreeOf
    <3>2. ASSUME NEW m \in Locations, NEW a \in ScopesGiven
          PROVE  IsLocationWithin(m, a) <=> a \in {Climb(m)[n] : n \in 0..7}
      BY <2>3, ScopeAssumption DEF IsLocationWithin
    <3>3. Within \subseteq call.scope
      <4> SUFFICES ASSUME NEW m \in Locations, NEW a \in ScopesGiven, NEW n \in 0..7, a = Climb(m)[n]
                   PROVE  m \in call.scope
        BY <3>2
      <4> QED
        BY <2>1, <3>1, ClimbsFromInside, ScopeAssumption
    <3>4. ScopesGiven \subseteq Within
      <4> SUFFICES ASSUME NEW a \in ScopesGiven PROVE a \in Within
        OBVIOUS
      <4>1. a \in Locations /\ Climb(a)[0] = a /\ 0 \in 0..7
        BY <2>1, <3>1, ClimbSteps
      <4> QED
        BY <3>2, <4>1
    <3>5. Closed(Within)
      <4> SUFFICES ASSUME NEW m \in Locations, tree[m] \in Within PROVE m \in Within
        BY DEF Closed
      <4>1. PICK a \in ScopesGiven : a \in {Climb(tree[m])[n] : n \in 0..7}
        BY <3>2
      <4>2. PICK k \in 0..7 : a = Climb(tree[m])[k]
        BY <4>1
      <4>3. tree[m] = Climb(m)[1]
        BY ClimbSteps, ScopeAssumption DEF ParentOf
      <4>4. tree[m] \in {Climb(m)[n] : n \in 0..7} \cup {Everywhere}
        BY <4>3
      <4>5. a \in {Climb(m)[n] : n \in 0..7} \cup {Everywhere}
        BY <2>1, <4>2, <4>4, ClimbStays, ScopeAssumption
      <4> QED
        BY <2>3, <3>2, <4>5
    <3>6. call.scope = Within
      BY <3>1, <3>3, <3>4, <3>5
    <3>7. l = Everywhere => ~\E a \in ScopesGiven : IsLocationWithin(l, a)
      BY <2>3 DEF IsLocationWithin
    <3> QED
      BY <3>1, <3>6, <3>7, ScopeAssumption DEF Lists, MayReview, Place
  <2> QED
    BY <2>2, <2>3
<1>2. ScopeInv /\ EightLevels => EightTurnsSuffice
  BY EightLevelsSuffice, ScopeAssumption DEF ScopeInv, ScopeTypeOK
<1> QED
  BY <1>1, <1>2, ScopeInvStarts, ScopeInvStep, PTL DEF ScopeSpec

-----------------------------------------------------------------------------
(* Side by side, as the run checks them.                                   *)

\* A behaviour of the composition is one of each part: what is proved of a part holds
\* in the composition.
THEOREM DirectoryIsItsParts == MCSpec => Spec /\ ScopeSpec /\ CivicSpec /\ IndexSpec
<1>1. MCInit => Init /\ ScopeInit /\ CivicInit /\ IndexInit
  BY DEF MCInit
<1>2. [MCNext]_<<vars, scopeVars, civicVars, indexVars, side>>
      => [Next]_vars /\ [ScopeNext]_scopeVars /\ [CivicNext]_civicVars /\ [IndexNext]_indexVars
  BY DEF MCNext, CivicNext
<1> QED
  BY <1>1, <1>2, PTL DEF MCSpec, Spec, ScopeSpec, CivicSpec, IndexSpec

\* Every state the run reaches, and every state of any other instance, has its type.
THEOREM DirectoryTypeCorrect == MCSpec => []MCTypeOK
<1>1. TypeOK /\ ScopeTypeOK /\ CivicTypeOK /\ IndexTypeOK => MCTypeOK
  BY DEF MCTypeOK
<1> QED
  BY <1>1, DirectoryIsItsParts, ListingTypeCorrect, ScopeTypeCorrect, CivicTypeCorrect, IndexTypeCorrect,
     PTL
=============================================================================
