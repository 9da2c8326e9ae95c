----------------------------- MODULE Appointments -----------------------------
(***************************************************************************)
(* Who holds what: representatives, one active holder of a position at a   *)
(* location (modules/representatives), and institutions, one hospital and  *)
(* one school for a user who was granted them (modules/hospitals, schools).*)
(* No constraint of the database backs these rules: a request looks, and   *)
(* writes in a later statement.                                            *)
(***************************************************************************)
EXTENDS Naturals, FiniteSets

CONSTANTS
    Reps,           \* ids of representatives rows
    Wards,          \* locations
    Positions,
    Owners,         \* users granted can_manage_hospital and can_manage_school
    Clerks,         \* requests in flight
    Nowhere         \* the location of a row not inserted

ASSUME AppointmentsAssumption ==
    IsFiniteSet(Reps) /\ IsFiniteSet(Clerks) /\ Nowhere \notin Wards \cup Positions

VARIABLES
    reps,           \* see RepRow
    institutions,   \* hospitals and schools each granted user owns
    desk            \* what each request holds in memory

civicVars == <<reps, institutions, desk>>

RepStatus == {"absent", "active", "inactive"}
Post == [location : Wards \cup {Nowhere}, position : Positions \cup {Nowhere}]

\* unchecked: nothing had established that the post was free when the row came
\* to hold it (history).
RepRow == [post : Post, status : RepStatus, unchecked : BOOLEAN]
NoPost == [location |-> Nowhere, position |-> Nowhere]
NoRep == [post |-> NoPost, status |-> "absent", unchecked |-> FALSE]

InstitutionKind == {"hospital", "school"}
\* doubled: two creations for the user were open together (history).
Owned == [rows : 0..2, doubled : BOOLEAN]

\* was, to: the columns as loaded and as they will be; checked: the post was found
\* free, and nothing has come to hold it since.
Change == [post : Post, status : RepStatus]
Desk == [pc : {"idle", "appoint"}, rep : Reps \cup {Nowhere}, was : Change, to : Change, checked : BOOLEAN]
            \cup [pc : {"found"}, owner : Owners, kind : InstitutionKind, rival : BOOLEAN]
NoChange == [post |-> NoPost, status |-> "absent"]
Free == [pc |-> "idle", rep |-> Nowhere, was |-> NoChange, to |-> NoChange, checked |-> FALSE]

CivicTypeOK ==
    /\ reps \in [Reps -> RepRow]
    /\ institutions \in [Owners \X InstitutionKind -> Owned]
    /\ desk \in [Clerks -> Desk]

CivicInit ==
    /\ reps = [r \in Reps |-> NoRep]
    /\ institutions = [o \in Owners \X InstitutionKind |-> [rows |-> 0, doubled |-> FALSE]]
    /\ desk = [c \in Clerks |-> Free]

-----------------------------------------------------------------------------
(* Representatives.                                                          *)

Holders(post) == {r \in Reps : reps[r].status = "active" /\ reps[r].post = post}

\* _assert_no_active_duplicate
NoActiveDuplicate(post, exclude) == Holders(post) \subseteq exclude

Posted(w, p) == [location |-> w, position |-> p]

\* MUTANT: create does not look for a holder
BeginCreateUnasked(c, r, post) ==
    /\ desk[c] = Free
    /\ reps[r].status = "absent"
    /\ desk' = [desk EXCEPT ![c] = [pc |-> "appoint", rep |-> r, was |-> NoChange, checked |-> TRUE,
                                    to |-> [post |-> post, status |-> "active"]]]
    /\ UNCHANGED <<reps, institutions>>

BeginCreate(c, r, post) ==
    /\ desk[c] = Free
    /\ reps[r].status = "absent"
    /\ NoActiveDuplicate(post, {})
    /\ desk' = [desk EXCEPT ![c] = [pc |-> "appoint", rep |-> r, was |-> NoChange, checked |-> TRUE,
                                    to |-> [post |-> post, status |-> "active"]]]
    /\ UNCHANGED <<reps, institutions>>

\* A CONTENT_MANAGE actor's update: the check runs if the payload names the
\* location or the position, and not for a status alone.
BeginRepUpdate(c, r, post, status, named) ==
    /\ desk[c] = Free
    /\ reps[r].status # "absent"
    /\ <<post, status>> # <<reps[r].post, reps[r].status>>
    /\ post # reps[r].post => named
    /\ named => NoActiveDuplicate(post, {r})
    /\ desk' = [desk EXCEPT ![c] = [pc |-> "appoint", rep |-> r, checked |-> named,
                                    was |-> [post |-> reps[r].post, status |-> reps[r].status],
                                    to |-> [post |-> post, status |-> status]]]
    /\ UNCHANGED <<reps, institutions>>

\* The UPDATE sets the columns that differ from those loaded; an INSERT sets all.
Written(d) ==
    LET row == reps[d.rep]
        post == [location |-> (IF d.to.post.location # d.was.post.location
                               THEN d.to.post.location ELSE row.post.location),
                 position |-> (IF d.to.post.position # d.was.post.position
                               THEN d.to.post.position ELSE row.post.position)]
        status == IF d.to.status # d.was.status THEN d.to.status ELSE row.status
        moved == status = "active" /\ (row.status # "active" \/ row.post # post) IN
    [post |-> post, status |-> status,
     unchecked |-> IF moved THEN ~d.checked \/ post # d.to.post ELSE row.unchecked /\ status = "active"]

CommitRep(c) ==
    LET row == Written(desk[c]) IN
    /\ desk[c].pc = "appoint"
    /\ desk[c].was = NoChange => reps[desk[c].rep] = NoRep
    /\ reps' = [reps EXCEPT ![desk[c].rep] = row]
    /\ desk' = [d \in Clerks |->
                  IF d = c THEN Free
                  ELSE IF desk[d].pc = "appoint"
                  THEN [desk[d] EXCEPT !.checked = @ /\ ~(row.status = "active" /\ row.post = desk[d].to.post)]
                  ELSE desk[d]]
    /\ UNCHANGED institutions

-----------------------------------------------------------------------------
(* Institutions.  Staff create them without an owner, which no rule counts.  *)

\* create_hospital, create_school: already_owns is None.
BeginInstitution(c, u, k) ==
    /\ desk[c] = Free
    /\ institutions[<<u, k>>].rows = 0
    /\ desk' = [desk EXCEPT ![c] = [pc |-> "found", owner |-> u, kind |-> k, rival |-> FALSE]]
    /\ UNCHANGED <<reps, institutions>>

CreateHospital(c, u) == BeginInstitution(c, u, "hospital")
CreateSchool(c, u) == BeginInstitution(c, u, "school")

CommitInstitution(c) ==
    LET d == desk[c] IN
    /\ d.pc = "found"
    /\ institutions[<<d.owner, d.kind>>].rows < 2
    /\ institutions' = [institutions EXCEPT ![<<d.owner, d.kind>>] = [rows |-> @.rows + 1,
                                                                     doubled |-> @.doubled \/ d.rival]]
    /\ desk' = [e \in Clerks |->
                  IF e = c THEN Free
                  ELSE IF desk[e].pc = "found" /\ desk[e].owner = d.owner /\ desk[e].kind = d.kind
                  THEN [desk[e] EXCEPT !.rival = TRUE] ELSE desk[e]]
    /\ UNCHANGED reps

\* The request fails or is given up.
GiveUp(c) ==
    /\ desk[c] # Free
    /\ desk' = [desk EXCEPT ![c] = Free]
    /\ UNCHANGED <<reps, institutions>>

RepNext ==
    \E c \in Clerks :
        \/ CommitRep(c) \/ GiveUp(c)
        \/ \E r \in Reps, w \in Wards, p \in Positions :
              \/ BeginCreate(c, r, Posted(w, p))
              \/ \E status \in RepStatus \ {"absent"}, named \in BOOLEAN :
                    BeginRepUpdate(c, r, Posted(w, p), status, named)

InstitutionNext ==
    \E c \in Clerks :
        \/ CommitInstitution(c) \/ GiveUp(c)
        \/ \E u \in Owners : CreateHospital(c, u) \/ CreateSchool(c, u)

CivicNext == RepNext \/ InstitutionNext

CivicSpec == CivicInit /\ [][CivicNext]_civicVars

\* Whom the public directory names for a position at a location.
ListPublic(w, p) ==
    {r \in Reps : reps[r].status = "active" /\ reps[r].post.location = w /\ reps[r].post.position = p}

-----------------------------------------------------------------------------

\* representatives/service.py:106 "this position is already held for this
\* location", hospitals/service.py:82 "you already manage a hospital": one public
\* holder of a post and one institution of a kind, whatever moves, deactivations
\* and races come between - except for a holder reactivated by its status alone,
\* one two updates moved by a column each, and writes whose check came too early.
OneHolder ==
    /\ \A w \in Wards, p \in Positions : Cardinality({r \in ListPublic(w, p) : ~reps[r].unchecked}) <= 1
    /\ \A o \in DOMAIN institutions : institutions[o].rows <= 1 \/ institutions[o].doubled
=============================================================================
