------------------------ MODULE ListingModerationProofs ------------------------
(***************************************************************************)
(* Proofs about ListingModeration, for any listings, requests in flight,   *)
(* queue size and score from which the queue is skipped.                   *)
(***************************************************************************)
EXTENDS ListingModeration, FiniteSetTheorems, WellFoundedInduction, TLAPS

-----------------------------------------------------------------------------
(* Numbers, the score, and where a row is put.                             *)

\* A set whose elements are all equal has at most one.
LEMMA AtMostOne ==
    ASSUME NEW S, \A x, y \in S : x = y
    PROVE  Cardinality(S) <= 1
<1>1. CASE S = {}
  BY <1>1, FS_EmptySet
<1>2. CASE S # {}
  <2>1. PICK x : S = {x}
    BY <1>2
  <2> QED
    BY <2>1, FS_Singleton
<1> QED
  BY <1>1, <1>2

\* A set of numbers has a least one.
LEMMA LeastExists ==
    ASSUME NEW S \in SUBSET Nat, S # {}
    PROVE  \E q \in S : \A p \in S : q <= p
<1> DEFINE R == OpToRel(<, Nat)
<1>1. \A x, y \in Nat : <<x, y>> \in R <=> x < y
  BY DEF OpToRel
<1>2. IsWellFoundedOn(R, Nat)
  BY NatLessThanWellFounded
<1> HIDE DEF R
<1>3. \E q \in S : \A p \in S : ~(<<p, q>> \in R)
  BY <1>2, WFMin
<1>4. PICK q \in S : \A p \in S : ~(<<p, q>> \in R)
  BY <1>3
<1>5. ASSUME NEW p \in S PROVE q <= p
  <2>1. p \in Nat /\ q \in Nat
    OBVIOUS
  <2>2. ~(p < q)
    BY <1>1, <1>4, <2>1
  <2> QED
    BY <2>1, <2>2
<1> QED
  BY <1>5

LEMMA FreeSlotIsFree ==
    ASSUME FreeSlots # {}
    PROVE  FreeSlot \in FreeSlots /\ FreeSlot \in Slots
<1>1. FreeSlots \in SUBSET Nat /\ FreeSlots \subseteq Slots
  BY ListingAssumption DEF FreeSlots, Slots
<1>2. \E q \in FreeSlots : \A p \in FreeSlots : q <= p
  BY <1>1, LeastExists
<1> QED
  BY <1>1, <1>2 DEF FreeSlot

Counted(rows) == {l \in Listings : rows[l].moderation = "approved" /\ Trusted(rows[l].kind)}
Upheld(q) == {i \in Slots : q[i].type = "report" /\ q[i].status = "approved"}

LEMMA CountsAreSmall ==
    ASSUME NEW rows, NEW q
    PROVE  /\ Cardinality(Counted(rows)) \in 0..Cardinality(Listings)
           /\ Cardinality(Upheld(q)) \in 0..QueueSize
           /\ IsFiniteSet(Counted(rows)) /\ Cardinality(Listings) \in Nat
<1>1. IsFiniteSet(Listings) /\ QueueSize \in Nat /\ IsFiniteSet(Slots) /\ Cardinality(Slots) = QueueSize
  BY ListingAssumption, FS_Interval DEF Slots
<1>2. Counted(rows) \in SUBSET Listings /\ Upheld(q) \in SUBSET Slots
  BY DEF Counted, Upheld
<1>3. /\ IsFiniteSet(Counted(rows)) /\ Cardinality(Counted(rows)) <= Cardinality(Listings)
      /\ IsFiniteSet(Upheld(q)) /\ Cardinality(Upheld(q)) <= QueueSize
  BY <1>1, <1>2, FS_Subset
<1>4. Cardinality(Counted(rows)) \in Nat /\ Cardinality(Upheld(q)) \in Nat /\ Cardinality(Listings) \in Nat
  BY <1>1, <1>3, FS_CardinalityType
<1> QED
  BY <1>1, <1>3, <1>4

\* The score of any tables is within its bounds.
LEMMA ScoreIsBounded ==
    ASSUME NEW rows, NEW q, NEW r \in 0..MaxRating
    PROVE  Score(rows, q, r) \in Scores
<1>1. Score(rows, q, r) = Cardinality(Counted(rows)) + r - 2 * Cardinality(Upheld(q))
  BY DEF Score, Counted, Upheld
<1> QED
  BY <1>1, CountsAreSmall, ListingAssumption DEF Scores

\* It is a matter of which listings are approved and trusted, and which reports upheld.
LEMMA ScoreOfCounts ==
    ASSUME NEW rows, NEW rows2, NEW q, NEW q2, NEW r,
           \A l \in Listings : (rows[l].moderation = "approved" /\ Trusted(rows[l].kind))
                                  <=> (rows2[l].moderation = "approved" /\ Trusted(rows2[l].kind)),
           \A i \in Slots : (q[i].type = "report" /\ q[i].status = "approved")
                               <=> (q2[i].type = "report" /\ q2[i].status = "approved")
    PROVE  Score(rows, q, r) = Score(rows2, q2, r)
<1>1. Counted(rows) = Counted(rows2)
  BY DEF Counted
<1>2. Upheld(q) = Upheld(q2)
  BY DEF Upheld
<1> QED
  BY <1>1, <1>2 DEF Score, Counted, Upheld

LEMMA ScoreLosesOne ==
    ASSUME NEW rows, NEW rows2, NEW q, NEW q2, NEW r \in 0..MaxRating, NEW a \in Listings,
           rows[a].moderation = "approved", Trusted(rows[a].kind), rows2[a].moderation # "approved",
           \A l \in Listings : l # a => rows2[l] = rows[l],
           \A i \in Slots : (q[i].type = "report" /\ q[i].status = "approved")
                               <=> (q2[i].type = "report" /\ q2[i].status = "approved")
    PROVE  Score(rows2, q2, r) = Score(rows, q, r) - 1
<1>1. Counted(rows2) = Counted(rows) \ {a} /\ a \in Counted(rows)
  BY DEF Counted
<1>2. Upheld(q) = Upheld(q2)
  BY DEF Upheld
<1>3. Cardinality(Counted(rows2)) = Cardinality(Counted(rows)) - 1
  BY <1>1, CountsAreSmall, FS_RemoveElement
<1>4. /\ Score(rows, q, r) = Cardinality(Counted(rows)) + r - 2 * Cardinality(Upheld(q))
      /\ Score(rows2, q2, r) = Cardinality(Counted(rows2)) + r - 2 * Cardinality(Upheld(q2))
  BY DEF Score, Counted, Upheld
<1>5. /\ Cardinality(Counted(rows)) \in Int /\ Cardinality(Upheld(q)) \in Int /\ r \in Int
      /\ Cardinality(Counted(rows2)) \in Int
  BY CountsAreSmall, ListingAssumption
<1> QED
  BY <1>2, <1>3, <1>4, <1>5

-----------------------------------------------------------------------------
(* What a step does to one row, one request.                               *)

\* What an operation puts in the queue takes a place that no request in flight has
\* loaded, and nobody will look for: it waits for nobody and counts for nothing.
Entered(n, row) ==
    /\ n \in Slots
    /\ queue' = [queue EXCEPT ![n] = row]
    /\ \/ queue[n].type = "none"
       \/ queue[n].status # "pending" /\ (queue[n].type = "report" => queue[n].status = "rejected")
    /\ \A s \in Sessions : queue[n].type = "none" \/ req[s].slot # n

LEMMA PutEnters ==
    ASSUME NEW type, NEW l, NEW status, FreeSlots # {}, queue' = Put(type, l, status)
    PROVE  \E n \in Slots : Entered(n, [type |-> type, listing |-> l, status |-> status])
<1>1. FreeSlot \in FreeSlots /\ FreeSlot \in Slots
  BY FreeSlotIsFree
<1>2. Entered(FreeSlot, [type |-> type, listing |-> l, status |-> status])
  BY <1>1 DEF Entered, Put, FreeSlots, Spent
<1> QED
  BY <1>1, <1>2

\* What a request holds stays the same until it takes its next step, but for the marks.
SameRequest(r, r2) ==
    /\ r2.op = r.op /\ r2.pc = r.pc /\ r2.listing = r.listing /\ r2.kind = r.kind /\ r2.slot = r.slot
    /\ r2.was = r.was /\ r2.found = r.found /\ r2.approve = r.approve /\ r2.stars = r.stars
    /\ r2.base = r.base /\ r2.score = r.score
    /\ r.stale => r2.stale
    /\ r.dirty => r2.dirty

\* A request that ends leaves the others their copies, which may now be old.
LEMMA FinishMarks ==
    ASSUME req \in [Sessions -> Request], Idle \in Request,
           NEW s \in Sessions, NEW touched, NEW counts \in BOOLEAN, Finish(s, touched, counts)
    PROVE  /\ req' \in [Sessions -> Request]
           /\ req'[s] = Idle
           /\ \A t \in Sessions : t # s =>
                 /\ SameRequest(req[t], req'[t])
                 /\ req[t].op \in {"update", "review"} /\ req[t].listing \in touched => req'[t].stale
                 /\ req[t].op = "rate" /\ req'[t].stale =>
                       req[t].stale \/ (req[t].pc = "counted" /\ req[s].op = "rate")
                 /\ req[t].pc = "counted" /\ counts => req'[t].dirty
<1> DEFINE stale(t) == req[t].stale \/ (req[t].op \in {"update", "review"} /\ req[t].listing \in touched)
                                    \/ (req[t].op = "rate" /\ req[t].pc = "counted" /\ req[s].op = "rate")
           dirty(t) == req[t].dirty \/ (req[t].pc = "counted" /\ counts)
<1>1. req' = [t \in Sessions |->
                IF t = s THEN Idle ELSE [req[t] EXCEPT !.stale = stale(t), !.dirty = dirty(t)]]
  BY DEF Finish
<1>2. \A t \in Sessions : stale(t) \in BOOLEAN /\ dirty(t) \in BOOLEAN
  BY DEF Request
<1> HIDE DEF stale, dirty
<1>3. ASSUME NEW t \in Sessions, t # s
      PROVE  /\ req'[t] \in Request
             /\ req'[t].op = req[t].op /\ req'[t].pc = req[t].pc /\ req'[t].listing = req[t].listing
             /\ req'[t].kind = req[t].kind /\ req'[t].slot = req[t].slot /\ req'[t].was = req[t].was
             /\ req'[t].found = req[t].found /\ req'[t].approve = req[t].approve
             /\ req'[t].stars = req[t].stars /\ req'[t].base = req[t].base /\ req'[t].score = req[t].score
             /\ req'[t].stale = stale(t) /\ req'[t].dirty = dirty(t)
  <2>1. req'[t] = [req[t] EXCEPT !.stale = stale(t), !.dirty = dirty(t)]
    BY <1>1, <1>3
  <2>2. req[t] \in Request /\ stale(t) \in BOOLEAN /\ dirty(t) \in BOOLEAN
    BY <1>2
  <2> QED
    BY <2>1, <2>2 DEF Request
<1>4. req'[s] = Idle
  BY <1>1
<1>5. \A t \in Sessions : req'[t] \in Request
  BY <1>3, <1>4
<1>6. req' \in [Sessions -> Request]
  BY <1>1, <1>5
<1>7. ASSUME NEW t \in Sessions, t # s
      PROVE  /\ req[t].stale => req'[t].stale
             /\ req[t].op \in {"update", "review"} /\ req[t].listing \in touched => req'[t].stale
             /\ req[t].op = "rate" /\ req'[t].stale =>
                   req[t].stale \/ (req[t].pc = "counted" /\ req[s].op = "rate")
             /\ req[t].dirty => req'[t].dirty
             /\ req[t].pc = "counted" /\ counts => req'[t].dirty
  BY <1>3, <1>7 DEF stale, dirty
<1> QED
  BY <1>3, <1>4, <1>6, <1>7 DEF SameRequest

-----------------------------------------------------------------------------
(* Types, and what rows and requests refer to.                             *)

\* A row not inserted has no content; one inserted is of a kind there is.
RowsAreOfAKind ==
    \A l \in Listings : IF listings[l].status = "absent" THEN listings[l] = NoListing
                                                         ELSE listings[l].kind \in Kinds

\* A queue row is about a listing in its table, a report about one that is reportable.
Refers(row) ==
    row.type # "none" =>
        /\ row.listing \in Listings /\ listings[row.listing].status # "absent"
        /\ row.type = "report" => Reportable(listings[row.listing].kind)

QueueRefers == \A q \in Slots : Refers(queue[q])

Waiting(l) ==
    \E q \in Slots : queue[q].type = "listing" /\ queue[q].listing = l /\ queue[q].status = "pending"

\* A request's listing is in its table, or about to be put there, and a review's queue
\* row is still there.  The copies are those of the rows, unless one is marked old.
Copied(r) ==
    /\ r.op = "create" => /\ r.listing \in Listings /\ listings[r.listing].status = "absent"
                          /\ r.kind \in Kinds \ {"place"}
    /\ r.op \in {"update", "report", "review"} =>
           r.listing \in Listings /\ listings[r.listing].status # "absent"
    /\ r.op = "update" => listings[r.listing].kind # "place"
    /\ r.op = "report" => Reportable(listings[r.listing].kind)
    /\ r.op = "review" =>
           /\ r.slot \in Slots /\ queue[r.slot].type # "none" /\ queue[r.slot].listing = r.listing
           /\ queue[r.slot].type = "listing" /\ ~r.stale => queue[r.slot].status = "pending"
    /\ r.op \in {"update", "review"} /\ ~r.stale => listings[r.listing].moderation = r.was
    /\ r.op = "update" /\ r.pc = "looked" /\ r.found /\ ~r.stale => Waiting(r.listing)
    /\ r.op = "rate" /\ r.pc # "counted" => ~r.stale

Creating(s, l) == req[s].op = "create" /\ req[s].listing = l

\* No two requests are about to insert one row.
RequestsCopied ==
    /\ \A s \in Sessions : Copied(req[s])
    /\ \A s, t \in Sessions, l \in Listings : Creating(s, l) /\ Creating(t, l) => s = t

BaseInv == TypeOK /\ RowsAreOfAKind /\ QueueRefers /\ RequestsCopied

LEMMA Constants ==
    /\ QueueSize \in Nat /\ AutoApproveScore \in Int /\ MaxRating \in 1..5 /\ IsFiniteSet(Listings)
    /\ None \notin Listings /\ Kinds \subseteq {"exchange", "product", "shop", "place"}
    /\ 0 \in Scores /\ Idle \in Request /\ Idle.op = "none" /\ Idle.pc = "idle" /\ Idle.slot = 0
    /\ ~Idle.stale
    /\ NoListing \in ListingRow /\ NoListing.status = "absent" /\ NoListing.moderation = "pending"
    /\ NoListing.kind = None /\ ~NoListing.unseen
    /\ NoRow \in QueueRow /\ NoRow.type = "none"
<1>1. /\ QueueSize \in Nat /\ AutoApproveScore \in Int /\ MaxRating \in 1..5 /\ IsFiniteSet(Listings)
      /\ None \notin Listings /\ Kinds \subseteq {"exchange", "product", "shop", "place"}
  BY ListingAssumption
<1>2. Cardinality(Listings) \in Nat
  BY <1>1, FS_CardinalityType
<1>3. 0 \in Scores
  BY <1>1, <1>2 DEF Scores
<1>4. Idle \in Request /\ Idle.op = "none" /\ Idle.pc = "idle" /\ Idle.slot = 0 /\ ~Idle.stale
  BY <1>1, <1>3 DEF Idle, Request, Op, Moderation
<1>5. /\ NoListing \in ListingRow /\ NoListing.status = "absent" /\ NoListing.moderation = "pending"
      /\ NoListing.kind = None /\ ~NoListing.unseen
  BY DEF NoListing, ListingRow, Status, Moderation
<1>6. NoRow \in QueueRow /\ NoRow.type = "none"
  BY DEF NoRow, QueueRow, Moderation
<1> QED
  BY <1>1, <1>3, <1>4, <1>5, <1>6

LEMMA BaseStarts == Init => BaseInv
<1> SUFFICES ASSUME Init PROVE BaseInv
  OBVIOUS
<1>1. rating \in 0..MaxRating /\ trust \in Scores
  BY Constants DEF Init
<1>2. history \in History
  BY DEF Init, History
<1>3. TypeOK
  BY <1>1, <1>2, Constants DEF Init, TypeOK
<1> QED
  BY <1>3, Constants DEF Init, BaseInv, RowsAreOfAKind, QueueRefers, Refers, RequestsCopied, Copied, Creating

-----------------------------------------------------------------------------
(* The score a request will leave.                                         *)

\* The tables as a request sees them once it has flushed what it writes.
AfterRows(rows, q, r) ==
    IF r.op = "create"
    THEN [rows EXCEPT ![r.listing] = [kind |-> r.kind, status |-> "active",
                                      moderation |-> Decided(r.approve), unseen |-> ~r.approve]]
    ELSE IF r.op # "review" THEN rows
    ELSE IF q[r.slot].type = "report"
    THEN [rows EXCEPT ![r.listing].status = IF r.approve THEN "off" ELSE @]
    ELSE [rows EXCEPT ![r.listing].moderation = IF r.was # Verdict(r) THEN Verdict(r) ELSE @,
                      ![r.listing].unseen = @ /\ r.stale]

AfterQueue(q, r) == IF r.op = "review" THEN [q EXCEPT ![r.slot].status = Verdict(r)] ELSE q

ScoreAfter(rows, q, r, x) ==
    Score(AfterRows(rows, q, r), AfterQueue(q, r), IF r.op = "rate" THEN r.stars ELSE x)

IsCounted(row) == row.moderation = "approved" /\ Trusted(row.kind)
IsUpheld(row) == row.type = "report" /\ row.status = "approved"

\* A review of a place leaves the score alone.
Recomputes(r) ==
    r.op \in {"create", "rate"} \/ (r.op = "review" /\ Trusted(listings[r.listing].kind))

\* What a request is about to write is the score its commit will make true, unless a
\* request that has committed since marked it.
CountRight(r) ==
    r.pc = "counted" /\ ~r.dirty /\ Recomputes(r) =>
        r.score = ScoreAfter(listings, queue, r, rating) /\ (r.op = "rate" => ~r.stale)

\* A step of one request on its own: the tables stay.  A report is in BeginReport.
RequestStep(s) ==
    /\ UNCHANGED <<listings, queue, rating, trust, history>>
    /\ \E r \in Request :
          /\ req' = [req EXCEPT ![s] = r]
          /\ Copied(r) /\ CountRight(r) /\ r.op # "report"
          /\ r.op = "create" => \A t \in Sessions : t # s => ~Creating(t, r.listing)

LEMMA CreateLoads ==
    ASSUME BaseInv, NEW s \in Sessions, NEW l \in Listings, NEW k \in Kinds \ {"place"}, Create(s, l, k)
    PROVE  RequestStep(s)
<1> DEFINE approve == trust >= AutoApproveScore
           b == [Idle EXCEPT !.op = "create", !.listing = l, !.kind = k, !.approve = approve]
           r == [b EXCEPT !.pc = "flushed", !.base = trust]
<1>1. /\ listings[l].status = "absent" /\ \A t \in Sessions : req[t].op = "create" => req[t].listing # l
      /\ UNCHANGED <<listings, queue, rating, trust, history>>
  BY DEF Create, Flushed, Fresh
<1>2. req' = [req EXCEPT ![s] = r]
  BY DEF Create, Flushed
<1>3. approve \in BOOLEAN /\ trust \in Scores
  BY DEF BaseInv, TypeOK
<1> HIDE DEF approve
<1>4. b \in Request /\ b.op = "create" /\ b.listing = l /\ b.kind = k
  BY <1>3, Constants DEF Request, Op
<1> HIDE DEF b
<1>5. r \in Request /\ r.op = "create" /\ r.listing = l /\ r.kind = k /\ r.pc = "flushed"
  BY <1>3, <1>4 DEF Request
<1> HIDE DEF r
<1>6. Copied(r) /\ CountRight(r)
  BY <1>1, <1>5 DEF Copied, CountRight
<1> QED
  BY <1>1, <1>2, <1>5, <1>6 DEF RequestStep, Creating

LEMMA BeginUpdateLoads ==
    ASSUME BaseInv, NEW s \in Sessions, NEW l \in Listings, listings[l].kind # "place", BeginUpdate(s, l)
    PROVE  RequestStep(s)
<1> DEFINE r == [Idle EXCEPT !.op = "update", !.pc = "loaded", !.listing = l, !.was = listings[l].moderation]
<1>1. req' = [req EXCEPT ![s] = r] /\ UNCHANGED <<listings, queue, rating, trust, history>>
      /\ listings[l].status # "absent"
  BY DEF BeginUpdate
<1>2. listings[l].moderation \in Moderation
  BY DEF BaseInv, TypeOK, ListingRow
<1>3. r \in Request /\ r.op = "update" /\ r.pc = "loaded" /\ r.listing = l /\ r.was = listings[l].moderation
  BY <1>2, Constants DEF Request, Op
<1> HIDE DEF r
<1>4. Copied(r) /\ CountRight(r)
  BY <1>1, <1>3 DEF Copied, CountRight
<1> QED
  BY <1>1, <1>3, <1>4 DEF RequestStep

LEMMA LookForRowLoads ==
    ASSUME BaseInv, NEW s \in Sessions, LookForRow(s)
    PROVE  RequestStep(s)
<1> DEFINE found == PendingRows("listing", req[s].listing) # {}
           r == [req[s] EXCEPT !.pc = "looked", !.found = found]
<1>1. /\ req[s].op = "update" /\ UNCHANGED <<listings, queue, rating, trust, history>>
      /\ req[s] \in Request /\ req \in [Sessions -> Request]
  BY DEF LookForRow, BaseInv, TypeOK
<1>2. found \in BOOLEAN /\ (found => Waiting(req[s].listing))
  BY DEF PendingRows, Waiting
<1> HIDE DEF found
<1>3. req' = [req EXCEPT ![s] = r]
  BY <1>1 DEF LookForRow, found
<1>4. /\ r \in Request /\ r.op = "update" /\ r.pc = "looked" /\ r.listing = req[s].listing
      /\ r.was = req[s].was /\ r.found = found /\ r.stale = req[s].stale
  BY <1>1, <1>2 DEF Request
<1> HIDE DEF r
<1>5. Copied(req[s])
  BY DEF BaseInv, RequestsCopied
<1>6. Copied(r) /\ CountRight(r)
  BY <1>1, <1>2, <1>4, <1>5 DEF Copied, CountRight
<1> QED
  BY <1>1, <1>3, <1>4, <1>6 DEF RequestStep

LEMMA BeginReviewLoads ==
    ASSUME BaseInv, NEW s \in Sessions, NEW q \in Slots, BeginReview(s, q)
    PROVE  RequestStep(s)
<1> DEFINE l == queue[q].listing
           r == [Idle EXCEPT !.op = "review", !.pc = "loaded", !.slot = q, !.listing = l,
                             !.was = listings[l].moderation]
<1>1. /\ req' = [req EXCEPT ![s] = r] /\ UNCHANGED <<listings, queue, rating, trust, history>>
      /\ queue[q].type # "none" /\ queue[q].status = "pending"
  BY DEF BeginReview, ListQueue
<1>2. l \in Listings /\ listings[l].status # "absent"
  BY <1>1 DEF BaseInv, QueueRefers, Refers
<1>3. listings[l].moderation \in Moderation /\ q \in 0..QueueSize
  BY <1>2, Constants DEF BaseInv, TypeOK, ListingRow, Slots
<1> HIDE DEF l
<1>4. /\ r \in Request /\ r.op = "review" /\ r.pc = "loaded" /\ r.listing = l
      /\ r.was = listings[l].moderation /\ r.slot = q
  BY <1>2, <1>3, Constants DEF Request, Op
<1> HIDE DEF r
<1>5. Copied(r) /\ CountRight(r)
  BY <1>1, <1>2, <1>4 DEF Copied, CountRight, l
<1> QED
  BY <1>1, <1>4, <1>5 DEF RequestStep

LEMMA DecideLoads ==
    ASSUME BaseInv, NEW s \in Sessions, NEW approve \in BOOLEAN, Decide(s, approve)
    PROVE  RequestStep(s)
<1> DEFINE d == [req[s] EXCEPT !.approve = approve]
           trusted == Trusted(listings[req[s].listing].kind)
           r == IF trusted THEN [d EXCEPT !.pc = "flushed", !.base = trust] ELSE [d EXCEPT !.pc = "counted"]
<1>1. req[s] \in Request /\ trust \in Scores /\ Copied(req[s])
  BY DEF BaseInv, TypeOK, RequestsCopied
<1>2. /\ d \in Request /\ d.op = req[s].op /\ d.pc = req[s].pc /\ d.listing = req[s].listing
      /\ d.slot = req[s].slot /\ d.was = req[s].was /\ d.stale = req[s].stale
  BY <1>1 DEF Request
<1> HIDE DEF d
<1>3. /\ d.op = "review" /\ req' = [req EXCEPT ![s] = r]
      /\ UNCHANGED <<listings, queue, rating, trust, history>>
  BY <1>2 DEF Decide, Flushed, d
<1>4. /\ r \in Request /\ r.op = d.op /\ r.listing = d.listing /\ r.slot = d.slot /\ r.was = d.was
      /\ r.stale = d.stale /\ r.pc = (IF trusted THEN "flushed" ELSE "counted")
  BY <1>1, <1>2 DEF Request
<1> HIDE DEF r
<1>5. Copied(r) /\ CountRight(r)
  BY <1>1, <1>2, <1>3, <1>4 DEF Copied, CountRight, Recomputes
<1> QED
  BY <1>2, <1>3, <1>4, <1>5 DEF RequestStep

LEMMA RateSellerLoads ==
    ASSUME BaseInv, NEW s \in Sessions, RateSeller(s)
    PROVE  RequestStep(s)
<1> DEFINE b == [Idle EXCEPT !.op = "rate"]
           r == [b EXCEPT !.pc = "flushed", !.base = trust]
<1>1. req' = [req EXCEPT ![s] = r] /\ UNCHANGED <<listings, queue, rating, trust, history>>
      /\ trust \in Scores
  BY DEF RateSeller, Flushed, BaseInv, TypeOK
<1>2. b \in Request /\ b.op = "rate" /\ ~b.stale
  BY Constants DEF Request, Op
<1> HIDE DEF b
<1>3. r \in Request /\ r.op = "rate" /\ r.pc = "flushed" /\ ~r.stale
  BY <1>1, <1>2 DEF Request
<1> HIDE DEF r
<1>4. Copied(r) /\ CountRight(r)
  BY <1>3 DEF Copied, CountRight
<1> QED
  BY <1>1, <1>3, <1>4 DEF RequestStep

LEMMA AbandonLoads ==
    ASSUME BaseInv, NEW s \in Sessions, Abandon(s)
    PROVE  RequestStep(s)
<1>1. req' = [req EXCEPT ![s] = Idle] /\ UNCHANGED <<listings, queue, rating, trust, history>>
  BY DEF Abandon
<1>2. Copied(Idle) /\ CountRight(Idle)
  BY Constants DEF Copied, CountRight
<1> QED
  BY <1>1, <1>2, Constants DEF RequestStep

\* The counts are those of the tables as the request leaves them.
LEMMA CountLoads ==
    ASSUME BaseInv, NEW s \in Sessions, req[s].pc = "flushed", req[s].op # "report",
           NEW rows, NEW q, NEW stars \in 0..MaxRating, Count(s, rows, q, stars),
           req[s].op = "rate" \/ stars = rating,
           rows = AfterRows(listings, queue, req[s]), q = AfterQueue(queue, req[s])
    PROVE  RequestStep(s)
<1> DEFINE score == Score(rows, q, stars)
           r == [req[s] EXCEPT !.pc = "counted", !.stars = stars, !.score = score]
<1>1. /\ req[s] \in Request /\ req \in [Sessions -> Request] /\ Copied(req[s])
      /\ UNCHANGED <<listings, queue, rating, trust, history>>
      /\ req[s].op = "create" => \A t \in Sessions : t # s => ~Creating(t, req[s].listing)
  BY DEF Count, BaseInv, TypeOK, RequestsCopied, Copied, Creating
<1>2. score \in Scores
  BY ScoreIsBounded
<1>3. req' = [req EXCEPT ![s] = r]
  BY <1>1 DEF Count
<1> HIDE DEF score
<1>4. /\ r \in Request /\ r.op = req[s].op /\ r.pc = "counted" /\ r.listing = req[s].listing
      /\ r.kind = req[s].kind /\ r.slot = req[s].slot /\ r.was = req[s].was /\ r.approve = req[s].approve
      /\ r.stars = stars /\ r.score = score /\ r.stale = req[s].stale
  BY <1>1, <1>2 DEF Request
<1> HIDE DEF r
<1>5. Copied(r)
  BY <1>1, <1>4 DEF Copied
<1>6. AfterRows(listings, queue, r) = rows /\ AfterQueue(queue, r) = q
  BY <1>4 DEF AfterRows, AfterQueue, Verdict
<1>7. CountRight(r)
  BY <1>1, <1>4, <1>6 DEF CountRight, ScoreAfter, Copied, score
<1> QED
  BY <1>1, <1>3, <1>4, <1>5, <1>7 DEF RequestStep

\* The steps, by what they do.

\* Only statuses change, and none to or from that of a row not inserted.
StatusesChange ==
    /\ UNCHANGED <<queue, rating, trust, req, history>>
    /\ listings' \in [Listings -> ListingRow]
    /\ \A l \in Listings : /\ listings'[l].kind = listings[l].kind
                           /\ listings'[l].moderation = listings[l].moderation
                           /\ listings'[l].unseen = listings[l].unseen
                           /\ listings'[l].status = "absent" <=> listings[l].status = "absent"
                           /\ listings[l].status = "absent" => listings'[l] = listings[l]

Shape ==
    \/ \E s \in Sessions : \/ RequestStep(s) \/ CommitCreate(s) \/ CommitUpdate(s)
                           \/ CommitReport(s) \/ CommitReview(s)
    \/ \E s \in Sessions, l \in Listings : SubmitPlace(s, l) \/ CreatePlace(s, l) \/ BeginReport(s, l)
    \/ \E s \in Sessions, stars \in 1..MaxRating : CommitRate(s, stars)
    \/ StatusesChange

LEMMA StepHasShape == ASSUME BaseInv, Next PROVE Shape
<1>0. TypeOK
  BY DEF BaseInv
<1>1. ASSUME NEW s \in Sessions, NEW l \in Listings, NEW status \in {"active", "off"}, SetStatus(s, l, status)
      PROVE  StatusesChange
  <2>1. listings[l] \in ListingRow /\ listings' = [listings EXCEPT ![l].status = status]
        /\ listings[l].status # "absent" /\ UNCHANGED <<queue, rating, trust, req, history>>
    BY <1>0, <1>1 DEF SetStatus, TypeOK
  <2>2. \A a \in Listings : listings'[a] = IF a = l THEN [listings[l] EXCEPT !.status = status] ELSE listings[a]
    BY <1>0, <2>1 DEF TypeOK
  <2>3. /\ listings'[l] \in ListingRow /\ listings'[l].kind = listings[l].kind
        /\ listings'[l].moderation = listings[l].moderation
        /\ listings'[l].unseen = listings[l].unseen /\ listings'[l].status = status
    BY <2>1, <2>2 DEF ListingRow, Status
  <2>4. listings' \in [Listings -> ListingRow]
    BY <1>0, <2>1, <2>2, <2>3 DEF TypeOK
  <2> QED
    BY <2>1, <2>2, <2>3, <2>4 DEF StatusesChange
<1>2. ASSUME NEW due \in SUBSET Listings, ExpireStale(due)
      PROVE  StatusesChange
  <2>1. /\ \A l \in due : listings[l].status = "active"
        /\ listings' = [l \in Listings |-> IF l \in due THEN [listings[l] EXCEPT !.status = "off"] ELSE listings[l]]
        /\ UNCHANGED <<queue, rating, trust, req, history>>
    BY <1>2 DEF ExpireStale
  <2>2. ASSUME NEW l \in Listings
        PROVE  /\ listings'[l] \in ListingRow
               /\ listings'[l].kind = listings[l].kind /\ listings'[l].moderation = listings[l].moderation
               /\ listings'[l].unseen = listings[l].unseen
               /\ listings'[l].status = "absent" <=> listings[l].status = "absent"
               /\ listings[l].status = "absent" => listings'[l] = listings[l]
    <3>1. listings[l] \in ListingRow
      BY <1>0 DEF TypeOK
    <3>2. CASE l \in due
      <4>1. listings'[l] = [listings[l] EXCEPT !.status = "off"]
        BY <2>1, <3>2
      <4> QED
        BY <2>1, <3>1, <3>2, <4>1 DEF ListingRow, Status
    <3>3. CASE l \notin due
      BY <2>1, <3>1, <3>3
    <3> QED
      BY <3>2, <3>3
  <2>3. listings' \in [Listings -> ListingRow]
    BY <2>1, <2>2
  <2> QED
    BY <2>1, <2>2, <2>3 DEF StatusesChange
<1>3. ASSUME NEW s \in Sessions, NEW l \in Listings, NEW k \in {"exchange", "product", "shop"}, Create(s, l, k)
      PROVE  Shape
  <2>1. k \in Kinds \ {"place"}
    BY <1>3 DEF Create
  <2> QED
    BY <1>3, <2>1, CreateLoads DEF Shape
<1>4. ASSUME NEW s \in Sessions, NEW l \in Listings,
             ExchangeRequest(s, l) \/ MarketplaceRequest(s, l) \/ ShopRequest(s, l) \/ PlaceRequest(s, l)
      PROVE  Shape
  <2>0. ASSUME listings[l].kind # "place", BeginUpdate(s, l) \/ UpdateStatus(s, l) PROVE Shape
    BY <1>1, <2>0, BeginUpdateLoads DEF UpdateStatus, Shape
  <2>1. CASE ExchangeRequest(s, l)
    BY <1>1, <1>3, <2>0, <2>1 DEF ExchangeRequest, CreateExchangeListing, UpdateExchangeListing,
       RemoveExchangeListing, Shape
  <2>2. CASE MarketplaceRequest(s, l)
    BY <1>1, <1>3, <2>0, <2>2 DEF MarketplaceRequest, CreateProduct, UpdateProduct, RemoveProduct, Shape
  <2>3. CASE ShopRequest(s, l)
    BY <1>3, <2>0, <2>3 DEF ShopRequest, CreateShop, UpdateShop
  <2>4. CASE PlaceRequest(s, l)
    BY <1>1, <2>4 DEF PlaceRequest, UpdatePlace, UpdateStatus, Shape
  <2> QED
    BY <1>4, <2>1, <2>2, <2>3, <2>4
<1>5. ASSUME NEW s \in Sessions,
             \/ CountCreated(s) \/ CountDecided(s)
             \/ \E stars \in 1..MaxRating : CountRated(s, stars)
      PROVE  RequestStep(s)
  <2>0. rating \in 0..MaxRating /\ MaxRating \in Nat
    BY <1>0, Constants DEF TypeOK
  <2>1. CASE CountCreated(s)
    <3>1. /\ req[s].op = "create" /\ req[s].pc = "flushed" /\ Count(s, Created(req[s]), queue, rating)
      BY <2>1 DEF CountCreated
    <3>2. Created(req[s]) = AfterRows(listings, queue, req[s]) /\ queue = AfterQueue(queue, req[s])
      BY <3>1 DEF Created, AfterRows, AfterQueue
    <3> QED
      BY <2>0, <3>1, <3>2, CountLoads
  <2>2. CASE CountDecided(s)
    <3>1. /\ req[s].op = "review" /\ req[s].pc = "flushed"
          /\ Count(s, DecidedListings(req[s]), DecidedQueue(req[s]), rating)
      BY <2>2 DEF CountDecided
    <3>2. queue[req[s].slot].type = "report" \/ queue[req[s].slot].type # "report"
      OBVIOUS
    <3>3. DecidedListings(req[s]) = AfterRows(listings, queue, req[s])
      BY <3>1 DEF DecidedListings, AfterRows, Writes
    <3>4. DecidedQueue(req[s]) = AfterQueue(queue, req[s])
      BY <3>1 DEF DecidedQueue, AfterQueue
    <3> QED
      BY <2>0, <3>1, <3>3, <3>4, CountLoads
  <2>3. ASSUME NEW stars \in 1..MaxRating, CountRated(s, stars) PROVE RequestStep(s)
    <3>1. /\ req[s].op = "rate" /\ req[s].pc = "flushed" /\ Count(s, listings, queue, stars)
          /\ stars \in 0..MaxRating
      BY <2>0, <2>3 DEF CountRated
    <3>2. listings = AfterRows(listings, queue, req[s]) /\ queue = AfterQueue(queue, req[s])
      BY <3>1 DEF AfterRows, AfterQueue
    <3> QED
      BY <3>1, <3>2, CountLoads
  <2> QED
    BY <1>5, <2>1, <2>2, <2>3
<1>6. ASSUME NEW s \in Sessions,
             \/ LookForRow(s) \/ RateSeller(s) \/ Abandon(s)
             \/ \E q \in Slots : BeginReview(s, q)
             \/ \E approve \in BOOLEAN : Decide(s, approve)
      PROVE  RequestStep(s)
  BY <1>6, LookForRowLoads, RateSellerLoads, AbandonLoads, BeginReviewLoads, DecideLoads
<1> QED
  BY <1>2, <1>4, <1>5, <1>6 DEF Next, Shape

-----------------------------------------------------------------------------
(* Types and references are kept.                                          *)

\* A request keeps a copy of rows that stay, marked old if they have changed.
LEMMA CopyKept ==
    ASSUME NEW t \in Sessions, Copied(req[t]), SameRequest(req[t], req'[t]),
           NEW l, l = req[t].listing, NEW n, n = req[t].slot,
           req[t].op = "create" => listings'[l].status = "absent",
           l \in Listings /\ listings[l].status # "absent" => listings'[l].status # "absent",
           l \in Listings /\ listings[l].status # "absent" =>
               /\ listings'[l].kind = listings[l].kind
               /\ listings'[l].moderation = listings[l].moderation
                     \/ (req[t].op \in {"update", "review"} => req'[t].stale),
           req[t].op = "review" /\ n \in Slots /\ queue[n].type # "none" =>
               /\ queue'[n].type = queue[n].type /\ queue'[n].listing = queue[n].listing
               /\ queue'[n].status = queue[n].status \/ req'[t].stale \/ queue[n].type # "listing",
           req[t].op = "update" /\ Waiting(l) => Waiting(l)' \/ req'[t].stale,
           req[t].op = "rate" /\ req[t].pc # "counted" /\ ~req[t].stale => ~req'[t].stale
    PROVE  Copied(req[t])'
<1> DEFINE r == req[t]
           r2 == req'[t]
<1>1. /\ r2.op = r.op /\ r2.pc = r.pc /\ r2.listing = l /\ r2.kind = r.kind /\ r2.slot = n
      /\ r2.was = r.was /\ r2.found = r.found /\ (r.stale => r2.stale)
  BY DEF SameRequest
<1>2. r.op = "create" => l \in Listings /\ listings'[l].status = "absent" /\ r.kind \in Kinds \ {"place"}
  BY DEF Copied
<1>3. r.op \in {"update", "report", "review"} =>
         /\ l \in Listings /\ listings[l].status # "absent" /\ listings'[l].status # "absent"
         /\ listings'[l].kind = listings[l].kind
  BY DEF Copied
<1>4. (r.op = "update" => listings'[l].kind # "place") /\ (r.op = "report" => Reportable(listings'[l].kind))
  BY <1>3 DEF Copied
<1>5. r.op = "review" =>
         /\ n \in Slots /\ queue'[n].type # "none" /\ queue'[n].listing = l
         /\ queue'[n].type = "listing" /\ ~r2.stale => queue'[n].status = "pending"
  BY <1>1 DEF Copied
<1>6. r.op \in {"update", "review"} /\ ~r2.stale => listings'[l].moderation = r.was
  BY <1>1, <1>3 DEF Copied
<1>7. r.op = "update" /\ r.pc = "looked" /\ r.found /\ ~r2.stale => Waiting(l)'
  BY <1>1 DEF Copied
<1>8. r.op = "rate" /\ r.pc # "counted" => ~r2.stale
  BY DEF Copied
<1> QED
  BY <1>1, <1>2, <1>3, <1>4, <1>5, <1>6, <1>7, <1>8 DEF Copied, Waiting

LEMMA EnteredKeeps ==
    ASSUME queue \in [Slots -> QueueRow], NEW n, NEW row \in QueueRow, Entered(n, row)
    PROVE  /\ n \in Slots /\ queue' \in [Slots -> QueueRow] /\ queue'[n] = row
           /\ \A q \in Slots : q # n => queue'[q] = queue[q]
           /\ \A t \in Sessions : req[t].slot \in Slots /\ queue[req[t].slot].type # "none" =>
                 queue'[req[t].slot] = queue[req[t].slot]
BY DEF Entered

\* The rows that wait are not those a new row takes the place of.
LEMMA EnteredSpares ==
    ASSUME queue \in [Slots -> QueueRow], NEW n, NEW row \in QueueRow, Entered(n, row)
    PROVE  /\ \A l : Waiting(l) => Waiting(l)'
           /\ row.type = "listing" /\ row.status = "pending" => Waiting(row.listing)'
<1>1. \A q \in Slots : q # n => queue'[q] = queue[q]
  BY EnteredKeeps
<1>2. queue[n].type = "none" \/ queue[n].status # "pending"
  BY DEF Entered
<1>3. n \in Slots /\ queue'[n] = row
  BY EnteredKeeps
<1> QED
  BY <1>1, <1>2, <1>3 DEF Waiting

\* Listings in their tables stay there, and keep their kind.
Stay == \A l \in Listings : listings[l].status # "absent" =>
            listings'[l].status # "absent" /\ listings'[l].kind = listings[l].kind

\* What is to show of a step, beyond types and the requests' copies.
LEMMA BaseKept ==
    ASSUME BaseInv, TypeOK', RowsAreOfAKind', Stay,
           \A q \in Slots : queue'[q] = queue[q]
              \/ (queue'[q].type # "none" =>
                     /\ queue'[q].listing \in Listings /\ listings'[queue'[q].listing].status # "absent"
                     /\ queue'[q].type = "report" => Reportable(listings'[queue'[q].listing].kind)),
           \A t \in Sessions : Copied(req[t])',
           \A t \in Sessions, l \in Listings : Creating(t, l)' => Creating(t, l)
    PROVE  BaseInv'
<1>1. \A q \in Slots : Refers(queue[q]) /\ (queue[q].type # "none" => queue[q].listing \in Listings)
  BY DEF BaseInv, QueueRefers, Refers
<1>2. QueueRefers'
  <2>1. ASSUME NEW q \in Slots
        PROVE  queue'[q].type # "none" =>
                  /\ queue'[q].listing \in Listings /\ listings'[queue'[q].listing].status # "absent"
                  /\ queue'[q].type = "report" => Reportable(listings'[queue'[q].listing].kind)
    <3>1. CASE queue'[q] = queue[q]
      BY <1>1, <3>1 DEF Stay, Refers
    <3>2. CASE queue'[q] # queue[q]
      BY <3>2
    <3> QED
      BY <3>1, <3>2
  <2> QED
    BY <2>1 DEF QueueRefers, Refers
<1>3. \A s, t \in Sessions, l \in Listings : Creating(s, l) /\ Creating(t, l) => s = t
  BY DEF BaseInv, RequestsCopied
<1>4. \A s, t \in Sessions, l \in Listings : Creating(s, l)' /\ Creating(t, l)' => s = t
  BY <1>3
<1>5. RequestsCopied'
  BY <1>4 DEF RequestsCopied
<1> QED
  BY <1>2, <1>5 DEF BaseInv

\* The same of a request that ends.
LEMMA FinishKeeps ==
    ASSUME BaseInv, NEW s \in Sessions, NEW touched, NEW counts \in BOOLEAN, Finish(s, touched, counts),
           \A a \in Listings : listings[a].status # "absent" =>
              /\ listings'[a].status # "absent" /\ listings'[a].kind = listings[a].kind
              /\ listings'[a].moderation = listings[a].moderation \/ a \in touched,
           \A t \in Sessions, a \in Listings :
              t # s /\ Creating(t, a) /\ listings[a].status = "absent" => listings'[a].status = "absent",
           \A t \in Sessions, n \in Slots : t # s /\ req[t].slot = n /\ queue[n].type # "none" =>
              /\ queue'[n].type = queue[n].type /\ queue'[n].listing = queue[n].listing
              /\ \/ queue'[n].status = queue[n].status \/ queue[n].type # "listing"
                 \/ queue[n].listing \in touched,
           \A a \in Listings : Waiting(a) => Waiting(a)' \/ a \in touched
    PROVE  /\ \A t \in Sessions : Copied(req[t])'
           /\ \A t \in Sessions, a \in Listings : Creating(t, a)' => Creating(t, a)
<1>1. req \in [Sessions -> Request] /\ Idle \in Request
  BY Constants DEF BaseInv, TypeOK
<1>2. /\ req'[s] = Idle
      /\ \A t \in Sessions : t # s =>
            /\ SameRequest(req[t], req'[t])
            /\ req[t].op \in {"update", "review"} /\ req[t].listing \in touched => req'[t].stale
            /\ req[t].op = "rate" /\ req'[t].stale =>
                  req[t].stale \/ (req[t].pc = "counted" /\ req[s].op = "rate")
  BY <1>1, FinishMarks
<1>3. ASSUME NEW t \in Sessions PROVE Copied(req[t])'
  <2>1. CASE t = s
    BY <1>2, <2>1, Constants DEF Copied
  <2>2. CASE t # s
    <3>0. PICK b, n : b = req[t].listing /\ n = req[t].slot
      OBVIOUS
    <3>1. Copied(req[t])
      BY DEF BaseInv, RequestsCopied
    <3>2. req[t].op = "create" => listings'[b].status = "absent"
      BY <2>2, <3>0, <3>1 DEF Copied, Creating
    <3>3. b \in Listings /\ listings[b].status # "absent" =>
             /\ listings'[b].status # "absent" /\ listings'[b].kind = listings[b].kind
             /\ listings'[b].moderation = listings[b].moderation
                   \/ (req[t].op \in {"update", "review"} => req'[t].stale)
      BY <1>2, <2>2, <3>0
    <3>4. req[t].op = "review" /\ n \in Slots /\ queue[n].type # "none" =>
             /\ queue'[n].type = queue[n].type /\ queue'[n].listing = queue[n].listing
             /\ queue'[n].status = queue[n].status \/ req'[t].stale \/ queue[n].type # "listing"
      BY <1>2, <2>2, <3>0, <3>1 DEF Copied
    <3>5. req[t].op = "update" /\ Waiting(b) => Waiting(b)' \/ req'[t].stale
      BY <1>2, <2>2, <3>0, <3>1 DEF Copied
    <3>6. req[t].op = "rate" /\ req[t].pc # "counted" /\ ~req[t].stale => ~req'[t].stale
      BY <1>2, <2>2
    <3>7. SameRequest(req[t], req'[t])
      BY <1>2, <2>2
    <3> QED
      BY <3>0, <3>1, <3>2, <3>3, <3>4, <3>5, <3>6, <3>7, CopyKept
  <2> QED
    BY <2>1, <2>2
<1>4. \A t \in Sessions, a \in Listings : Creating(t, a)' => Creating(t, a)
  BY <1>2, Constants DEF Creating, SameRequest
<1> QED
  BY <1>3, <1>4

LEMMA CreateEffect ==
    ASSUME BaseInv, NEW s \in Sessions, CommitCreate(s)
    PROVE  LET r == req[s]
               l == req[s].listing IN
           /\ r.op = "create" /\ r.pc = "counted" /\ l \in Listings /\ listings[l].status = "absent"
           /\ r.kind \in Kinds \ {"place"} /\ r.approve \in BOOLEAN
           /\ listings' \in [Listings -> ListingRow]
           /\ \A a \in Listings : a # l => listings'[a] = listings[a]
           /\ listings'[l].kind = r.kind /\ listings'[l].status = "active" /\ listings'[l].unseen = ~r.approve
           /\ listings'[l].moderation = Decided(r.approve)
           /\ \E n \in Slots : Entered(n, [type |-> "listing", listing |-> l, status |-> Decided(r.approve)])
<1> DEFINE r == req[s]
           l == req[s].listing
           decided == Decided(r.approve)
           unseen == ~r.approve
           row == [kind |-> r.kind, status |-> "active", moderation |-> decided, unseen |-> unseen]
<1>1. listings \in [Listings -> ListingRow] /\ r \in Request /\ Copied(r)
  BY DEF BaseInv, TypeOK, RequestsCopied
<1>2. /\ r.op = "create" /\ r.pc = "counted" /\ FreeSlots # {} /\ listings' = [listings EXCEPT ![l] = row]
      /\ queue' = Put("listing", l, decided)
  BY DEF CommitCreate, Created
<1>3. /\ l \in Listings /\ listings[l].status = "absent" /\ r.kind \in Kinds \ {"place"}
      /\ r.approve \in BOOLEAN
  BY <1>1, <1>2 DEF Copied, Request
<1>4. decided \in Moderation /\ unseen \in BOOLEAN
  BY <1>3 DEF Moderation, Decided
<1> HIDE DEF decided, unseen
<1>5. /\ row \in ListingRow /\ row.kind = r.kind /\ row.status = "active" /\ row.moderation = decided
      /\ row.unseen = unseen
  BY <1>3, <1>4 DEF ListingRow, Status
<1> HIDE DEF row
<1>6. \E n \in Slots : Entered(n, [type |-> "listing", listing |-> l, status |-> decided])
  BY <1>2, PutEnters
<1>7. \A a \in Listings : listings'[a] = IF a = l THEN row ELSE listings[a]
  BY <1>1, <1>2
<1>8. listings' \in [Listings -> ListingRow]
  BY <1>1, <1>2, <1>5
<1> QED
  BY <1>2, <1>3, <1>5, <1>6, <1>7, <1>8 DEF decided, unseen

LEMMA PlaceEffect ==
    ASSUME BaseInv, NEW s \in Sessions, NEW l \in Listings, SubmitPlace(s, l) \/ CreatePlace(s, l)
    PROVE  /\ listings[l].status = "absent" /\ "place" \in Kinds
           /\ \A t \in Sessions : ~Creating(t, l)
           /\ UNCHANGED <<rating, trust, req, history>>
           /\ listings' \in [Listings -> ListingRow]
           /\ \A a \in Listings : a # l => listings'[a] = listings[a]
           /\ listings'[l].kind = "place" /\ listings'[l].status = "active"
           /\ \/ listings'[l].moderation = "approved" /\ ~listings'[l].unseen /\ queue' = queue
              \/ /\ listings'[l].moderation = "pending"
                 /\ \E n \in Slots : Entered(n, [type |-> "listing", listing |-> l, status |-> "pending"])
<1>1. listings \in [Listings -> ListingRow]
  BY DEF BaseInv, TypeOK
<1>2. /\ listings[l].status = "absent" /\ "place" \in Kinds
      /\ \A t \in Sessions : ~Creating(t, l)
      /\ UNCHANGED <<rating, trust, req, history>>
  BY DEF SubmitPlace, CreatePlace, Fresh, Creating
<1>3. \E row \in ListingRow :
         /\ listings' = [listings EXCEPT ![l] = row]
         /\ row.kind = "place" /\ row.status = "active"
         /\ \/ row.moderation = "approved" /\ ~row.unseen /\ queue' = queue
            \/ /\ row.moderation = "pending"
               /\ \E n \in Slots : Entered(n, [type |-> "listing", listing |-> l, status |-> "pending"])
  <2>1. CASE SubmitPlace(s, l)
    <3> DEFINE row == [NoListing EXCEPT !.kind = "place", !.status = "active", !.unseen = TRUE]
    <3>1. FreeSlots # {} /\ queue' = Put("listing", l, "pending")
      BY <2>1 DEF SubmitPlace
    <3>2. listings' = [listings EXCEPT ![l] = row]
      BY <2>1 DEF SubmitPlace
    <3>3. /\ row \in ListingRow /\ row.kind = "place" /\ row.status = "active"
          /\ row.moderation = "pending"
      BY <1>2, Constants DEF ListingRow, Status
    <3>4. \E n \in Slots : Entered(n, [type |-> "listing", listing |-> l, status |-> "pending"])
      BY <3>1, PutEnters
    <3> HIDE DEF row
    <3> QED
      BY <3>2, <3>3, <3>4
  <2>2. CASE CreatePlace(s, l)
    <3> DEFINE row == [NoListing EXCEPT !.kind = "place", !.status = "active", !.moderation = "approved"]
    <3>1. listings' = [listings EXCEPT ![l] = row] /\ queue' = queue
      BY <2>2 DEF CreatePlace
    <3>2. /\ row \in ListingRow /\ row.kind = "place" /\ row.status = "active"
          /\ row.moderation = "approved" /\ ~row.unseen
      BY <1>2, Constants DEF ListingRow, Status, Moderation
    <3> HIDE DEF row
    <3> QED
      BY <3>1, <3>2
  <2> QED
    BY <2>1, <2>2
<1>4. PICK row \in ListingRow :
         /\ listings' = [listings EXCEPT ![l] = row]
         /\ row.kind = "place" /\ row.status = "active"
         /\ \/ row.moderation = "approved" /\ ~row.unseen /\ queue' = queue
            \/ /\ row.moderation = "pending"
               /\ \E n \in Slots : Entered(n, [type |-> "listing", listing |-> l, status |-> "pending"])
  BY <1>3
<1>5. \A a \in Listings : listings'[a] = IF a = l THEN row ELSE listings[a]
  BY <1>1, <1>4
<1>6. listings' \in [Listings -> ListingRow]
  BY <1>1, <1>4
<1> QED
  BY <1>2, <1>4, <1>5, <1>6

\* A score is counted of tables that have one; and so is what is written.
LEMMA RecountTypes ==
    ASSUME TypeOK, NEW s \in Sessions
    PROVE  /\ WriteScore(req[s]) => trust' \in Scores
           /\ Recounted(req[s]) \in History
           /\ Recounted(req[s]).raced = history.raced /\ Recounted(req[s]).twice = history.twice
           /\ Recounted(req[s]).requeued = {}
           /\ Recounted(req[s]).miscounted <=>
                 (req[s].dirty \/ (req[s].score = req[s].base /\ trust # req[s].base))
<1> DEFINE r == req[s]
           miscounted == r.dirty \/ (r.score = r.base /\ trust # r.base)
<1>1. r \in Request /\ trust \in Scores /\ history \in History
  BY DEF TypeOK
<1>2. r.score \in Scores /\ r.base \in Scores /\ miscounted \in BOOLEAN
  BY <1>1 DEF Request
<1>3. WriteScore(r) => trust' \in Scores
  BY <1>1, <1>2 DEF WriteScore
<1> HIDE DEF miscounted
<1>4. Recounted(r) = [history EXCEPT !.requeued = {}, !.miscounted = miscounted]
  BY DEF Recounted, miscounted
<1>5. /\ Recounted(r) \in History /\ Recounted(r).raced = history.raced /\ Recounted(r).twice = history.twice
      /\ Recounted(r).requeued = {} /\ Recounted(r).miscounted = miscounted
  BY <1>1, <1>2, <1>4 DEF History
<1> QED
  BY <1>3, <1>5 DEF miscounted

LEMMA CreateBase ==
    ASSUME BaseInv, NEW s \in Sessions, CommitCreate(s)
    PROVE  BaseInv'
<1> DEFINE l == req[s].listing
           item == [type |-> "listing", listing |-> l, status |-> Decided(req[s].approve)]
           approve == req[s].approve
<1>1. /\ TypeOK /\ queue \in [Slots -> QueueRow] /\ rating \in 0..MaxRating
      /\ req \in [Sessions -> Request] /\ history \in History /\ Idle \in Request
  BY Constants DEF BaseInv, TypeOK
<1>2. /\ WriteScore(req[s]) /\ history' = Recounted(req[s]) /\ Finish(s, {}, approve)
      /\ rating' = rating
  BY DEF CommitCreate
<1>3. /\ l \in Listings /\ listings[l].status = "absent" /\ listings' \in [Listings -> ListingRow]
      /\ \A a \in Listings : a # l => listings'[a] = listings[a]
      /\ listings'[l].kind \in Kinds /\ listings'[l].status = "active" /\ approve \in BOOLEAN
      /\ req[s].op = "create"
      /\ \E n \in Slots : Entered(n, item)
  BY CreateEffect
<1> HIDE DEF approve
<1>4. PICK n \in Slots : Entered(n, item)
  BY <1>3
<1>5. item \in QueueRow /\ item.type = "listing" /\ item.listing = l
  BY <1>3 DEF QueueRow, Moderation, Decided
<1> HIDE DEF item
<1>6. /\ queue' \in [Slots -> QueueRow] /\ queue'[n] = item
      /\ \A q \in Slots : q # n => queue'[q] = queue[q]
      /\ \A t \in Sessions : req[t].slot \in Slots /\ queue[req[t].slot].type # "none" =>
            queue'[req[t].slot] = queue[req[t].slot]
  BY <1>1, <1>4, <1>5, EnteredKeeps
<1>7. req' \in [Sessions -> Request]
  BY <1>1, <1>2, <1>3, FinishMarks
<1>8. trust' \in Scores /\ history' \in History
  BY <1>1, <1>2, RecountTypes
<1>9. TypeOK'
  BY <1>1, <1>2, <1>3, <1>6, <1>7, <1>8 DEF TypeOK
<1>10. RowsAreOfAKind' /\ Stay
  BY <1>3 DEF BaseInv, RowsAreOfAKind, Stay
<1>11. \A a : Waiting(a) => Waiting(a)'
  BY <1>1, <1>4, <1>5, EnteredSpares
<1>12. \A a \in Listings : listings[a].status # "absent" => listings'[a] = listings[a]
  BY <1>3
<1>13. \A t \in Sessions, a \in Listings : t # s /\ Creating(t, a) => a # l
  BY <1>3 DEF BaseInv, RequestsCopied, Creating
<1>14. \A t \in Sessions, a \in Listings :
          t # s /\ Creating(t, a) /\ listings[a].status = "absent" => listings'[a].status = "absent"
  BY <1>3, <1>13
<1>15. /\ \A t \in Sessions : Copied(req[t])'
       /\ \A t \in Sessions, a \in Listings : Creating(t, a)' => Creating(t, a)
  BY <1>2, <1>3, <1>6, <1>11, <1>12, <1>14, FinishKeeps
<1>16. \A q \in Slots : queue'[q] = queue[q] \/ (queue'[q].type = "listing" /\ queue'[q].listing = l)
  BY <1>5, <1>6
<1> QED
  BY <1>3, <1>9, <1>10, <1>15, <1>16, BaseKept

LEMMA PlaceBase ==
    ASSUME BaseInv, NEW s \in Sessions, NEW l \in Listings, SubmitPlace(s, l) \/ CreatePlace(s, l)
    PROVE  BaseInv'
<1> DEFINE item == [type |-> "listing", listing |-> l, status |-> "pending"]
<1>1. /\ listings[l].status = "absent" /\ "place" \in Kinds
      /\ \A t \in Sessions : ~Creating(t, l)
      /\ UNCHANGED <<rating, trust, req, history>>
      /\ listings' \in [Listings -> ListingRow]
      /\ \A a \in Listings : a # l => listings'[a] = listings[a]
      /\ listings'[l].kind = "place" /\ listings'[l].status = "active"
      /\ queue' = queue \/ \E n \in Slots : Entered(n, item)
  BY PlaceEffect
<1>2. queue \in [Slots -> QueueRow]
  BY DEF BaseInv, TypeOK
<1>3. /\ queue' \in [Slots -> QueueRow]
      /\ \A q \in Slots : queue'[q] = queue[q] \/ (queue'[q].type = "listing" /\ queue'[q].listing = l)
      /\ \A t \in Sessions : req[t].slot \in Slots /\ queue[req[t].slot].type # "none" =>
            queue'[req[t].slot] = queue[req[t].slot]
      /\ \A a : Waiting(a) => Waiting(a)'
  <2>1. item \in QueueRow /\ item.type = "listing" /\ item.listing = l
    BY DEF QueueRow, Moderation
  <2> HIDE DEF item
  <2>2. ASSUME NEW n \in Slots, Entered(n, item)
        PROVE  /\ queue' \in [Slots -> QueueRow] /\ queue'[n] = item
               /\ \A q \in Slots : q # n => queue'[q] = queue[q]
               /\ \A t \in Sessions : req[t].slot \in Slots /\ queue[req[t].slot].type # "none" =>
                     queue'[req[t].slot] = queue[req[t].slot]
               /\ \A a : Waiting(a) => Waiting(a)'
    BY <1>2, <2>1, <2>2, EnteredKeeps, EnteredSpares
  <2>3. CASE queue' = queue
    BY <1>2, <2>3 DEF Waiting
  <2>4. CASE \E n \in Slots : Entered(n, item)
    BY <2>1, <2>2, <2>4
  <2> QED
    BY <1>1, <2>3, <2>4
<1>4. TypeOK'
  BY <1>1, <1>3 DEF BaseInv, TypeOK
<1>5. RowsAreOfAKind' /\ Stay
  BY <1>1 DEF BaseInv, RowsAreOfAKind, Stay
<1>6. ASSUME NEW t \in Sessions PROVE Copied(req[t])'
  <2>1. req'[t] = req[t] /\ Copied(req[t]) /\ SameRequest(req[t], req'[t])
    BY <1>1 DEF BaseInv, RequestsCopied, SameRequest
  <2>2. req[t].op = "create" => listings'[req[t].listing].status = "absent"
    BY <1>1, <2>1 DEF Copied, Creating
  <2>3. \A a \in Listings : listings[a].status # "absent" => listings'[a] = listings[a]
    BY <1>1
  <2> QED
    BY <1>3, <2>1, <2>2, <2>3, CopyKept
<1>7. \A t \in Sessions, a \in Listings : Creating(t, a)' => Creating(t, a)
  BY <1>1 DEF Creating
<1> QED
  BY <1>1, <1>3, <1>4, <1>5, <1>6, <1>7, BaseKept

\* A request that loads rows, decides, counts, or ends without a commit.
LEMMA LoadBase ==
    ASSUME BaseInv, NEW s \in Sessions, NEW r \in Request, req' = [req EXCEPT ![s] = r],
           UNCHANGED <<listings, queue, rating, trust>>, history' \in History, Copied(r),
           r.op = "create" => \A t \in Sessions : t # s => ~Creating(t, r.listing)
    PROVE  BaseInv'
<1>1. \A t \in Sessions : req'[t] = IF t = s THEN r ELSE req[t]
  BY DEF BaseInv, TypeOK
<1>2. TypeOK'
  BY DEF BaseInv, TypeOK
<1>3. RowsAreOfAKind' /\ QueueRefers'
  BY DEF BaseInv, RowsAreOfAKind, QueueRefers, Refers
<1>4. ASSUME NEW t \in Sessions PROVE Copied(req[t])'
  <2>1. Copied(req'[t])
    BY <1>1 DEF BaseInv, RequestsCopied
  <2> QED
    BY <2>1 DEF Copied, Waiting
<1>5. \A p, t \in Sessions, l \in Listings : Creating(p, l) /\ Creating(t, l) => p = t
  BY DEF BaseInv, RequestsCopied
<1>6. \A p, t \in Sessions, l \in Listings : Creating(p, l)' /\ Creating(t, l)' => p = t
  BY <1>1, <1>5 DEF Creating
<1> QED
  BY <1>2, <1>3, <1>4, <1>6 DEF BaseInv, RequestsCopied

LEMMA RequestStepBase == ASSUME BaseInv, NEW s \in Sessions, RequestStep(s) PROVE BaseInv'
<1>1. PICK r \in Request :
         /\ req' = [req EXCEPT ![s] = r] /\ Copied(r)
         /\ r.op = "create" => \A t \in Sessions : t # s => ~Creating(t, r.listing)
  BY DEF RequestStep
<1>2. UNCHANGED <<listings, queue, rating, trust>> /\ history' \in History
  BY DEF RequestStep, BaseInv, TypeOK
<1> QED
  BY <1>1, <1>2, LoadBase

\* What a report has in hand.
LEMMA ReportLoads ==
    ASSUME BaseInv, NEW s \in Sessions, NEW l \in Listings, BeginReport(s, l)
    PROVE  /\ UNCHANGED <<listings, queue, rating, trust>>
           /\ PendingRows("report", l) = {}
           /\ \E r \in Request :
                 req' = [req EXCEPT ![s] = r] /\ r.op = "report" /\ r.pc = "loaded" /\ r.listing = l
           /\ listings[l].status # "absent" /\ Reportable(listings[l].kind)
           /\ history' \in History /\ history'.raced = history.raced
           /\ history'.requeued = history.requeued /\ history'.miscounted = history.miscounted
           /\ history'.twice = IF \E t \in Sessions : req[t].op = "report" /\ req[t].listing = l
                               THEN history.twice \cup {l} ELSE history.twice
<1> DEFINE r == [Idle EXCEPT !.op = "report", !.pc = "loaded", !.listing = l]
           twice == IF \E t \in Sessions : req[t].op = "report" /\ req[t].listing = l
                    THEN history.twice \cup {l} ELSE history.twice
<1>1. /\ req' = [req EXCEPT ![s] = r] /\ UNCHANGED <<listings, queue, rating, trust>>
      /\ listings[l].status # "absent" /\ Reportable(listings[l].kind)
      /\ PendingRows("report", l) = {} /\ history' = [history EXCEPT !.twice = twice]
  BY DEF BeginReport, IsPubliclyVisible
<1>2. r \in Request /\ r.op = "report" /\ r.pc = "loaded" /\ r.listing = l
  BY Constants DEF Request, Op
<1> HIDE DEF r
<1>3. history \in History
  BY DEF BaseInv, TypeOK
<1>4. twice \in SUBSET Listings
  BY <1>3 DEF History
<1> HIDE DEF twice
<1>5. /\ history' \in History /\ history'.raced = history.raced /\ history'.requeued = history.requeued
      /\ history'.miscounted = history.miscounted /\ history'.twice = twice
  BY <1>1, <1>3, <1>4 DEF History
<1> QED
  BY <1>1, <1>2, <1>5 DEF twice

LEMMA BeginReportBase ==
    ASSUME BaseInv, NEW s \in Sessions, NEW l \in Listings, BeginReport(s, l)
    PROVE  BaseInv'
<1>1. /\ UNCHANGED <<listings, queue, rating, trust>> /\ history' \in History
      /\ listings[l].status # "absent" /\ Reportable(listings[l].kind)
  BY ReportLoads
<1>2. PICK r \in Request :
         req' = [req EXCEPT ![s] = r] /\ r.op = "report" /\ r.pc = "loaded" /\ r.listing = l
  BY ReportLoads
<1>3. Copied(r)
  BY <1>1, <1>2 DEF Copied
<1> QED
  BY <1>1, <1>2, <1>3, LoadBase

\* A request that ends, where the listings and its queue row stay.
LEMMA CommitReportBase ==
    ASSUME BaseInv, NEW s \in Sessions, CommitReport(s)
    PROVE  BaseInv'
<1> DEFINE l == req[s].listing
           item == [type |-> "report", listing |-> l, status |-> "pending"]
<1>1. /\ listings \in [Listings -> ListingRow] /\ queue \in [Slots -> QueueRow]
      /\ req \in [Sessions -> Request]
  BY DEF BaseInv, TypeOK
<1>2. /\ req[s].op = "report" /\ FreeSlots # {} /\ queue' = Put("report", l, "pending")
      /\ req' = [req EXCEPT ![s] = Idle] /\ UNCHANGED <<listings, rating, trust, history>>
      /\ Reportable(listings[l].kind)
  BY DEF CommitReport, ListingRefExists
<1>3. l \in Listings /\ listings[l].status # "absent"
  BY <1>2 DEF BaseInv, RequestsCopied, Copied
<1> HIDE DEF l
<1>4. PICK n \in Slots : Entered(n, item)
  BY <1>2, PutEnters
<1>5. item \in QueueRow /\ item.type = "report" /\ item.listing = l
  BY <1>3 DEF QueueRow, Moderation
<1> HIDE DEF item
<1>6. /\ queue' \in [Slots -> QueueRow] /\ queue'[n] = item
      /\ \A q \in Slots : q # n => queue'[q] = queue[q]
      /\ \A t \in Sessions : req[t].slot \in Slots /\ queue[req[t].slot].type # "none" =>
            queue'[req[t].slot] = queue[req[t].slot]
      /\ \A a : Waiting(a) => Waiting(a)'
  BY <1>1, <1>4, <1>5, EnteredKeeps, EnteredSpares
<1>7. TypeOK'
  BY <1>1, <1>2, <1>6, Constants DEF BaseInv, TypeOK
<1>8. RowsAreOfAKind' /\ Stay
  BY <1>2 DEF BaseInv, RowsAreOfAKind, Stay
<1>9. \A t \in Sessions : req'[t] = IF t = s THEN Idle ELSE req[t]
  BY <1>1, <1>2
<1>10. ASSUME NEW t \in Sessions PROVE Copied(req[t])'
  <2>1. CASE t = s
    BY <1>9, <2>1, Constants DEF Copied
  <2>2. CASE t # s
    <3>1. /\ req'[t] = req[t] /\ Copied(req[t]) /\ listings' = listings
          /\ SameRequest(req[t], req'[t])
      BY <1>2, <1>9, <2>2 DEF BaseInv, RequestsCopied, SameRequest
    <3>2. req[t].op = "create" => listings'[req[t].listing].status = "absent"
      BY <3>1 DEF Copied
    <3> QED
      BY <1>6, <3>1, <3>2, CopyKept
  <2> QED
    BY <2>1, <2>2
<1>11. \A q \in Slots : queue'[q] = queue[q] \/ (queue'[q].type = "report" /\ queue'[q].listing = l)
  BY <1>5, <1>6
<1>12. \A t \in Sessions, a \in Listings : Creating(t, a)' => Creating(t, a)
  BY <1>9, Constants DEF Creating
<1> QED
  BY <1>2, <1>3, <1>7, <1>8, <1>10, <1>11, <1>12, BaseKept

LEMMA RateBase ==
    ASSUME BaseInv, NEW s \in Sessions, NEW stars \in 1..MaxRating, CommitRate(s, stars)
    PROVE  BaseInv'
<1>1. /\ rating' = stars /\ WriteScore(req[s]) /\ history' = Recounted(req[s]) /\ Finish(s, {}, TRUE)
      /\ UNCHANGED <<listings, queue>> /\ TRUE \in BOOLEAN
  BY DEF CommitRate
<1>2. req \in [Sessions -> Request] /\ Idle \in Request /\ TypeOK /\ stars \in 0..MaxRating
  BY Constants DEF BaseInv, TypeOK
<1>3. req' \in [Sessions -> Request]
  BY <1>1, <1>2, FinishMarks
<1>4. history' \in History /\ trust' \in Scores
  BY <1>1, <1>2, RecountTypes
<1>5. TypeOK'
  BY <1>1, <1>2, <1>3, <1>4 DEF TypeOK
<1>6. RowsAreOfAKind' /\ Stay
  BY <1>1 DEF BaseInv, RowsAreOfAKind, Stay
<1>7. \A a : Waiting(a) => Waiting(a)'
  BY <1>1 DEF Waiting
<1>8. /\ \A t \in Sessions : Copied(req[t])'
      /\ \A t \in Sessions, a \in Listings : Creating(t, a)' => Creating(t, a)
  BY <1>1, <1>7, FinishKeeps
<1> QED
  BY <1>1, <1>5, <1>6, <1>8, BaseKept

LEMMA StatusBase ==
    ASSUME BaseInv, StatusesChange
    PROVE  BaseInv'
<1>1. TypeOK'
  BY DEF StatusesChange, BaseInv, TypeOK
<1>2. RowsAreOfAKind' /\ Stay
  BY DEF StatusesChange, BaseInv, RowsAreOfAKind, Stay
<1>3. ASSUME NEW t \in Sessions PROVE Copied(req[t])'
  <2>1. Copied(req[t]) /\ req' = req /\ queue' = queue /\ SameRequest(req[t], req'[t])
    BY DEF StatusesChange, BaseInv, RequestsCopied, SameRequest
  <2>2. \A l \in Listings :
           /\ listings'[l].status = "absent" <=> listings[l].status = "absent"
           /\ listings'[l].kind = listings[l].kind /\ listings'[l].moderation = listings[l].moderation
    BY DEF StatusesChange
  <2>3. req[t].op = "create" => listings'[req[t].listing].status = "absent"
    BY <2>1, <2>2 DEF Copied
  <2>4. \A a : Waiting(a) => Waiting(a)'
    BY <2>1 DEF Waiting
  <2> QED
    BY <2>1, <2>2, <2>3, <2>4, CopyKept
<1>4. \A t \in Sessions, a \in Listings : Creating(t, a)' => Creating(t, a)
  BY DEF StatusesChange, Creating
<1> QED
  BY <1>1, <1>2, <1>3, <1>4, BaseKept DEF StatusesChange

LEMMA UpdateEffect ==
    ASSUME BaseInv, NEW s \in Sessions, CommitUpdate(s), NEW l, l = req[s].listing
    PROVE  LET r == req[s] IN
           /\ r.op = "update" /\ l \in Listings /\ listings[l].status # "absent" /\ listings[l].kind # "place"
           /\ ~r.stale => listings[l].moderation = r.was
           /\ listings' \in [Listings -> ListingRow]
           /\ \A a \in Listings : a # l => listings'[a] = listings[a]
           /\ listings'[l].kind = listings[l].kind /\ listings'[l].status = listings[l].status
           /\ listings'[l].moderation = IF r.was = "approved" THEN "pending" ELSE listings[l].moderation
           /\ \/ queue' = queue /\ (r.was = "approved" /\ ~r.stale => Waiting(l))
              \/ /\ r.was = "approved"
                 /\ \E n \in Slots : Entered(n, [type |-> "listing", listing |-> l, status |-> "pending"])
<1> DEFINE r == req[s]
           decided == IF r.was = "approved" THEN "pending" ELSE listings[l].moderation
           row == [listings[l] EXCEPT !.moderation = decided, !.unseen = TRUE]
<1>1. r.op = "update" /\ (r.was = "approved" => r.pc = "looked") /\ Copied(r)
  BY DEF CommitUpdate, ReadyToUpdate, Requeues, BaseInv, RequestsCopied
<1>2. /\ l \in Listings /\ listings[l].status # "absent" /\ listings[l].kind # "place"
      /\ ~r.stale => listings[l].moderation = r.was
      /\ r.was = "approved" /\ r.found /\ ~r.stale => Waiting(l)
  BY <1>1 DEF Copied
<1>3. listings[l] \in ListingRow /\ listings \in [Listings -> ListingRow]
  BY <1>2 DEF BaseInv, TypeOK
<1>4. Updated(r) = row
  BY <1>3 DEF Updated, Requeues
<1>5. listings' = [listings EXCEPT ![l] = row]
  BY <1>4 DEF CommitUpdate
<1>6. decided \in Moderation
  BY <1>3 DEF ListingRow, Moderation
<1> HIDE DEF decided
<1>7. /\ row \in ListingRow /\ row.kind = listings[l].kind /\ row.status = listings[l].status
      /\ row.moderation = decided
  BY <1>3, <1>6 DEF ListingRow
<1> HIDE DEF row
<1>8. /\ listings' \in [Listings -> ListingRow] /\ listings'[l] = row
      /\ \A a \in Listings : a # l => listings'[a] = listings[a]
  BY <1>2, <1>3, <1>5, <1>7
<1>9. \/ queue' = queue /\ (r.was = "approved" => r.found)
      \/ r.was = "approved" /\ FreeSlots # {} /\ queue' = Put("listing", l, "pending")
  BY DEF CommitUpdate, Requeues
<1>10. \/ queue' = queue /\ (r.was = "approved" /\ ~r.stale => Waiting(l))
       \/ /\ r.was = "approved"
          /\ \E n \in Slots : Entered(n, [type |-> "listing", listing |-> l, status |-> "pending"])
  <2>1. CASE queue' = queue /\ (r.was = "approved" => r.found)
    BY <1>2, <2>1
  <2>2. CASE r.was = "approved" /\ FreeSlots # {} /\ queue' = Put("listing", l, "pending")
    BY <2>2, PutEnters
  <2> QED
    BY <1>9, <2>1, <2>2
<1> QED
  BY <1>1, <1>2, <1>7, <1>8, <1>10 DEF decided

LEMMA ReviewEffect ==
    ASSUME BaseInv, NEW s \in Sessions, CommitReview(s)
    PROVE  LET r == req[s]
               l == req[s].listing
               n == req[s].slot IN
           /\ r.op = "review" /\ r.pc = "counted" /\ l \in Listings /\ n \in Slots /\ listings[l].status # "absent"
           /\ queue[n].listing = l /\ queue[n].type \in {"listing", "report"}
           /\ queue[n].type = "report" => Reportable(listings[l].kind)
           /\ ~r.stale => listings[l].moderation = r.was
           /\ ~r.stale /\ queue[n].type = "listing" => queue[n].status = "pending"
           /\ r.approve \in BOOLEAN
           /\ listings' \in [Listings -> ListingRow]
           /\ \A a \in Listings : a # l => listings'[a] = listings[a]
           /\ listings'[l].kind = listings[l].kind /\ listings'[l].status # "absent"
           /\ listings'[l].moderation = IF queue[n].type = "listing" /\ r.was # Verdict(r)
                                        THEN Verdict(r) ELSE listings[l].moderation
           /\ listings'[l].unseen => listings[l].unseen
           /\ queue[n].type = "listing" /\ listings'[l].unseen => r.stale
           /\ queue' \in [Slots -> QueueRow]
           /\ \A q \in Slots : q # n => queue'[q] = queue[q]
           /\ queue'[n].type = queue[n].type /\ queue'[n].listing = l /\ queue'[n].status = Verdict(r)
<1> DEFINE r == req[s]
           l == req[s].listing
           n == req[s].slot
<1>1. r.op = "review" /\ r.pc = "counted" /\ listings' = DecidedListings(r) /\ queue' = DecidedQueue(r)
  BY DEF CommitReview
<1>2. /\ listings \in [Listings -> ListingRow] /\ queue \in [Slots -> QueueRow] /\ r \in Request
  BY DEF BaseInv, TypeOK
<1>3. /\ l \in Listings /\ n \in Slots /\ listings[l].status # "absent"
      /\ queue[n].listing = l /\ queue[n].type # "none"
      /\ ~r.stale => listings[l].moderation = r.was
      /\ ~r.stale /\ queue[n].type = "listing" => queue[n].status = "pending"
  BY <1>1 DEF BaseInv, RequestsCopied, Copied
<1>4. /\ queue[n].type \in {"listing", "report"} /\ r.approve \in BOOLEAN /\ r.stale \in BOOLEAN
      /\ queue[n].type = "report" => Reportable(listings[l].kind)
      /\ Verdict(r) \in Moderation /\ listings[l] \in ListingRow /\ queue[n] \in QueueRow
  BY <1>2, <1>3 DEF BaseInv, QueueRefers, Refers, QueueRow, Request, Verdict, Moderation
<1>5. \E row \in ListingRow :
         /\ listings' = [listings EXCEPT ![l] = row]
         /\ row.kind = listings[l].kind /\ row.status # "absent"
         /\ row.moderation = IF queue[n].type = "listing" /\ r.was # Verdict(r)
                             THEN Verdict(r) ELSE listings[l].moderation
         /\ row.unseen => listings[l].unseen
         /\ queue[n].type = "listing" /\ row.unseen => r.stale
  <2>1. CASE queue[n].type = "report"
    <3> DEFINE status == IF r.approve THEN "off" ELSE listings[l].status
               row == [listings[l] EXCEPT !.status = status]
    <3>1. listings' = [listings EXCEPT ![l] = row]
      BY <1>1, <2>1 DEF DecidedListings
    <3>2. status \in Status /\ status # "absent"
      BY <1>3, <1>4 DEF ListingRow, Status
    <3> HIDE DEF status
    <3>3. /\ row \in ListingRow /\ row.kind = listings[l].kind /\ row.status # "absent"
          /\ row.moderation = listings[l].moderation /\ row.unseen = listings[l].unseen
      BY <1>4, <3>2 DEF ListingRow
    <3> HIDE DEF row
    <3> QED
      BY <2>1, <3>1, <3>3
  <2>2. CASE queue[n].type = "listing"
    <3> DEFINE decided == IF r.was # Verdict(r) THEN Verdict(r) ELSE listings[l].moderation
               unseen == listings[l].unseen /\ r.stale
               row == [listings[l] EXCEPT !.moderation = decided, !.unseen = unseen]
    <3>1. listings' = [listings EXCEPT ![l] = row]
      BY <1>1, <2>2 DEF DecidedListings, Writes
    <3>2. decided \in Moderation /\ unseen \in BOOLEAN
      BY <1>4 DEF ListingRow
    <3>3. (unseen => listings[l].unseen) /\ (unseen => r.stale)
      BY <1>4
    <3> HIDE DEF decided, unseen
    <3>4. /\ row \in ListingRow /\ row.kind = listings[l].kind /\ row.status = listings[l].status
          /\ row.moderation = decided /\ row.unseen = unseen
      BY <1>4, <3>2 DEF ListingRow
    <3> HIDE DEF row
    <3>5. (row.unseen => listings[l].unseen) /\ (row.unseen => r.stale)
      BY <3>3, <3>4
    <3> QED
      BY <1>3, <2>2, <3>1, <3>4, <3>5 DEF decided
  <2> QED
    BY <1>4, <2>1, <2>2
<1>6. PICK row \in ListingRow :
         /\ listings' = [listings EXCEPT ![l] = row]
         /\ row.kind = listings[l].kind /\ row.status # "absent"
         /\ row.moderation = IF queue[n].type = "listing" /\ r.was # Verdict(r)
                             THEN Verdict(r) ELSE listings[l].moderation
         /\ row.unseen => listings[l].unseen
         /\ queue[n].type = "listing" /\ row.unseen => r.stale
  BY <1>5
<1>7. /\ listings' \in [Listings -> ListingRow] /\ listings'[l] = row
      /\ \A a \in Listings : a # l => listings'[a] = listings[a]
  BY <1>2, <1>3, <1>6
<1>8. /\ queue' \in [Slots -> QueueRow]
      /\ \A q \in Slots : q # n => queue'[q] = queue[q]
      /\ queue'[n].type = queue[n].type /\ queue'[n].listing = l /\ queue'[n].status = Verdict(r)
  <2> DEFINE v == Verdict(r)
             item == [queue[n] EXCEPT !.status = v]
  <2>1. queue' = [queue EXCEPT ![n] = item]
    BY <1>1 DEF DecidedQueue
  <2>2. v \in Moderation
    BY <1>4
  <2> HIDE DEF v
  <2>3. /\ item \in QueueRow /\ item.type = queue[n].type /\ item.listing = queue[n].listing
        /\ item.status = v
    BY <1>4, <2>2 DEF QueueRow
  <2> HIDE DEF item
  <2> QED
    BY <1>2, <1>3, <2>1, <2>3 DEF v
<1> QED
  BY <1>1, <1>3, <1>4, <1>6, <1>7, <1>8

LEMMA UpdateHistory ==
    ASSUME BaseInv, NEW s \in Sessions, CommitUpdate(s), NEW l, l = req[s].listing
    PROVE  LET r == req[s] IN
           /\ history' \in History
           /\ history'.raced = IF r.stale THEN history.raced \cup {l} ELSE history.raced
           /\ history'.requeued = IF r.was = "approved" /\ listings[l].moderation = "approved"
                                  THEN history.requeued \cup {l} ELSE history.requeued
           /\ history'.miscounted = history.miscounted /\ history'.twice = history.twice
<1> DEFINE r == req[s]
           requeued == IF r.was = "approved" /\ listings[l].moderation = "approved"
                       THEN history.requeued \cup {l} ELSE history.requeued
           raced == IF r.stale THEN history.raced \cup {l} ELSE history.raced
<1>1. history \in History /\ l \in Listings
  BY UpdateEffect DEF BaseInv, TypeOK
<1>2. history' = [history EXCEPT !.requeued = requeued, !.raced = raced]
  BY DEF CommitUpdate, Requeues
<1>3. requeued \in SUBSET Listings /\ raced \in SUBSET Listings
  BY <1>1 DEF History
<1> HIDE DEF requeued, raced
<1>4. /\ history' \in History /\ history'.raced = raced /\ history'.requeued = requeued
      /\ history'.miscounted = history.miscounted /\ history'.twice = history.twice
  BY <1>1, <1>2, <1>3 DEF History
<1> QED
  BY <1>4 DEF requeued, raced

LEMMA ReviewHistory ==
    ASSUME BaseInv, NEW s \in Sessions, CommitReview(s)
    PROVE  LET r == req[s]
               l == req[s].listing
               trusted == Trusted(listings[l].kind) IN
           /\ history' \in History
           /\ history'.raced = IF r.stale /\ queue[r.slot].type = "listing"
                               THEN history.raced \cup {l} ELSE history.raced
           /\ history'.requeued = IF trusted THEN {} ELSE history.requeued
           /\ trusted => (history'.miscounted <=> (r.dirty \/ (r.score = r.base /\ trust # r.base)))
           /\ ~trusted => history'.miscounted = history.miscounted
           /\ history'.twice = history.twice
<1> DEFINE r == req[s]
           l == req[s].listing
           trusted == Trusted(listings[l].kind)
           decides == queue[r.slot].type = "listing"
           counts == IF trusted THEN Recounted(r) ELSE history
           raced == IF r.stale /\ decides THEN counts.raced \cup {l} ELSE counts.raced
<1>1. history \in History /\ l \in Listings /\ TypeOK
  BY ReviewEffect DEF BaseInv, TypeOK
<1>2. history' = [counts EXCEPT !.raced = raced]
  BY DEF CommitReview
<1>3. /\ counts \in History /\ counts.raced = history.raced /\ counts.twice = history.twice
      /\ counts.requeued = IF trusted THEN {} ELSE history.requeued
      /\ trusted => (counts.miscounted <=> (r.dirty \/ (r.score = r.base /\ trust # r.base)))
      /\ ~trusted => counts.miscounted = history.miscounted
  BY <1>1, RecountTypes
<1> HIDE DEF counts, trusted
<1>4. raced \in SUBSET Listings
  BY <1>1, <1>3 DEF History
<1>5. raced = IF r.stale /\ decides THEN history.raced \cup {l} ELSE history.raced
  BY <1>3
<1> HIDE DEF raced
<1>6. /\ history' \in History /\ history'.raced = raced /\ history'.requeued = counts.requeued
      /\ history'.miscounted = counts.miscounted /\ history'.twice = counts.twice
  BY <1>2, <1>3, <1>4 DEF History
<1> QED
  BY <1>3, <1>5, <1>6 DEF trusted

LEMMA CommitUpdateBase ==
    ASSUME BaseInv, NEW s \in Sessions, CommitUpdate(s), NEW l, l = req[s].listing
    PROVE  BaseInv'
<1> DEFINE r == req[s]
           item == [type |-> "listing", listing |-> l, status |-> "pending"]
<1>1. /\ l \in Listings /\ listings[l].status # "absent"
      /\ listings' \in [Listings -> ListingRow]
      /\ \A a \in Listings : a # l => listings'[a] = listings[a]
      /\ listings'[l].kind = listings[l].kind /\ listings'[l].status = listings[l].status
      /\ queue' = queue \/ \E n \in Slots : Entered(n, item)
  BY UpdateEffect
<1>2. /\ queue \in [Slots -> QueueRow] /\ history \in History
  BY DEF BaseInv, TypeOK
<1>3. /\ queue' \in [Slots -> QueueRow]
      /\ \A q \in Slots : queue'[q] = queue[q] \/ (queue'[q].type = "listing" /\ queue'[q].listing = l)
      /\ \A t \in Sessions : req[t].slot \in Slots /\ queue[req[t].slot].type # "none" =>
            queue'[req[t].slot] = queue[req[t].slot]
      /\ \A a : Waiting(a) => Waiting(a)'
  <2>1. item \in QueueRow /\ item.type = "listing" /\ item.listing = l
    BY <1>1 DEF QueueRow, Moderation
  <2> HIDE DEF item
  <2>2. CASE queue' = queue
    BY <1>2, <2>2 DEF Waiting
  <2>3. CASE \E n \in Slots : Entered(n, item)
    <3>1. PICK n \in Slots : Entered(n, item)
      BY <2>3
    <3> QED
      BY <1>2, <2>1, <3>1, EnteredKeeps, EnteredSpares
  <2> QED
    BY <1>1, <2>2, <2>3
<1>4. /\ rating' = rating /\ trust' = trust /\ Finish(s, {l}, Requeues(r)) /\ Requeues(r) \in BOOLEAN
      /\ req \in [Sessions -> Request] /\ Idle \in Request
  BY Constants DEF CommitUpdate, BaseInv, TypeOK, Requeues
<1>5. req' \in [Sessions -> Request]
  BY <1>4, FinishMarks
<1>6. history' \in History
  BY UpdateHistory
<1>7. TypeOK'
  BY <1>1, <1>3, <1>4, <1>5, <1>6 DEF BaseInv, TypeOK
<1>8. RowsAreOfAKind' /\ Stay
  BY <1>1 DEF BaseInv, RowsAreOfAKind, Stay
<1>9. /\ \A a \in Listings : listings[a].status # "absent" =>
           /\ listings'[a].status # "absent" /\ listings'[a].kind = listings[a].kind
           /\ listings'[a].moderation = listings[a].moderation \/ a \in {l}
      /\ \A a \in Listings : listings[a].status = "absent" => listings'[a].status = "absent"
  BY <1>1
<1>10. \A t \in Sessions, n \in Slots : req[t].slot = n /\ queue[n].type # "none" => queue'[n] = queue[n]
  BY <1>3
<1>11. /\ \A t \in Sessions : Copied(req[t])'
       /\ \A t \in Sessions, a \in Listings : Creating(t, a)' => Creating(t, a)
  BY <1>3, <1>4, <1>9, <1>10, FinishKeeps
<1> QED
  BY <1>1, <1>3, <1>7, <1>8, <1>11, BaseKept

LEMMA CommitReviewBase ==
    ASSUME BaseInv, NEW s \in Sessions, CommitReview(s)
    PROVE  BaseInv'
<1> DEFINE r == req[s]
           l == req[s].listing
           n == req[s].slot
           trusted == Trusted(listings[l].kind)
           decides == queue[n].type = "listing"
           touched == IF decides THEN {l} ELSE {}
<1>1. /\ l \in Listings /\ n \in Slots /\ listings[l].status # "absent"
      /\ queue[n].listing = l /\ queue[n].type \in {"listing", "report"}
      /\ queue[n].type = "report" => Reportable(listings[l].kind)
      /\ listings' \in [Listings -> ListingRow]
      /\ \A a \in Listings : a # l => listings'[a] = listings[a]
      /\ listings'[l].kind = listings[l].kind /\ listings'[l].status # "absent"
      /\ queue[n].type # "listing" => listings'[l].moderation = listings[l].moderation
      /\ queue' \in [Slots -> QueueRow]
      /\ \A q \in Slots : q # n => queue'[q] = queue[q]
      /\ queue'[n].type = queue[n].type /\ queue'[n].listing = l
  BY ReviewEffect
<1>2. /\ rating' = rating /\ (trust' = trust \/ WriteScore(r))
      /\ Finish(s, touched, trusted) /\ trusted \in BOOLEAN
      /\ req \in [Sessions -> Request] /\ Idle \in Request /\ TypeOK
  BY Constants DEF CommitReview, BaseInv, TypeOK, Trusted
<1> HIDE DEF trusted
<1>3. req' \in [Sessions -> Request]
  <2> HIDE DEF touched
  <2> QED
    BY <1>2, FinishMarks
<1>4. history' \in History
  BY ReviewHistory
<1>5. trust' \in Scores
  BY <1>2, RecountTypes DEF TypeOK
<1>6. TypeOK'
  <2>1. listings' \in [Listings -> ListingRow] /\ queue' \in [Slots -> QueueRow]
    BY <1>1
  <2>2. rating' \in 0..MaxRating
    BY <1>2 DEF TypeOK
  <2> QED
    BY <1>3, <1>4, <1>5, <2>1, <2>2 DEF TypeOK
<1>7. RowsAreOfAKind' /\ Stay
  BY <1>1 DEF BaseInv, RowsAreOfAKind, Stay
<1>8. \A a \in Listings : listings[a].status # "absent" =>
         /\ listings'[a].status # "absent" /\ listings'[a].kind = listings[a].kind
         /\ listings'[a].moderation = listings[a].moderation \/ a \in touched
  BY <1>1
<1>9. \A a \in Listings : listings[a].status = "absent" => listings'[a].status = "absent"
  BY <1>1
<1>10. \A q \in Slots :
         /\ queue'[q].type = queue[q].type /\ queue'[q].listing = queue[q].listing
         /\ queue'[q].status = queue[q].status \/ queue[q].type # "listing" \/ queue[q].listing \in touched
  BY <1>1
<1>11. \A a \in Listings : Waiting(a) => Waiting(a)' \/ a \in touched
  BY <1>1 DEF Waiting
<1>12. /\ \A t \in Sessions : Copied(req[t])'
       /\ \A t \in Sessions, a \in Listings : Creating(t, a)' => Creating(t, a)
  <2> HIDE DEF touched
  <2> QED
    BY <1>2, <1>8, <1>9, <1>10, <1>11, FinishKeeps
<1>13. \A q \in Slots : queue'[q] = queue[q] \/
         /\ queue'[q].listing \in Listings /\ listings'[queue'[q].listing].status # "absent"
         /\ queue'[q].type = "report" => Reportable(listings'[queue'[q].listing].kind)
  BY <1>1
<1> QED
  BY <1>6, <1>7, <1>12, <1>13, BaseKept

LEMMA BaseStep == BaseInv /\ [Next]_vars => BaseInv'
<1> SUFFICES ASSUME BaseInv, [Next]_vars PROVE BaseInv'
  OBVIOUS
<1>1. CASE UNCHANGED vars
  BY <1>1 DEF vars, BaseInv, TypeOK, RowsAreOfAKind, QueueRefers, Refers, RequestsCopied, Copied, Waiting,
     Creating
<1>2. CASE Next
  <2>1. Shape
    BY <1>2, StepHasShape
  <2> QED
    BY <2>1, RequestStepBase, CreateBase, PlaceBase, BeginReportBase, CommitUpdateBase, CommitReportBase,
       CommitReviewBase, RateBase, StatusBase DEF Shape
<1> QED
  BY <1>1, <1>2

\* Every variable keeps its type: among the rest, a row is always put where there is
\* a place for it, and the score stays within its bounds.
THEOREM ListingTypeCorrect == Spec => []TypeOK
<1>1. BaseInv => TypeOK
  BY DEF BaseInv
<1> QED
  BY <1>1, BaseStarts, BaseStep, PTL DEF Spec

-----------------------------------------------------------------------------
(* What waits is in the queue, and what is shown has been through it.      *)

PendingWaits(l) ==
    listings[l].status # "absent" /\ listings[l].moderation = "pending" => l \in history.raced \/ Waiting(l)

UnseenIsHidden(l) ==
    listings[l].unseen /\ listings[l].moderation = "approved" => l \in history.raced

QueueInv == BaseInv /\ \A l \in Listings : PendingWaits(l) /\ UnseenIsHidden(l)

LEMMA QueueStarts == Init => QueueInv
<1> SUFFICES ASSUME Init PROVE QueueInv
  OBVIOUS
<1>1. \A l \in Listings : listings[l] = NoListing
  BY DEF Init
<1> QED
  BY <1>1, BaseStarts, Constants DEF QueueInv, PendingWaits, UnseenIsHidden

LEMMA QueueKept ==
    ASSUME QueueInv, BaseInv', history.raced \subseteq history'.raced,
           \A l \in Listings :
              \/ /\ listings'[l].kind = listings[l].kind /\ listings'[l].moderation = listings[l].moderation
                 /\ listings'[l].unseen = listings[l].unseen
                 /\ listings'[l].status # "absent" => listings[l].status # "absent"
                 /\ Waiting(l) => Waiting(l)'
              \/ PendingWaits(l)' /\ UnseenIsHidden(l)'
    PROVE  QueueInv'
BY DEF QueueInv, PendingWaits, UnseenIsHidden

LEMMA CreateQueue ==
    ASSUME QueueInv, BaseInv', NEW s \in Sessions, CommitCreate(s), NEW l \in Listings, l = req[s].listing
    PROVE  QueueInv'
<1> DEFINE approve == req[s].approve
           item == [type |-> "listing", listing |-> l, status |-> Decided(approve)]
<1>0. BaseInv /\ TypeOK /\ queue \in [Slots -> QueueRow] /\ history \in History
  BY DEF QueueInv, BaseInv, TypeOK
<1>1. /\ \A a \in Listings : a # l => listings'[a] = listings[a]
      /\ approve \in BOOLEAN
      /\ listings'[l].moderation = Decided(approve) /\ listings'[l].unseen = ~approve
      /\ \E n \in Slots : Entered(n, item)
  BY <1>0, CreateEffect
<1>2. item \in QueueRow /\ item.type = "listing" /\ item.status = Decided(approve) /\ item.listing = l
  BY <1>1 DEF QueueRow, Moderation, Decided
<1> HIDE DEF item
<1>3. (\A a : Waiting(a) => Waiting(a)') /\ (Decided(approve) = "pending" => Waiting(l)')
  BY <1>0, <1>1, <1>2, EnteredSpares
<1>4. history' = Recounted(req[s])
  BY DEF CommitCreate
<1>5. history'.raced = history.raced
  BY <1>0, <1>4, RecountTypes
<1> HIDE DEF approve
<1>6. PendingWaits(l)'
  BY <1>1, <1>3 DEF PendingWaits
<1>7. UnseenIsHidden(l)'
  BY <1>1 DEF UnseenIsHidden, Decided
<1> QED
  BY <1>1, <1>3, <1>5, <1>6, <1>7, QueueKept

LEMMA PlaceQueue ==
    ASSUME QueueInv, BaseInv', NEW s \in Sessions, NEW l \in Listings, SubmitPlace(s, l) \/ CreatePlace(s, l)
    PROVE  QueueInv'
<1> DEFINE item == [type |-> "listing", listing |-> l, status |-> "pending"]
<1>0. BaseInv /\ queue \in [Slots -> QueueRow]
  BY DEF QueueInv, BaseInv, TypeOK
<1>1. /\ history' = history
      /\ \A a \in Listings : a # l => listings'[a] = listings[a]
      /\ \/ listings'[l].moderation = "approved" /\ ~listings'[l].unseen /\ queue' = queue
         \/ listings'[l].moderation = "pending" /\ \E n \in Slots : Entered(n, item)
  BY <1>0, PlaceEffect
<1>2. item \in QueueRow /\ item.type = "listing" /\ item.status = "pending" /\ item.listing = l
  BY DEF QueueRow, Moderation
<1> HIDE DEF item
<1>3. /\ \A a : Waiting(a) => Waiting(a)'
      /\ listings'[l].moderation = "pending" => Waiting(l)'
  <2>1. CASE listings'[l].moderation = "approved" /\ queue' = queue
    BY <2>1 DEF Waiting
  <2>2. CASE \E n \in Slots : Entered(n, item)
    BY <1>0, <1>2, <2>2, EnteredSpares
  <2> QED
    BY <1>1, <2>1, <2>2
<1>4. PendingWaits(l)' /\ UnseenIsHidden(l)'
  BY <1>1, <1>3 DEF PendingWaits, UnseenIsHidden
<1> QED
  BY <1>1, <1>3, <1>4, QueueKept

LEMMA CommitUpdateQueue ==
    ASSUME QueueInv, BaseInv', NEW s \in Sessions, CommitUpdate(s),
           NEW l \in Listings, l = req[s].listing
    PROVE  QueueInv'
<1> DEFINE r == req[s]
           item == [type |-> "listing", listing |-> l, status |-> "pending"]
<1>0. BaseInv /\ queue \in [Slots -> QueueRow]
  BY DEF QueueInv, BaseInv, TypeOK
<1>1. /\ listings[l].status # "absent"
      /\ ~r.stale => listings[l].moderation = r.was
      /\ \A a \in Listings : a # l => listings'[a] = listings[a]
      /\ listings'[l].moderation = IF r.was = "approved" THEN "pending" ELSE listings[l].moderation
      /\ \/ queue' = queue /\ (r.was = "approved" /\ ~r.stale => Waiting(l))
         \/ r.was = "approved" /\ \E n \in Slots : Entered(n, item)
  BY <1>0, UpdateEffect
<1>2. history'.raced = IF r.stale THEN history.raced \cup {l} ELSE history.raced
  BY <1>0, UpdateHistory
<1>3. item \in QueueRow /\ item.type = "listing" /\ item.status = "pending" /\ item.listing = l
  BY <1>1 DEF QueueRow, Moderation
<1> HIDE DEF item
<1>4. /\ \A a : Waiting(a) => Waiting(a)'
      /\ r.was = "approved" /\ ~r.stale => Waiting(l)'
  <2>1. CASE queue' = queue /\ (r.was = "approved" /\ ~r.stale => Waiting(l))
    BY <2>1 DEF Waiting
  <2>2. CASE \E n \in Slots : Entered(n, item)
    BY <1>0, <1>3, <2>2, EnteredSpares
  <2> QED
    BY <1>1, <2>1, <2>2
<1>5. PendingWaits(l)'
  BY <1>1, <1>2, <1>4 DEF QueueInv, PendingWaits
<1>6. UnseenIsHidden(l)'
  BY <1>1, <1>2 DEF UnseenIsHidden
<1> QED
  BY <1>1, <1>2, <1>4, <1>5, <1>6, QueueKept

LEMMA CommitReviewQueue ==
    ASSUME QueueInv, BaseInv', NEW s \in Sessions, CommitReview(s),
           NEW l \in Listings, l = req[s].listing
    PROVE  QueueInv'
<1> DEFINE r == req[s]
           n == req[s].slot
<1>0. BaseInv
  BY DEF QueueInv
<1>1. /\ n \in Slots /\ listings[l].status # "absent"
      /\ queue[n].listing = l /\ queue[n].type \in {"listing", "report"}
      /\ ~r.stale => listings[l].moderation = r.was
      /\ \A a \in Listings : a # l => listings'[a] = listings[a]
      /\ listings'[l].kind = listings[l].kind
      /\ listings'[l].moderation = IF queue[n].type = "listing" /\ r.was # Verdict(r)
                                   THEN Verdict(r) ELSE listings[l].moderation
      /\ listings'[l].unseen => listings[l].unseen
      /\ queue[n].type = "listing" /\ listings'[l].unseen => r.stale
      /\ \A q \in Slots : q # n => queue'[q] = queue[q]
  BY <1>0, ReviewEffect
<1>2. history'.raced = IF r.stale /\ queue[n].type = "listing" THEN history.raced \cup {l} ELSE history.raced
  BY <1>0, ReviewHistory
<1>3. Verdict(r) # "pending"
  BY DEF Verdict
<1>4. \A a \in Listings : a # l /\ Waiting(a) => Waiting(a)'
  BY <1>1 DEF Waiting
<1>5. CASE queue[n].type = "listing"
  <2>1. PendingWaits(l)' /\ UnseenIsHidden(l)'
    BY <1>1, <1>2, <1>3, <1>5 DEF PendingWaits, UnseenIsHidden
  <2> QED
    BY <1>1, <1>2, <1>4, <2>1, QueueKept
<1>6. CASE queue[n].type = "report"
  <2>1. Waiting(l) => Waiting(l)'
    BY <1>1, <1>6 DEF Waiting
  <2>2. PendingWaits(l)' /\ UnseenIsHidden(l)'
    BY <1>1, <1>2, <1>6, <2>1 DEF QueueInv, PendingWaits, UnseenIsHidden
  <2> QED
    BY <1>1, <1>2, <1>4, <2>2, QueueKept
<1> QED
  BY <1>1, <1>5, <1>6

LEMMA QueueStep == QueueInv /\ [Next]_vars => QueueInv'
<1> SUFFICES ASSUME QueueInv, [Next]_vars PROVE QueueInv'
  OBVIOUS
<1>1. BaseInv' /\ BaseInv /\ queue \in [Slots -> QueueRow] /\ history \in History /\ TypeOK
  BY BaseStep DEF QueueInv, BaseInv, TypeOK
<1>2. ASSUME UNCHANGED <<listings, queue>>, history'.raced = history.raced
      PROVE  QueueInv'
  <2>1. \A l : Waiting(l) => Waiting(l)'
    BY <1>2 DEF Waiting
  <2> QED
    BY <1>1, <1>2, <2>1, QueueKept
<1>3. CASE UNCHANGED vars
  BY <1>2, <1>3 DEF vars
<1>4. ASSUME NEW s \in Sessions, NEW l \in Listings, BeginReport(s, l)
      PROVE  QueueInv'
  BY <1>1, <1>2, <1>4, ReportLoads
<1>5. ASSUME NEW s \in Sessions, CommitReport(s)
      PROVE  QueueInv'
  <2> DEFINE l == req[s].listing
             item == [type |-> "report", listing |-> l, status |-> "pending"]
  <2>1. /\ FreeSlots # {} /\ queue' = Put("report", l, "pending") /\ UNCHANGED <<listings, history>>
        /\ req[s].op = "report"
    BY <1>5 DEF CommitReport
  <2>2. l \in Listings
    BY <1>1, <2>1 DEF BaseInv, RequestsCopied, Copied
  <2> HIDE DEF l
  <2>3. PICK n \in Slots : Entered(n, item)
    BY <2>1, PutEnters
  <2>4. item \in QueueRow
    BY <2>2 DEF QueueRow, Moderation
  <2>5. \A a : Waiting(a) => Waiting(a)'
    BY <1>1, <2>3, <2>4, EnteredSpares
  <2> QED
    BY <1>1, <2>1, <2>5, QueueKept
<1>6. ASSUME NEW s \in Sessions, NEW stars \in 1..MaxRating, CommitRate(s, stars)
      PROVE  QueueInv'
  <2>1. UNCHANGED <<listings, queue>> /\ history' = Recounted(req[s])
    BY <1>6 DEF CommitRate
  <2>2. history'.raced = history.raced
    BY <1>1, <2>1, RecountTypes
  <2> QED
    BY <1>2, <2>1, <2>2
<1>7. CASE StatusesChange
  <2>1. \A l : Waiting(l) => Waiting(l)'
    BY <1>7 DEF StatusesChange, Waiting
  <2> QED
    BY <1>1, <1>7, <2>1, QueueKept DEF StatusesChange
<1>8. ASSUME NEW s \in Sessions, RequestStep(s)
      PROVE  QueueInv'
  BY <1>2, <1>8 DEF RequestStep
<1>9. ASSUME NEW s \in Sessions, CommitUpdate(s)
      PROVE  QueueInv'
  <2>1. PICK l \in Listings : l = req[s].listing
    BY <1>1, <1>9, UpdateEffect
  <2> QED
    BY <1>1, <1>9, <2>1, CommitUpdateQueue
<1>10. ASSUME NEW s \in Sessions, CommitReview(s)
       PROVE  QueueInv'
  <2>1. PICK l \in Listings : l = req[s].listing
    BY <1>1, <1>10, ReviewEffect
  <2> QED
    BY <1>1, <1>10, <2>1, CommitReviewQueue
<1>11. ASSUME NEW s \in Sessions, CommitCreate(s)
       PROVE  QueueInv'
  <2>1. PICK l \in Listings : l = req[s].listing
    BY <1>1, <1>11, CreateEffect
  <2> QED
    BY <1>1, <1>11, <2>1, CreateQueue
<1>12. CASE Next
  <2>1. Shape
    BY <1>1, <1>12, StepHasShape
  <2> QED
    BY <1>1, <1>4, <1>5, <1>6, <1>7, <1>8, <1>9, <1>10, <1>11, <2>1, PlaceQueue DEF Shape
<1> QED
  BY <1>3, <1>12

\* moderation/service.py:96-115: a listing that waits for a decision is in the queue
\* a moderator sees, unless its moderation was written from an older copy.
THEOREM NothingWaitsUnlisted == Spec => []PendingIsQueued
<1>1. QueueInv => PendingIsQueued
  <2> SUFFICES ASSUME QueueInv, NEW l \in Listings, listings[l].status # "absent",
                      listings[l].moderation = "pending", l \notin history.raced
               PROVE  \E q \in ListQueue : Item(q) = [type |-> "listing", listing |-> l, snapshot |-> Snapshot(l)]
    BY DEF PendingIsQueued
  <2>1. PICK q \in Slots : queue[q].type = "listing" /\ queue[q].listing = l /\ queue[q].status = "pending"
    BY DEF QueueInv, PendingWaits, Waiting
  <2>2. q \in ListQueue
    BY <2>1 DEF ListQueue
  <2>3. Item(q) = [type |-> "listing", listing |-> l, snapshot |-> Snapshot(l)]
    BY <2>1 DEF Item
  <2> QED
    BY <2>2, <2>3
<1> QED
  BY <1>1, QueueStarts, QueueStep, PTL DEF Spec

\* moderation/service.py:95: what the public lists and a seller's profile show of what
\* somebody other than staff wrote, places of the public list among it, has been before
\* a reviewer as it is, or the author's score let it through, with the same exception.
THEOREM NothingShownUnreviewed == Spec => []PublicContentReviewed
<1>1. QueueInv => PublicContentReviewed
  BY DEF QueueInv, UnseenIsHidden, PublicContentReviewed, SellerProfile, ListPlaces,
     ListExchange, ListProducts, ListShops, ListOf, IsPubliclyVisible
<1> QED
  BY <1>1, QueueStarts, QueueStep, PTL DEF Spec

\* A listing becomes approved only by an approval entered in the queue, or by staff
\* creating a place, unless a review wrote over what it had not seen.
THEOREM ApprovalsAreQueued == Spec => OnlyTheQueueApproves
<1> DEFINE Entry(l) == \E q \in Slots : /\ queue'[q] = [type |-> "listing", listing |-> l, status |-> "approved"]
                                      /\ queue[q] # queue'[q]
           Approved(l) == listings'[l].moderation = "approved" /\ listings[l].moderation # "approved"
           Cause(l) == \/ Entry(l)
                       \/ listings[l].status = "absent" /\ listings'[l].kind = "place"
                       \/ l \in history'.raced
<1>1. ASSUME BaseInv, Next PROVE \A l \in Listings : Approved(l) => Cause(l)
  <2>1. TypeOK /\ Shape /\ queue \in [Slots -> QueueRow]
    BY <1>1, StepHasShape DEF BaseInv, TypeOK
  <2>2. ASSUME NEW s \in Sessions, CommitCreate(s), NEW a \in Listings, Approved(a)
        PROVE  Cause(a)
    <3>1. PICK l \in Listings : l = req[s].listing
      BY <1>1, <2>2, CreateEffect
    <3>2. /\ listings[l].status = "absent"
          /\ \A b \in Listings : b # l => listings'[b] = listings[b]
          /\ listings'[l].moderation = Decided(req[s].approve)
          /\ \E n \in Slots : Entered(n, [type |-> "listing", listing |-> l, status |-> Decided(req[s].approve)])
      BY <1>1, <2>2, <3>1, CreateEffect
    <3>3. a = l /\ Decided(req[s].approve) = "approved"
      BY <2>2, <3>2
    <3>4. PICK n \in Slots : Entered(n, [type |-> "listing", listing |-> l, status |-> "approved"])
      BY <3>2, <3>3
    <3>5. queue'[n] = [type |-> "listing", listing |-> l, status |-> "approved"]
      BY <2>1, <3>4 DEF Entered
    <3>6. queue'[n].type # "none" /\ queue'[n].listing = l
      BY <3>5
    <3>7. queue[n] # queue'[n]
      BY <1>1, <3>2, <3>6 DEF BaseInv, QueueRefers, Refers
    <3> QED
      BY <3>3, <3>5, <3>7
  <2>3. ASSUME NEW s \in Sessions, NEW l \in Listings, SubmitPlace(s, l) \/ CreatePlace(s, l),
               NEW a \in Listings, Approved(a)
        PROVE  Cause(a)
    <3>1. /\ listings[l].status = "absent" /\ listings'[l].kind = "place"
          /\ \A b \in Listings : b # l => listings'[b] = listings[b]
      BY <1>1, <2>3, PlaceEffect
    <3> QED
      BY <2>3, <3>1
  <2>4. ASSUME NEW s \in Sessions, CommitUpdate(s), NEW a \in Listings, Approved(a)
        PROVE  Cause(a)
    <3> DEFINE l == req[s].listing
    <3>1. /\ \A b \in Listings : b # l => listings'[b] = listings[b]
          /\ listings'[l].moderation = IF req[s].was = "approved" THEN "pending" ELSE listings[l].moderation
      BY <1>1, <2>4, UpdateEffect
    <3> QED
      BY <2>4, <3>1
  <2>5. ASSUME NEW s \in Sessions, CommitReview(s), NEW a \in Listings, Approved(a)
        PROVE  Cause(a)
    <3> DEFINE r == req[s]
               l == req[s].listing
               n == req[s].slot
    <3>1. /\ l \in Listings /\ n \in Slots /\ queue[n].listing = l
          /\ ~r.stale /\ queue[n].type = "listing" => queue[n].status = "pending"
          /\ \A b \in Listings : b # l => listings'[b] = listings[b]
          /\ listings'[l].moderation = IF queue[n].type = "listing" /\ r.was # Verdict(r)
                                       THEN Verdict(r) ELSE listings[l].moderation
          /\ queue' \in [Slots -> QueueRow]
          /\ queue'[n].type = queue[n].type /\ queue'[n].listing = l /\ queue'[n].status = Verdict(r)
      BY <1>1, <2>5, ReviewEffect
    <3>2. a = l
      BY <2>5, <3>1
    <3>3. queue[n].type = "listing" /\ Verdict(r) = "approved"
      BY <2>5, <3>1, <3>2
    <3>4. CASE r.stale
      <4>1. l \in history'.raced
        BY <1>1, <2>5, <3>3, <3>4, ReviewHistory
      <4> QED
        BY <3>2, <4>1
    <3>5. CASE ~r.stale
      <4>1. queue[n].status = "pending" /\ queue'[n].status = "approved"
        BY <3>1, <3>3, <3>5
      <4>2. queue'[n] \in QueueRow
        BY <3>1
      <4>3. queue'[n] = [type |-> "listing", listing |-> l, status |-> "approved"]
        BY <3>1, <3>3, <4>2 DEF QueueRow
      <4>4. queue[n] # queue'[n]
        BY <4>1
      <4> HIDE DEF r, n
      <4> QED
        BY <3>1, <3>2, <4>3, <4>4
    <3> QED
      BY <3>4, <3>5
  <2>6. ASSUME NEW a \in Listings, listings'[a].moderation = listings[a].moderation
        PROVE  ~Approved(a)
    BY <2>6
  <2>7. ASSUME listings' = listings \/ StatusesChange
        PROVE  \A l \in Listings : Approved(l) => Cause(l)
    BY <2>6, <2>7 DEF StatusesChange
  <2> HIDE DEF Approved, Cause
  <2> QED
    BY <2>1, <2>2, <2>3, <2>4, <2>5, <2>7 DEF Shape, BeginReport, CommitReport, RequestStep, CommitRate
<1>2. ASSUME UNCHANGED vars PROVE \A l \in Listings : Approved(l) => Cause(l)
  BY <1>2 DEF vars
<1>3. BaseInv /\ [Next]_vars => [\A l \in Listings : Approved(l) => Cause(l)]_vars
  BY <1>1
<1> QED
  BY <1>3, BaseStarts, BaseStep, PTL DEF Spec, OnlyTheQueueApproves

-----------------------------------------------------------------------------
(* The score.                                                              *)

\* What is counted of the tables once a request has flushed what it writes.
LEMMA AfterRowsCount ==
    ASSUME NEW rows \in [Listings -> ListingRow], NEW q, NEW r, r.op \in {"create", "review", "rate"},
           r.op # "rate" => r.listing \in Listings, NEW a \in Listings
    PROVE  IsCounted(AfterRows(rows, q, r)[a]) <=>
              IF r.op = "create" /\ a = r.listing THEN Decided(r.approve) = "approved" /\ Trusted(r.kind)
              ELSE /\ Trusted(rows[a].kind)
                   /\ IF r.op = "review" /\ a = r.listing /\ q[r.slot].type # "report" /\ r.was # Verdict(r)
                      THEN Verdict(r) = "approved" ELSE rows[a].moderation = "approved"
<1> DEFINE l == r.listing
           d == AfterRows(rows, q, r)
<1>1. CASE r.op = "rate"
  BY <1>1 DEF AfterRows, IsCounted
<1>2. CASE r.op = "create"
  <2> DEFINE row == [kind |-> r.kind, status |-> "active", moderation |-> Decided(r.approve), unseen |-> ~r.approve]
  <2>1. d = [rows EXCEPT ![l] = row]
    BY <1>2 DEF AfterRows
  <2>2. row.kind = r.kind /\ row.moderation = Decided(r.approve)
    OBVIOUS
  <2> HIDE DEF row
  <2>3. d[a] = IF a = l THEN row ELSE rows[a]
    BY <2>1
  <2> HIDE DEF d
  <2> QED
    BY <1>2, <2>2, <2>3 DEF IsCounted, d
<1>3. CASE r.op = "review" /\ q[r.slot].type = "report"
  <2> DEFINE row == [rows[l] EXCEPT !.status = IF r.approve THEN "off" ELSE rows[l].status]
  <2>1. d = [rows EXCEPT ![l] = row] /\ rows[l] \in ListingRow
    BY <1>3 DEF AfterRows
  <2>2. row.kind = rows[l].kind /\ row.moderation = rows[l].moderation
    BY <2>1 DEF ListingRow
  <2> HIDE DEF row
  <2>3. d[a] = IF a = l THEN row ELSE rows[a]
    BY <2>1
  <2> HIDE DEF d
  <2> QED
    BY <1>3, <2>2, <2>3 DEF IsCounted, d
<1>4. CASE r.op = "review" /\ q[r.slot].type # "report"
  <2> DEFINE decided == IF r.was # Verdict(r) THEN Verdict(r) ELSE rows[l].moderation
             row == [rows[l] EXCEPT !.moderation = decided, !.unseen = rows[l].unseen /\ r.stale]
  <2>1. d = [rows EXCEPT ![l] = row] /\ rows[l] \in ListingRow
    BY <1>4 DEF AfterRows
  <2>2. row.kind = rows[l].kind /\ row.moderation = decided
    BY <2>1 DEF ListingRow
  <2> HIDE DEF row
  <2>3. d[a] = IF a = l THEN row ELSE rows[a]
    BY <2>1
  <2> HIDE DEF d
  <2> QED
    BY <1>4, <2>2, <2>3 DEF IsCounted, d
<1> QED
  BY <1>1, <1>2, <1>3, <1>4

LEMMA AfterQueueCount ==
    ASSUME NEW q \in [Slots -> QueueRow], NEW r, r.op = "review" => r.slot \in Slots, NEW i \in Slots
    PROVE  IsUpheld(AfterQueue(q, r)[i]) <=>
              /\ q[i].type = "report"
              /\ IF r.op = "review" /\ i = r.slot THEN Verdict(r) = "approved" ELSE q[i].status = "approved"
<1>1. CASE r.op # "review"
  BY <1>1 DEF AfterQueue, IsUpheld
<1>2. CASE r.op = "review"
  <2> DEFINE v == Verdict(r)
             n == r.slot
             item == [q[n] EXCEPT !.status = v]
  <2>1. [q EXCEPT ![n].status = v][i] = IF i = n THEN item ELSE q[i]
    BY <1>2
  <2>2. q[n] \in QueueRow /\ AfterQueue(q, r) = [q EXCEPT ![n].status = v]
    BY <1>2 DEF AfterQueue
  <2> HIDE DEF v, n
  <2>3. item.type = q[n].type /\ item.status = v
    BY <2>2 DEF QueueRow
  <2> HIDE DEF item
  <2> QED
    BY <1>2, <2>1, <2>2, <2>3 DEF IsUpheld, v, n
<1> QED
  BY <1>1, <1>2

\* What a request has counted holds for as long as the counts do.
LEMMA AfterScore ==
    ASSUME NEW rows \in [Listings -> ListingRow], NEW rows2 \in [Listings -> ListingRow],
           NEW q \in [Slots -> QueueRow], NEW q2 \in [Slots -> QueueRow], NEW r, NEW r2, NEW x,
           r.op \in {"create", "review", "rate"}, SameRequest(r, r2),
           r.op # "rate" => r.listing \in Listings, r.op = "review" => r.slot \in Slots,
           r.op = "review" => q2[r.slot].type = q[r.slot].type /\ rows2[r.listing].kind = rows[r.listing].kind,
           \A a \in Listings : IsCounted(rows[a]) <=> IsCounted(rows2[a]),
           \A i \in Slots : IsUpheld(q[i]) <=> IsUpheld(q2[i])
    PROVE  ScoreAfter(rows, q, r, x) = ScoreAfter(rows2, q2, r2, x)
<1>1. /\ Verdict(r) = Verdict(r2) /\ Decided(r.approve) = Decided(r2.approve)
      /\ r2.op = r.op /\ r2.listing = r.listing /\ r2.slot = r.slot /\ r2.was = r.was /\ r2.kind = r.kind
      /\ r2.stars = r.stars
  BY DEF Verdict, SameRequest
<1>2. ASSUME NEW a \in Listings
      PROVE  IsCounted(AfterRows(rows, q, r)[a]) <=> IsCounted(AfterRows(rows2, q2, r2)[a])
  <2>1. IsCounted(AfterRows(rows, q, r)[a]) <=>
              IF r.op = "create" /\ a = r.listing THEN Decided(r.approve) = "approved" /\ Trusted(r.kind)
              ELSE /\ Trusted(rows[a].kind)
                   /\ IF r.op = "review" /\ a = r.listing /\ q[r.slot].type # "report" /\ r.was # Verdict(r)
                      THEN Verdict(r) = "approved" ELSE rows[a].moderation = "approved"
    BY AfterRowsCount
  <2>2. IsCounted(AfterRows(rows2, q2, r2)[a]) <=>
              IF r2.op = "create" /\ a = r2.listing THEN Decided(r2.approve) = "approved" /\ Trusted(r2.kind)
              ELSE /\ Trusted(rows2[a].kind)
                   /\ IF r2.op = "review" /\ a = r2.listing /\ q2[r2.slot].type # "report" /\ r2.was # Verdict(r2)
                      THEN Verdict(r2) = "approved" ELSE rows2[a].moderation = "approved"
    <3>1. r2.op \in {"create", "review", "rate"} /\ (r2.op # "rate" => r2.listing \in Listings)
      BY <1>1
    <3> QED
      BY <3>1, AfterRowsCount
  <2> QED
    BY <1>1, <2>1, <2>2 DEF IsCounted
<1>3. ASSUME NEW i \in Slots
      PROVE  IsUpheld(AfterQueue(q, r)[i]) <=> IsUpheld(AfterQueue(q2, r2)[i])
  <2>1. IsUpheld(AfterQueue(q, r)[i]) <=>
              /\ q[i].type = "report"
              /\ IF r.op = "review" /\ i = r.slot THEN Verdict(r) = "approved" ELSE q[i].status = "approved"
    BY AfterQueueCount
  <2>2. IsUpheld(AfterQueue(q2, r2)[i]) <=>
              /\ q2[i].type = "report"
              /\ IF r2.op = "review" /\ i = r2.slot THEN Verdict(r2) = "approved" ELSE q2[i].status = "approved"
    <3>1. r2.op = "review" => r2.slot \in Slots
      BY <1>1
    <3> QED
      BY <3>1, AfterQueueCount
  <2> QED
    BY <1>1, <2>1, <2>2 DEF IsUpheld
<1> DEFINE D == AfterRows(rows, q, r)
           D2 == AfterRows(rows2, q2, r2)
           E == AfterQueue(q, r)
           E2 == AfterQueue(q2, r2)
           y == IF r.op = "rate" THEN r.stars ELSE x
<1>4. /\ \A a \in Listings : IsCounted(D[a]) <=> IsCounted(D2[a])
      /\ \A i \in Slots : IsUpheld(E[i]) <=> IsUpheld(E2[i])
  BY <1>2, <1>3
<1>5. ScoreAfter(rows, q, r, x) = Score(D, E, y) /\ ScoreAfter(rows2, q2, r2, x) = Score(D2, E2, y)
  BY <1>1 DEF ScoreAfter
<1> HIDE DEF D, D2, E, E2, y
<1> QED
  BY <1>4, <1>5, ScoreOfCounts DEF IsCounted, IsUpheld

\* Listings whose return to the queue the score does not reflect yet.
RequeuedWait ==
    \A l \in history.requeued :
        listings[l].status # "absent" /\ Trusted(listings[l].kind) /\ listings[l].moderation # "approved"

CountsHold == \A s \in Sessions : CountRight(req[s])

ScoreInv == BaseInv /\ RequeuedWait /\ CountsHold /\ ScoreIsCurrent

LEMMA ScoreStarts == Init => ScoreInv
<1> SUFFICES ASSUME Init PROVE ScoreInv
  OBVIOUS
<1>1. Counted(listings) = {} /\ Upheld(queue) = {}
  BY Constants DEF Init, Counted, Upheld
<1>2. Score(listings, queue, rating) = Cardinality(Counted(listings)) + rating - 2 * Cardinality(Upheld(queue))
  BY DEF Score, Counted, Upheld
<1>3. Score(listings, queue, rating) = 0
  <2>1. rating = 0
    BY DEF Init
  <2> QED
    BY <1>1, <1>2, <2>1, FS_EmptySet
<1>4. history.requeued = {} /\ trust = 0
  BY DEF Init
<1>5. ScoreIsCurrent
  BY <1>3, <1>4, FS_EmptySet DEF ScoreIsCurrent
<1> QED
  BY <1>4, <1>5, BaseStarts, Constants DEF Init, ScoreInv, RequeuedWait, CountsHold, CountRight

\* A count in flight is kept by a step that changes no counts and takes no rating.
LEMMA CountKept ==
    ASSUME BaseInv, BaseInv', NEW t \in Sessions, CountRight(req[t]), Stay,
           req[t].op = "rate" \/ rating' = rating,
           \A a \in Listings : IsCounted(listings[a]) <=> IsCounted(listings'[a]),
           \A i \in Slots : IsUpheld(queue[i]) <=> IsUpheld(queue'[i]),
           req'[t].pc = "counted" /\ ~req'[t].dirty =>
              /\ SameRequest(req[t], req'[t])
              /\ req[t].op = "rate" /\ req'[t].stale => req[t].stale
              /\ req[t].slot \in Slots /\ queue[req[t].slot].type # "none" =>
                    queue'[req[t].slot].type = queue[req[t].slot].type
    PROVE  CountRight(req[t])'
<1> DEFINE r == req[t]
           r2 == req'[t]
<1>1. /\ listings \in [Listings -> ListingRow] /\ listings' \in [Listings -> ListingRow]
      /\ queue \in [Slots -> QueueRow] /\ queue' \in [Slots -> QueueRow]
  BY DEF BaseInv, TypeOK
<1>2. SUFFICES ASSUME r2.pc = "counted", ~r2.dirty, Recomputes(r)'
               PROVE  r2.score = ScoreAfter(listings', queue', r2, rating') /\ (r2.op = "rate" => ~r2.stale)
  BY DEF CountRight
<1>3. /\ SameRequest(r, r2) /\ r2.op = r.op /\ r.pc = "counted" /\ ~r.dirty /\ r2.score = r.score
      /\ r2.listing = r.listing /\ r2.stars = r.stars
      /\ r.op = "rate" /\ r2.stale => r.stale
  BY <1>2 DEF SameRequest
<1>4. Copied(r)
  BY DEF BaseInv, RequestsCopied
<1>5. r.op \in {"create", "review", "rate"}
  BY <1>2, <1>3 DEF Recomputes
<1>6. r.op # "rate" => r.listing \in Listings
  BY <1>4, <1>5 DEF Copied
<1>7. r.op = "review" =>
         /\ r.slot \in Slots /\ queue'[r.slot].type = queue[r.slot].type
         /\ listings'[r.listing].kind = listings[r.listing].kind
  BY <1>2, <1>4 DEF Copied, Stay
<1>8. Recomputes(r)
  BY <1>2, <1>3, <1>7 DEF Recomputes
<1>9. r.score = ScoreAfter(listings, queue, r, rating) /\ (r.op = "rate" => ~r.stale)
  BY <1>3, <1>8 DEF CountRight
<1>10. ScoreAfter(listings, queue, r, rating) = ScoreAfter(listings, queue, r, rating')
  BY DEF ScoreAfter
<1>11. ScoreAfter(listings, queue, r, rating') = ScoreAfter(listings', queue', r2, rating')
  BY <1>1, <1>3, <1>5, <1>6, <1>7, AfterScore
<1> QED
  BY <1>3, <1>9, <1>10, <1>11

\* A step that changes neither the counts nor what was counted.
LEMMA ScoreKept ==
    ASSUME ScoreInv, BaseInv', Stay, rating' = rating, trust' = trust,
           history'.requeued = history.requeued, history'.miscounted = history.miscounted,
           \A a \in Listings : IsCounted(listings[a]) <=> IsCounted(listings'[a]),
           \A i \in Slots : IsUpheld(queue[i]) <=> IsUpheld(queue'[i]),
           CountsHold'
    PROVE  ScoreInv'
<1>1. Score(listings, queue, rating) = Score(listings', queue', rating')
  BY ScoreOfCounts DEF IsCounted, IsUpheld
<1>2. ScoreIsCurrent'
  BY <1>1 DEF ScoreInv, ScoreIsCurrent
<1>3. history.requeued \subseteq Listings
  BY DEF ScoreInv, BaseInv, TypeOK, History
<1>4. RequeuedWait'
  <2>1. ASSUME NEW l \in history.requeued
        PROVE  listings'[l].status # "absent" /\ Trusted(listings'[l].kind) /\ listings'[l].moderation # "approved"
    <3>1. l \in Listings /\ listings[l].status # "absent" /\ Trusted(listings[l].kind)
          /\ listings[l].moderation # "approved"
      BY <1>3 DEF ScoreInv, RequeuedWait
    <3>2. listings'[l].status # "absent" /\ listings'[l].kind = listings[l].kind
      BY <3>1 DEF Stay
    <3> QED
      BY <3>1, <3>2 DEF IsCounted
  <2> QED
    BY <2>1 DEF RequeuedWait
<1> QED
  BY <1>2, <1>4 DEF ScoreInv

\* A step that computes the score anew: what is written is what was counted, and that
\* holds, or the step owns that it does not.
LEMMA ScoreComputed ==
    ASSUME ScoreInv, BaseInv', NEW s \in Sessions, req[s].pc = "counted", Recomputes(req[s]),
           WriteScore(req[s]), history'.requeued = {},
           history'.miscounted <=> (req[s].dirty \/ (req[s].score = req[s].base /\ trust # req[s].base)),
           ~req[s].dirty /\ (req[s].op = "rate" => ~req[s].stale) =>
              ScoreAfter(listings, queue, req[s], rating) = Score(listings', queue', rating'),
           CountsHold'
    PROVE  ScoreInv'
<1>1. Score(listings', queue', rating') \in Int
  <2>1. rating' \in 0..MaxRating
    BY DEF BaseInv, TypeOK
  <2>2. Score(listings', queue', rating') \in Scores
    BY <2>1, ScoreIsBounded
  <2> QED
    BY <2>2 DEF Scores
<1>2. history'.miscounted \/ trust' = Score(listings', queue', rating')
  <2>1. CASE req[s].dirty
    BY <2>1
  <2>2. CASE ~req[s].dirty
    <3>1. req[s].score = ScoreAfter(listings, queue, req[s], rating) /\ (req[s].op = "rate" => ~req[s].stale)
      BY <2>2 DEF ScoreInv, CountsHold, CountRight
    <3>2. req[s].score = Score(listings', queue', rating')
      BY <2>2, <3>1
    <3> QED
      BY <3>2 DEF WriteScore
  <2> QED
    BY <2>1, <2>2
<1>3. ScoreIsCurrent'
  BY <1>1, <1>2, FS_EmptySet DEF ScoreIsCurrent
<1> QED
  BY <1>3 DEF ScoreInv, RequeuedWait

\* A row entered without a verdict for a report counts for nothing.
LEMMA EnteredCounts ==
    ASSUME queue \in [Slots -> QueueRow], NEW n, NEW row \in QueueRow, ~IsUpheld(row), Entered(n, row)
    PROVE  /\ \A i \in Slots : IsUpheld(queue[i]) <=> IsUpheld(queue'[i])
           /\ \A t \in Sessions : req[t].slot \in Slots /\ queue[req[t].slot].type # "none" =>
                 queue'[req[t].slot].type = queue[req[t].slot].type
<1>1. /\ n \in Slots /\ queue'[n] = row /\ \A q \in Slots : q # n => queue'[q] = queue[q]
      /\ \A t \in Sessions : req[t].slot \in Slots /\ queue[req[t].slot].type # "none" =>
            queue'[req[t].slot] = queue[req[t].slot]
  BY EnteredKeeps
<1>2. ~IsUpheld(queue[n])
  BY DEF Entered, IsUpheld
<1> QED
  BY <1>1, <1>2

\* A request that ends leaves no count unmarked if counts changed, and keeps the others
\* if they did not.
LEMMA FinishCounts ==
    ASSUME ScoreInv, BaseInv', NEW s \in Sessions, NEW touched, NEW counts \in BOOLEAN,
           Finish(s, touched, counts),
           \/ counts
           \/ /\ Stay /\ rating' = rating /\ req[s].op # "rate"
              /\ \A a \in Listings : IsCounted(listings[a]) <=> IsCounted(listings'[a])
              /\ \A i \in Slots : IsUpheld(queue[i]) <=> IsUpheld(queue'[i])
              /\ \A t \in Sessions : req[t].slot \in Slots /\ queue[req[t].slot].type # "none" =>
                    queue'[req[t].slot].type = queue[req[t].slot].type
    PROVE  CountsHold'
<1>1. req \in [Sessions -> Request] /\ Idle \in Request /\ BaseInv
  BY Constants DEF ScoreInv, BaseInv, TypeOK
<1>2. /\ req'[s] = Idle
      /\ \A t \in Sessions : t # s =>
            /\ SameRequest(req[t], req'[t])
            /\ req[t].op = "rate" /\ req'[t].stale =>
                  req[t].stale \/ (req[t].pc = "counted" /\ req[s].op = "rate")
            /\ req[t].pc = "counted" /\ counts => req'[t].dirty
  BY <1>1, FinishMarks
<1>3. ASSUME NEW t \in Sessions PROVE CountRight(req[t])'
  <2>1. CASE t = s
    BY <1>2, <2>1, Constants DEF CountRight
  <2>2. CASE t # s /\ counts
    BY <1>2, <2>2 DEF CountRight, SameRequest
  <2>3. CASE t # s /\ ~counts
    <3>1. CountRight(req[t])
      BY DEF ScoreInv, CountsHold
    <3>2. /\ SameRequest(req[t], req'[t])
          /\ req[t].op = "rate" /\ req'[t].stale => req[t].stale
      BY <1>2, <2>3
    <3> QED
      BY <1>1, <2>3, <3>1, <3>2, CountKept
  <2> QED
    BY <2>1, <2>2, <2>3
<1> QED
  BY <1>3 DEF CountsHold

LEMMA CreateScore ==
    ASSUME ScoreInv, BaseInv', NEW s \in Sessions, CommitCreate(s), NEW l \in Listings, l = req[s].listing
    PROVE  ScoreInv'
<1> DEFINE r == req[s]
           approve == req[s].approve
           item == [type |-> "listing", listing |-> l, status |-> Decided(approve)]
<1>0. BaseInv /\ TypeOK /\ queue \in [Slots -> QueueRow] /\ history \in History
  BY DEF ScoreInv, BaseInv, TypeOK
<1>1. /\ r.op = "create" /\ r.pc = "counted" /\ listings[l].status = "absent" /\ approve \in BOOLEAN
      /\ \A a \in Listings : a # l => listings'[a] = listings[a]
      /\ listings'[l].moderation = Decided(approve)
      /\ \E n \in Slots : Entered(n, item)
  BY <1>0, CreateEffect
<1>2. /\ WriteScore(r) /\ rating' = rating /\ history' = Recounted(r) /\ Finish(s, {}, approve)
      /\ listings' = Created(r)
  BY DEF CommitCreate
<1>3. /\ history'.requeued = {}
      /\ history'.miscounted <=> (r.dirty \/ (r.score = r.base /\ trust # r.base))
  BY <1>0, <1>2, RecountTypes
<1>4. item \in QueueRow /\ ~IsUpheld(item)
  BY <1>1 DEF QueueRow, Moderation, IsUpheld, Decided
<1> HIDE DEF item
<1>5. /\ \A i \in Slots : IsUpheld(queue[i]) <=> IsUpheld(queue'[i])
      /\ \A t \in Sessions : req[t].slot \in Slots /\ queue[req[t].slot].type # "none" =>
            queue'[req[t].slot].type = queue[req[t].slot].type
  BY <1>0, <1>1, <1>4, EnteredCounts
<1>6. Stay /\ listings[l] = NoListing
  BY <1>0, <1>1 DEF Stay, BaseInv, RowsAreOfAKind
<1>7. ~approve => \A a \in Listings : IsCounted(listings[a]) <=> IsCounted(listings'[a])
  BY <1>1, <1>6, Constants DEF IsCounted, Decided
<1>8. CountsHold'
  BY <1>1, <1>2, <1>5, <1>6, <1>7, FinishCounts
<1>9. ScoreAfter(listings, queue, r, rating) = Score(listings', queue', rating')
  <2>1. ScoreAfter(listings, queue, r, rating) = Score(listings', queue, rating)
    BY <1>1, <1>2 DEF ScoreAfter, AfterRows, AfterQueue, Created
  <2>2. Score(listings', queue, rating) = Score(listings', queue', rating)
    BY <1>5, ScoreOfCounts DEF IsUpheld
  <2> QED
    BY <1>2, <2>1, <2>2
<1>10. Recomputes(r)
  BY <1>1 DEF Recomputes
<1> QED
  BY <1>1, <1>2, <1>3, <1>8, <1>9, <1>10, ScoreComputed

LEMMA RateScore ==
    ASSUME ScoreInv, BaseInv', NEW s \in Sessions, NEW stars \in 1..MaxRating, CommitRate(s, stars)
    PROVE  ScoreInv'
<1> DEFINE r == req[s]
<1>1. /\ r.op = "rate" /\ r.pc = "counted" /\ (stars = r.stars \/ r.stale) /\ rating' = stars
      /\ WriteScore(r) /\ history' = Recounted(r) /\ Finish(s, {}, TRUE) /\ TRUE \in BOOLEAN
      /\ UNCHANGED <<listings, queue>> /\ TypeOK
  BY DEF CommitRate, ScoreInv, BaseInv
<1>2. /\ history'.requeued = {}
      /\ history'.miscounted <=> (r.dirty \/ (r.score = r.base /\ trust # r.base))
  BY <1>1, RecountTypes
<1>3. CountsHold'
  BY <1>1, FinishCounts
<1>4. ~r.stale => ScoreAfter(listings, queue, r, rating) = Score(listings', queue', rating')
  BY <1>1 DEF ScoreAfter, AfterRows, AfterQueue
<1>5. Recomputes(r)
  BY <1>1 DEF Recomputes
<1> QED
  BY <1>1, <1>2, <1>3, <1>4, <1>5, ScoreComputed

LEMMA PlaceScore ==
    ASSUME ScoreInv, BaseInv', NEW s \in Sessions, NEW l \in Listings, SubmitPlace(s, l) \/ CreatePlace(s, l)
    PROVE  ScoreInv'
<1> DEFINE item == [type |-> "listing", listing |-> l, status |-> "pending"]
<1>0. BaseInv /\ queue \in [Slots -> QueueRow]
  BY DEF ScoreInv, BaseInv, TypeOK
<1>1. /\ listings[l].status = "absent"
      /\ UNCHANGED <<rating, trust, req, history>>
      /\ \A a \in Listings : a # l => listings'[a] = listings[a]
      /\ listings'[l].kind = "place"
      /\ queue' = queue \/ \E n \in Slots : Entered(n, item)
  BY <1>0, PlaceEffect
<1>2. item \in QueueRow /\ ~IsUpheld(item)
  BY DEF QueueRow, Moderation, IsUpheld
<1> HIDE DEF item
<1>3. /\ \A i \in Slots : IsUpheld(queue[i]) <=> IsUpheld(queue'[i])
      /\ \A t \in Sessions : req[t].slot \in Slots /\ queue[req[t].slot].type # "none" =>
            queue'[req[t].slot].type = queue[req[t].slot].type
  <2>1. CASE queue' = queue
    BY <2>1
  <2>2. CASE \E n \in Slots : Entered(n, item)
    BY <1>0, <1>2, <2>2, EnteredCounts
  <2> QED
    BY <1>1, <2>1, <2>2
<1>4. listings[l] = NoListing
  BY <1>0, <1>1 DEF BaseInv, RowsAreOfAKind
<1>5. ~IsCounted(listings[l]) /\ ~IsCounted(listings'[l])
  BY <1>1, <1>4, Constants DEF IsCounted, Trusted
<1>6. Stay
  BY <1>1 DEF Stay
<1>7. \A a \in Listings : IsCounted(listings[a]) <=> IsCounted(listings'[a])
  BY <1>1, <1>5
<1>8. ASSUME NEW t \in Sessions PROVE CountRight(req[t])'
  <2>1. CountRight(req[t]) /\ SameRequest(req[t], req'[t]) /\ (req'[t].stale => req[t].stale)
    BY <1>1 DEF ScoreInv, CountsHold, SameRequest
  <2> QED
    BY <1>0, <1>1, <1>3, <1>6, <1>7, <2>1, CountKept
<1>9. CountsHold'
  BY <1>8 DEF CountsHold
<1> QED
  BY <1>1, <1>3, <1>6, <1>7, <1>9, ScoreKept

LEMMA CommitUpdateScore ==
    ASSUME ScoreInv, BaseInv', NEW s \in Sessions, CommitUpdate(s), NEW l \in Listings, l = req[s].listing
    PROVE  ScoreInv'
<1> DEFINE r == req[s]
           item == [type |-> "listing", listing |-> l, status |-> "pending"]
<1>0. /\ BaseInv /\ queue \in [Slots -> QueueRow] /\ history \in History /\ rating \in 0..MaxRating
      /\ trust \in Int
  BY DEF ScoreInv, BaseInv, TypeOK, Scores
<1>1. /\ r.op = "update" /\ listings[l].status # "absent" /\ listings[l].kind # "place"
      /\ \A a \in Listings : a # l => listings'[a] = listings[a]
      /\ listings'[l].kind = listings[l].kind /\ listings'[l].status = listings[l].status
      /\ listings'[l].moderation = IF r.was = "approved" THEN "pending" ELSE listings[l].moderation
      /\ queue' = queue \/ \E n \in Slots : Entered(n, item)
  BY <1>0, UpdateEffect
<1>2. /\ history'.requeued = IF r.was = "approved" /\ listings[l].moderation = "approved"
                             THEN history.requeued \cup {l} ELSE history.requeued
      /\ history'.miscounted = history.miscounted
  BY <1>0, UpdateHistory
<1>3. /\ rating' = rating /\ trust' = trust /\ Finish(s, {l}, r.was = "approved")
      /\ (r.was = "approved") \in BOOLEAN
  BY DEF CommitUpdate, Requeues
<1>4. item \in QueueRow /\ ~IsUpheld(item)
  BY <1>1 DEF QueueRow, Moderation, IsUpheld
<1> HIDE DEF item
<1>5. /\ \A i \in Slots : IsUpheld(queue[i]) <=> IsUpheld(queue'[i])
      /\ \A t \in Sessions : req[t].slot \in Slots /\ queue[req[t].slot].type # "none" =>
            queue'[req[t].slot].type = queue[req[t].slot].type
  <2>1. CASE queue' = queue
    BY <2>1
  <2>2. CASE \E n \in Slots : Entered(n, item)
    BY <1>0, <1>4, <2>2, EnteredCounts
  <2> QED
    BY <1>1, <2>1, <2>2
<1>6. Stay
  BY <1>1 DEF Stay
<1>7. r.was # "approved" => \A a \in Listings : IsCounted(listings[a]) <=> IsCounted(listings'[a])
  BY <1>1 DEF IsCounted
<1>8. CountsHold'
  BY <1>1, <1>3, <1>5, <1>6, <1>7, FinishCounts
<1>9. CASE ~(r.was = "approved" /\ listings[l].moderation = "approved")
  <2>1. \A a \in Listings : IsCounted(listings[a]) <=> IsCounted(listings'[a])
    BY <1>1, <1>9 DEF IsCounted
  <2> QED
    BY <1>2, <1>3, <1>5, <1>6, <1>8, <1>9, <2>1, ScoreKept
<1>10. CASE r.was = "approved" /\ listings[l].moderation = "approved"
  <2>1. Trusted(listings[l].kind) /\ listings'[l].moderation = "pending"
    BY <1>1, <1>10 DEF Trusted
  <2>2. Score(listings', queue', rating) = Score(listings, queue, rating) - 1
    BY <1>0, <1>1, <1>5, <1>10, <2>1, ScoreLosesOne DEF IsUpheld
  <2>3. l \notin history.requeued /\ history'.requeued = history.requeued \cup {l}
    BY <1>2, <1>10 DEF ScoreInv, RequeuedWait
  <2>4. IsFiniteSet(history.requeued)
    BY <1>0, Constants, FS_Subset DEF History
  <2>5. Cardinality(history'.requeued) = Cardinality(history.requeued) + 1
    BY <2>3, <2>4, FS_AddElement
  <2>6. Cardinality(history.requeued) \in Nat /\ Score(listings, queue, rating) \in Int
    BY <1>0, <2>4, FS_CardinalityType, ScoreIsBounded DEF Scores
  <2>7. ScoreIsCurrent'
    BY <1>2, <1>3, <2>2, <2>5, <2>6 DEF ScoreInv, ScoreIsCurrent
  <2>8. RequeuedWait'
    <3>1. ASSUME NEW a \in history.requeued \cup {l}
          PROVE  listings'[a].status # "absent" /\ Trusted(listings'[a].kind) /\ listings'[a].moderation # "approved"
      <4>1. CASE a = l
        BY <1>1, <2>1, <4>1
      <4>2. CASE a # l
        <5>1. a \in history.requeued /\ a \in Listings
          BY <1>0, <4>2 DEF History
        <5> QED
          BY <1>1, <4>2, <5>1 DEF ScoreInv, RequeuedWait
      <4> QED
        BY <4>1, <4>2
    <3> QED
      BY <2>3, <3>1 DEF RequeuedWait
  <2> QED
    BY <1>8, <2>7, <2>8 DEF ScoreInv
<1> QED
  BY <1>9, <1>10

LEMMA CommitReviewScore ==
    ASSUME ScoreInv, BaseInv', NEW s \in Sessions, CommitReview(s)
    PROVE  ScoreInv'
<1> DEFINE r == req[s]
           l == req[s].listing
           n == req[s].slot
           trusted == Trusted(listings[l].kind)
           touched == IF queue[n].type = "listing" THEN {l} ELSE {}
<1>0. BaseInv /\ queue \in [Slots -> QueueRow] /\ history \in History
  BY DEF ScoreInv, BaseInv, TypeOK
<1>1. /\ r.op = "review" /\ r.pc = "counted" /\ l \in Listings /\ n \in Slots /\ listings[l].status # "absent"
      /\ queue[n].listing = l /\ queue[n].type \in {"listing", "report"}
      /\ queue[n].type = "report" => Reportable(listings[l].kind)
      /\ \A a \in Listings : a # l => listings'[a] = listings[a]
      /\ listings'[l].kind = listings[l].kind /\ listings'[l].status # "absent"
      /\ \A q \in Slots : q # n => queue'[q] = queue[q]
      /\ queue'[n].type = queue[n].type
  BY <1>0, ReviewEffect
<1>2. /\ history'.requeued = IF trusted THEN {} ELSE history.requeued
      /\ trusted => (history'.miscounted <=> (r.dirty \/ (r.score = r.base /\ trust # r.base)))
      /\ ~trusted => history'.miscounted = history.miscounted
  BY <1>0, ReviewHistory
<1>3. /\ rating' = rating /\ (trusted => WriteScore(r)) /\ (~trusted => trust' = trust)
      /\ Finish(s, touched, trusted) /\ trusted \in BOOLEAN
      /\ listings' = DecidedListings(r) /\ queue' = DecidedQueue(r)
  BY DEF CommitReview, Trusted
<1>4. Stay /\ \A q \in Slots : queue'[q].type = queue[q].type
  BY <1>1 DEF Stay
<1>5. ~trusted =>
         /\ \A i \in Slots : IsUpheld(queue[i]) <=> IsUpheld(queue'[i])
         /\ \A a \in Listings : IsCounted(listings[a]) <=> IsCounted(listings'[a])
  <2> SUFFICES ASSUME ~trusted
               PROVE  /\ \A i \in Slots : IsUpheld(queue[i]) <=> IsUpheld(queue'[i])
                      /\ \A a \in Listings : IsCounted(listings[a]) <=> IsCounted(listings'[a])
    OBVIOUS
  <2>1. queue[n].type = "listing"
    BY <1>1 DEF Reportable, Trusted
  <2>2. \A i \in Slots : IsUpheld(queue[i]) <=> IsUpheld(queue'[i])
    BY <1>1, <2>1 DEF IsUpheld
  <2>3. \A a \in Listings : IsCounted(listings[a]) <=> IsCounted(listings'[a])
    BY <1>1 DEF IsCounted
  <2> QED
    BY <2>2, <2>3
<1>6. CountsHold'
  <2> HIDE DEF touched, trusted
  <2> QED
    BY <1>1, <1>3, <1>4, <1>5, FinishCounts
<1>7. CASE trusted
  <2>1. DecidedListings(r) = AfterRows(listings, queue, r)
    BY <1>1 DEF DecidedListings, AfterRows, Writes
  <2>2. DecidedQueue(r) = AfterQueue(queue, r)
    BY <1>1 DEF DecidedQueue, AfterQueue
  <2>3. ScoreAfter(listings, queue, r, rating) = Score(listings', queue', rating')
    BY <1>1, <1>3, <2>1, <2>2 DEF ScoreAfter
  <2>4. Recomputes(r)
    BY <1>1, <1>7 DEF Recomputes
  <2> QED
    BY <1>1, <1>2, <1>3, <1>6, <1>7, <2>3, <2>4, ScoreComputed
<1>8. CASE ~trusted
  BY <1>2, <1>3, <1>4, <1>5, <1>6, <1>8, ScoreKept
<1> QED
  BY <1>7, <1>8

LEMMA ScoreStep == ScoreInv /\ [Next]_vars => ScoreInv'
<1> SUFFICES ASSUME ScoreInv, [Next]_vars PROVE ScoreInv'
  OBVIOUS
<1>1. BaseInv' /\ BaseInv /\ queue \in [Slots -> QueueRow] /\ history \in History /\ TypeOK
      /\ req \in [Sessions -> Request]
  BY BaseStep DEF ScoreInv, BaseInv, TypeOK
<1>2. CASE UNCHANGED vars
  BY <1>1, <1>2 DEF vars, ScoreInv, RequeuedWait, CountsHold, CountRight, Recomputes, ScoreIsCurrent
\* A request that loads rows, counts, or ends, and leaves the tables.
<1>3. ASSUME NEW s \in Sessions, NEW r, req' = [req EXCEPT ![s] = r], CountRight(r),
             UNCHANGED <<listings, queue, rating, trust>>,
             history'.requeued = history.requeued, history'.miscounted = history.miscounted
      PROVE  ScoreInv'
  <2>1. \A t \in Sessions : CountRight(req'[t])
    BY <1>1, <1>3 DEF ScoreInv, CountsHold
  <2>2. CountsHold'
    BY <1>3, <2>1 DEF CountsHold, CountRight, Recomputes
  <2>3. Stay
    BY <1>3 DEF Stay
  <2> QED
    BY <1>1, <1>3, <2>2, <2>3, ScoreKept
<1>4. ASSUME NEW s \in Sessions, RequestStep(s)
      PROVE  ScoreInv'
  BY <1>3, <1>4 DEF RequestStep
<1>5. ASSUME NEW s \in Sessions, NEW l \in Listings, BeginReport(s, l)
      PROVE  ScoreInv'
  <2>1. PICK r \in Request :
           req' = [req EXCEPT ![s] = r] /\ r.op = "report" /\ r.pc = "loaded" /\ r.listing = l
    BY <1>1, <1>5, ReportLoads
  <2>2. CountRight(r)
    BY <2>1 DEF CountRight
  <2>3. /\ UNCHANGED <<listings, queue, rating, trust>>
        /\ history'.requeued = history.requeued /\ history'.miscounted = history.miscounted
    BY <1>1, <1>5, ReportLoads
  <2> QED
    BY <1>3, <2>1, <2>2, <2>3
<1>6. ASSUME NEW s \in Sessions, CommitReport(s)
      PROVE  ScoreInv'
  <2> DEFINE l == req[s].listing
             item == [type |-> "report", listing |-> l, status |-> "pending"]
  <2>1. /\ req[s].op = "report" /\ FreeSlots # {} /\ queue' = Put("report", l, "pending")
        /\ req' = [req EXCEPT ![s] = Idle] /\ UNCHANGED <<listings, rating, trust, history>>
    BY <1>6 DEF CommitReport
  <2>2. l \in Listings
    BY <1>1, <2>1 DEF BaseInv, RequestsCopied, Copied
  <2> HIDE DEF l
  <2>3. PICK n \in Slots : Entered(n, item)
    BY <2>1, PutEnters
  <2>4. item \in QueueRow /\ ~IsUpheld(item)
    BY <2>2 DEF QueueRow, Moderation, IsUpheld
  <2> HIDE DEF item
  <2>5. /\ \A i \in Slots : IsUpheld(queue[i]) <=> IsUpheld(queue'[i])
        /\ \A t \in Sessions : req[t].slot \in Slots /\ queue[req[t].slot].type # "none" =>
              queue'[req[t].slot].type = queue[req[t].slot].type
    BY <1>1, <2>3, <2>4, EnteredCounts
  <2>6. Stay
    BY <2>1 DEF Stay
  <2>7. \A t \in Sessions : req'[t] = IF t = s THEN Idle ELSE req[t]
    BY <1>1, <2>1
  <2>8. ASSUME NEW t \in Sessions PROVE CountRight(req[t])'
    <3>1. req'[t].pc = "counted" => SameRequest(req[t], req'[t]) /\ (req'[t].stale => req[t].stale)
      BY <2>7, Constants DEF SameRequest
    <3>2. CountRight(req[t])
      BY DEF ScoreInv, CountsHold
    <3> QED
      BY <1>1, <2>1, <2>5, <2>6, <3>1, <3>2, CountKept
  <2>9. CountsHold'
    BY <2>8 DEF CountsHold
  <2> QED
    BY <1>1, <2>1, <2>5, <2>6, <2>9, ScoreKept
<1>7. CASE StatusesChange
  <2>1. Stay
    BY <1>7 DEF StatusesChange, Stay
  <2>2. \A a \in Listings : IsCounted(listings[a]) <=> IsCounted(listings'[a])
    BY <1>7 DEF StatusesChange, IsCounted
  <2>3. UNCHANGED <<queue, rating, trust, req, history>>
    BY <1>7 DEF StatusesChange
  <2>4. ASSUME NEW t \in Sessions PROVE CountRight(req[t])'
    <3>1. CountRight(req[t]) /\ SameRequest(req[t], req'[t]) /\ (req'[t].stale => req[t].stale)
      BY <2>3 DEF ScoreInv, CountsHold, SameRequest
    <3> QED
      BY <1>1, <2>1, <2>2, <2>3, <3>1, CountKept
  <2>5. CountsHold'
    BY <2>4 DEF CountsHold
  <2> QED
    BY <1>1, <2>1, <2>2, <2>3, <2>5, ScoreKept
<1>8. ASSUME NEW s \in Sessions, CommitCreate(s) \/ CommitUpdate(s)
      PROVE  ScoreInv'
  <2>1. PICK l \in Listings : l = req[s].listing
    BY <1>1, <1>8, CreateEffect, UpdateEffect
  <2> QED
    BY <1>1, <1>8, <2>1, CreateScore, CommitUpdateScore
<1>9. CASE Next
  <2>1. Shape
    BY <1>1, <1>9, StepHasShape
  <2> QED
    BY <1>1, <1>4, <1>5, <1>6, <1>7, <1>8, <2>1, PlaceScore, CommitReviewScore, RateScore DEF Shape
<1> QED
  BY <1>2, <1>9

\* trust.py:3 "score = approved listings + rounded avg rating - 2 x upheld reports", is
\* what the cache holds up to the listings sent back to the queue since, unless the
\* request that last left it had counted what changed before its commit, or had found
\* the score it had loaded and wrote nothing over what another had written meanwhile.
THEOREM ScoresAreCurrent == Spec => []ScoreIsCurrent
<1>1. ScoreInv => ScoreIsCurrent
  BY DEF ScoreInv
<1> QED
  BY <1>1, ScoreStarts, ScoreStep, PTL DEF Spec

-----------------------------------------------------------------------------
(* Reports.                                                                *)

OpenReport(q, l) == queue[q].type = "report" /\ queue[q].listing = l /\ queue[q].status = "pending"
Reporting(s, l) == req[s].op = "report" /\ req[s].listing = l

\* A listing is reported by one request that found no open report of it, or has one.
OpenOnce(l) ==
    /\ \A p, q \in Slots : OpenReport(p, l) /\ OpenReport(q, l) => p = q
    /\ \A s, t \in Sessions : Reporting(s, l) /\ Reporting(t, l) => s = t
    /\ \A s \in Sessions, q \in Slots : ~(Reporting(s, l) /\ OpenReport(q, l))

ReportInv == BaseInv /\ \A l \in Listings : l \in history.twice \/ OpenOnce(l)

LEMMA ReportStarts == Init => ReportInv
<1> SUFFICES ASSUME Init PROVE ReportInv
  OBVIOUS
<1>1. (\A q \in Slots : queue[q].type # "report") /\ (\A s \in Sessions : req[s].op # "report")
  BY Constants DEF Init
<1> QED
  BY <1>1, BaseStarts DEF ReportInv, OpenOnce, OpenReport, Reporting

\* A step that opens no report of a listing.
LEMMA ReportKept ==
    ASSUME ReportInv, BaseInv', history.twice \subseteq history'.twice,
           \A l \in Listings, q \in Slots : OpenReport(q, l)' => OpenReport(q, l),
           \A l \in Listings, s \in Sessions : Reporting(s, l)' => Reporting(s, l)
    PROVE  ReportInv'
BY DEF ReportInv, OpenOnce

LEMMA EnteredReports ==
    ASSUME queue \in [Slots -> QueueRow], NEW n, NEW row \in QueueRow, Entered(n, row), row.type = "listing"
    PROVE  \A l \in Listings, q \in Slots : OpenReport(q, l)' => OpenReport(q, l)
BY EnteredKeeps DEF OpenReport

LEMMA FinishReports ==
    ASSUME BaseInv, NEW s \in Sessions, NEW touched, NEW counts \in BOOLEAN, Finish(s, touched, counts)
    PROVE  \A l \in Listings, t \in Sessions : Reporting(t, l)' => Reporting(t, l)
<1>1. req \in [Sessions -> Request] /\ Idle \in Request
  BY Constants DEF BaseInv, TypeOK
<1>2. /\ req'[s] = Idle
      /\ \A t \in Sessions : t # s => req'[t].op = req[t].op /\ req'[t].listing = req[t].listing
  BY <1>1, FinishMarks DEF SameRequest
<1> QED
  BY <1>2, Constants DEF Reporting

LEMMA BeginReportOnce ==
    ASSUME ReportInv, BaseInv', NEW s \in Sessions, NEW l \in Listings, BeginReport(s, l)
    PROVE  ReportInv'
<1>0. BaseInv /\ req \in [Sessions -> Request]
  BY DEF ReportInv, BaseInv, TypeOK
<1>1. /\ queue' = queue /\ PendingRows("report", l) = {}
      /\ history'.twice = IF \E t \in Sessions : Reporting(t, l) THEN history.twice \cup {l} ELSE history.twice
  <2>1. queue' = queue /\ PendingRows("report", l) = {}
    BY DEF BeginReport
  <2> DEFINE twice == IF \E t \in Sessions : req[t].op = "report" /\ req[t].listing = l
                      THEN history.twice \cup {l} ELSE history.twice
  <2>2. history' = [history EXCEPT !.twice = twice] /\ history \in History
    BY <1>0 DEF BeginReport, BaseInv, TypeOK
  <2>3. history'.twice = twice
    <3> HIDE DEF twice
    <3> QED
      BY <2>2 DEF History
  <2> QED
    BY <2>1, <2>3 DEF Reporting
<1>2. PICK r \in Request :
         req' = [req EXCEPT ![s] = r] /\ r.op = "report" /\ r.pc = "loaded" /\ r.listing = l
  BY <1>0, ReportLoads
<1>3. \A t \in Sessions : req'[t] = IF t = s THEN r ELSE req[t]
  BY <1>0, <1>2
<1>4. \A q \in Slots : ~OpenReport(q, l)
  BY <1>1 DEF PendingRows, OpenReport
<1>5. ASSUME NEW a \in Listings PROVE a \in history'.twice \/ OpenOnce(a)'
  <2>1. CASE a # l
    BY <1>1, <1>2, <1>3, <2>1 DEF ReportInv, OpenOnce, OpenReport, Reporting
  <2>2. CASE a = l /\ \A t \in Sessions : ~Reporting(t, l)
    BY <1>1, <1>2, <1>3, <1>4, <2>2 DEF OpenOnce, OpenReport, Reporting
  <2>3. CASE a = l /\ ~(\A t \in Sessions : ~Reporting(t, l))
    BY <1>1, <2>3 DEF Reporting
  <2> QED
    BY <2>1, <2>2, <2>3
<1> QED
  BY <1>5 DEF ReportInv

LEMMA CommitReportOnce ==
    ASSUME ReportInv, BaseInv', NEW s \in Sessions, CommitReport(s)
    PROVE  ReportInv'
<1>0. BaseInv /\ queue \in [Slots -> QueueRow] /\ req \in [Sessions -> Request]
  BY DEF ReportInv, BaseInv, TypeOK
<1>1. req[s].op = "report" /\ req[s].listing \in Listings
  BY <1>0 DEF CommitReport, BaseInv, RequestsCopied, Copied
<1>2. PICK l \in Listings : l = req[s].listing
  BY <1>1
<1> DEFINE item == [type |-> "report", listing |-> l, status |-> "pending"]
<1>3. /\ FreeSlots # {} /\ queue' = Put("report", l, "pending")
      /\ req' = [req EXCEPT ![s] = Idle] /\ UNCHANGED history
  BY <1>2 DEF CommitReport
<1>4. PICK n \in Slots : Entered(n, item)
  BY <1>3, PutEnters
<1>5. item \in QueueRow /\ item.type = "report" /\ item.listing = l
  BY DEF QueueRow, Moderation
<1> HIDE DEF item
<1>6. queue'[n] = item /\ \A q \in Slots : q # n => queue'[q] = queue[q]
  BY <1>0, <1>4, <1>5, EnteredKeeps
<1>7. \A t \in Sessions : req'[t] = IF t = s THEN Idle ELSE req[t]
  BY <1>0, <1>3
<1>8. ASSUME NEW a \in Listings PROVE a \in history'.twice \/ OpenOnce(a)'
  <2>1. CASE a # l
    BY <1>3, <1>5, <1>6, <1>7, <2>1, Constants DEF ReportInv, OpenOnce, OpenReport, Reporting
  <2>2. CASE a = l
    <3>1. Reporting(s, l)
      BY <1>1, <1>2 DEF Reporting
    <3>2. l \in history.twice
            \/ (/\ \A q \in Slots : ~OpenReport(q, l)
                /\ \A t \in Sessions : Reporting(t, l) => t = s)
      BY <3>1 DEF ReportInv, OpenOnce
    <3>3. \A t \in Sessions : ~Reporting(t, l)' \/ (t # s /\ Reporting(t, l))
      BY <1>7, Constants DEF Reporting
    <3>4. \A q \in Slots : q # n /\ OpenReport(q, l)' => OpenReport(q, l)
      BY <1>6 DEF OpenReport
    <3> QED
      BY <1>3, <2>2, <3>2, <3>3, <3>4 DEF OpenOnce
  <2> QED
    BY <2>1, <2>2
<1> QED
  BY <1>8 DEF ReportInv

LEMMA ReportStep == ReportInv /\ [Next]_vars => ReportInv'
<1> SUFFICES ASSUME ReportInv, [Next]_vars PROVE ReportInv'
  OBVIOUS
<1>1. BaseInv' /\ BaseInv /\ queue \in [Slots -> QueueRow] /\ history \in History /\ TypeOK
      /\ req \in [Sessions -> Request]
  BY BaseStep DEF ReportInv, BaseInv, TypeOK
<1>2. ASSUME UNCHANGED queue PROVE \A l \in Listings, q \in Slots : OpenReport(q, l)' => OpenReport(q, l)
  BY <1>2 DEF OpenReport
<1>3. ASSUME UNCHANGED req PROVE \A l \in Listings, s \in Sessions : Reporting(s, l)' => Reporting(s, l)
  BY <1>3 DEF Reporting
<1>4. CASE UNCHANGED vars
  BY <1>1, <1>2, <1>3, <1>4, ReportKept DEF vars
<1>5. ASSUME NEW s \in Sessions, RequestStep(s)
      PROVE  ReportInv'
  <2>1. UNCHANGED <<queue, history>>
    BY <1>5 DEF RequestStep
  <2>2. PICK r \in Request : req' = [req EXCEPT ![s] = r] /\ r.op # "report"
    BY <1>5 DEF RequestStep
  <2>3. \A a \in Listings, t \in Sessions : Reporting(t, a)' => Reporting(t, a)
    BY <1>1, <2>2 DEF Reporting
  <2> QED
    BY <1>1, <1>2, <2>1, <2>3, ReportKept
<1>6. ASSUME NEW s \in Sessions, CommitCreate(s)
      PROVE  ReportInv'
  <2>1. PICK l \in Listings, approve \in BOOLEAN : l = req[s].listing /\ approve = req[s].approve
    BY <1>1, <1>6, CreateEffect
  <2> DEFINE item == [type |-> "listing", listing |-> l, status |-> Decided(approve)]
  <2>2. \E n \in Slots : Entered(n, item)
    BY <1>1, <1>6, <2>1, CreateEffect
  <2>3. item \in QueueRow /\ item.type = "listing"
    BY DEF QueueRow, Moderation, Decided
  <2> HIDE DEF item
  <2>4. \A a \in Listings, q \in Slots : OpenReport(q, a)' => OpenReport(q, a)
    BY <1>1, <2>2, <2>3, EnteredReports
  <2>5. Finish(s, {}, approve) /\ history' = Recounted(req[s])
    BY <1>6, <2>1 DEF CommitCreate
  <2>6. \A a \in Listings, t \in Sessions : Reporting(t, a)' => Reporting(t, a)
    BY <1>1, <2>5, FinishReports
  <2>7. history'.twice = history.twice
    BY <1>1, <2>5, RecountTypes
  <2> QED
    BY <1>1, <2>4, <2>6, <2>7, ReportKept
<1>7. ASSUME NEW s \in Sessions, NEW l \in Listings, SubmitPlace(s, l) \/ CreatePlace(s, l)
      PROVE  ReportInv'
  <2> DEFINE item == [type |-> "listing", listing |-> l, status |-> "pending"]
  <2>1. UNCHANGED <<req, history>> /\ (queue' = queue \/ \E n \in Slots : Entered(n, item))
    BY <1>1, <1>7, PlaceEffect
  <2>2. item \in QueueRow /\ item.type = "listing"
    BY DEF QueueRow, Moderation
  <2> HIDE DEF item
  <2>3. \A a \in Listings, q \in Slots : OpenReport(q, a)' => OpenReport(q, a)
    BY <1>1, <1>2, <2>1, <2>2, EnteredReports
  <2> QED
    BY <1>1, <1>3, <2>1, <2>3, ReportKept
<1>8. ASSUME NEW s \in Sessions, CommitUpdate(s)
      PROVE  ReportInv'
  <2>1. PICK l \in Listings : l = req[s].listing
    BY <1>1, <1>8, UpdateEffect
  <2> DEFINE item == [type |-> "listing", listing |-> l, status |-> "pending"]
  <2>2. queue' = queue \/ \E n \in Slots : Entered(n, item)
    BY <1>1, <1>8, <2>1, UpdateEffect
  <2>3. item \in QueueRow /\ item.type = "listing"
    BY DEF QueueRow, Moderation
  <2> HIDE DEF item
  <2>4. \A a \in Listings, q \in Slots : OpenReport(q, a)' => OpenReport(q, a)
    BY <1>1, <1>2, <2>2, <2>3, EnteredReports
  <2>5. Finish(s, {l}, Requeues(req[s])) /\ Requeues(req[s]) \in BOOLEAN
    BY <1>8, <2>1 DEF CommitUpdate, Requeues
  <2>6. \A a \in Listings, t \in Sessions : Reporting(t, a)' => Reporting(t, a)
    BY <1>1, <2>5, FinishReports
  <2>7. history'.twice = history.twice
    BY <1>1, <1>8, <2>1, UpdateHistory
  <2> QED
    BY <1>1, <2>4, <2>6, <2>7, ReportKept
<1>9. ASSUME NEW s \in Sessions, CommitReview(s)
      PROVE  ReportInv'
  <2> DEFINE r == req[s]
             l == req[s].listing
             n == req[s].slot
             touched == IF queue[n].type = "listing" THEN {l} ELSE {}
  <2>1. /\ n \in Slots /\ \A q \in Slots : q # n => queue'[q] = queue[q]
        /\ queue'[n].status = Verdict(r)
    BY <1>1, <1>9, ReviewEffect
  <2>2. Verdict(r) # "pending"
    BY DEF Verdict
  <2>3. \A a \in Listings, q \in Slots : OpenReport(q, a)' => OpenReport(q, a)
    BY <2>1, <2>2 DEF OpenReport
  <2>4. Finish(s, touched, Trusted(listings[l].kind)) /\ Trusted(listings[l].kind) \in BOOLEAN
    BY <1>9 DEF CommitReview, Trusted
  <2> HIDE DEF touched
  <2>5. \A a \in Listings, t \in Sessions : Reporting(t, a)' => Reporting(t, a)
    BY <1>1, <2>4, FinishReports
  <2>6. history'.twice = history.twice
    BY <1>1, <1>9, ReviewHistory
  <2> QED
    BY <1>1, <2>3, <2>5, <2>6, ReportKept
<1>10. ASSUME NEW s \in Sessions, NEW stars \in 1..MaxRating, CommitRate(s, stars)
       PROVE  ReportInv'
  <2>1. UNCHANGED queue /\ history' = Recounted(req[s]) /\ Finish(s, {}, TRUE) /\ TRUE \in BOOLEAN
    BY <1>10 DEF CommitRate
  <2>2. \A a \in Listings, t \in Sessions : Reporting(t, a)' => Reporting(t, a)
    BY <1>1, <2>1, FinishReports
  <2>3. history'.twice = history.twice
    BY <1>1, <2>1, RecountTypes
  <2> QED
    BY <1>1, <1>2, <2>1, <2>2, <2>3, ReportKept
<1>11. CASE StatusesChange
  BY <1>1, <1>2, <1>3, <1>11, ReportKept DEF StatusesChange
<1>12. CASE Next
  <2>1. Shape
    BY <1>1, <1>12, StepHasShape
  <2> QED
    BY <1>1, <1>5, <1>6, <1>7, <1>8, <1>9, <1>10, <1>11, <2>1, BeginReportOnce, CommitReportOnce DEF Shape
<1> QED
  BY <1>4, <1>12

\* reports.py:36 "you already reported this listing": two reports of a listing are
\* open only if the requests that made them were open together.
THEOREM ReportsAreOpenOnce == Spec => []OneOpenReport
<1>1. ReportInv => OneOpenReport
  <2> SUFFICES ASSUME ReportInv, NEW l \in Listings, l \notin history.twice
               PROVE  Cardinality(PendingRows("report", l)) <= 1
    BY DEF OneOpenReport
  <2>1. \A p, q \in PendingRows("report", l) : p = q
    BY DEF ReportInv, OpenOnce, OpenReport, PendingRows
  <2> QED
    BY <2>1, AtMostOne
<1> QED
  BY <1>1, ReportStarts, ReportStep, PTL DEF Spec
=============================================================================
