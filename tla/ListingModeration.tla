-------------------------- MODULE ListingModeration --------------------------
(***************************************************************************)
(* Listings of one seller (exchange listings, marketplace products, shops, *)
(* submitted places), the moderation queue they wait in, reports on them   *)
(* and the seller's trust score: modules/exchange, marketplace, shops,     *)
(* places, sellers and moderation.                                         *)
(*                                                                         *)
(* A request that loads rows and writes later is a step per statement that *)
(* reads what another can change; its last flush and its commit are one.   *)
(***************************************************************************)
EXTENDS Integers, FiniteSets

CONSTANTS
    Listings,
    Kinds,              \* of "exchange", "product", "shop", "place"
    Sessions,           \* requests in flight
    QueueSize,          \* bound: rows of moderation_queue that can be read again
    AutoApproveScore,   \* auto_approve_trust_score
    MaxRating,          \* bound: 5 in the code
    None

ASSUME ListingAssumption ==
    /\ Kinds \subseteq {"exchange", "product", "shop", "place"}
    /\ QueueSize \in Nat /\ AutoApproveScore \in Int /\ MaxRating \in 1..5
    /\ IsFiniteSet(Listings)
    /\ None \notin Listings

VARIABLES
    listings,   \* the four tables
    queue,      \* moderation_queue; a report's status is that of its row here
    rating,     \* rounded average of seller_reviews, 0 when there are none
    trust,      \* user_trust_scores.score of the seller
    req,        \* what each request has loaded and decided
    history     \* what the invariants except: see History

vars == <<listings, queue, rating, trust, req, history>>

Reportable(k) == k \in {"exchange", "product"}
Trusted(k) == k # "place"
Expires(k) == k = "exchange"

\* "off": sold, removed, expired, reported or (products, shops) hidden: not public.
Status == {"absent", "active", "off"}
Moderation == {"pending", "approved", "rejected"}

\* unseen: no review has decided on the content as it is now, which somebody other
\* than staff wrote and no automatic approval let through (history).
ListingRow == [kind : Kinds \cup {None}, status : Status, moderation : Moderation, unseen : BOOLEAN]
NoListing == [kind |-> None, status |-> "absent", moderation |-> "pending", unseen |-> FALSE]

Slots == 1..QueueSize
QueueRow == [type : {"none", "listing", "report"}, listing : Listings \cup {None}, status : Moderation]
NoRow == [type |-> "none", listing |-> None, status |-> "pending"]

Scores == -(2 * QueueSize)..(Cardinality(Listings) + MaxRating)

\* was: the listing's moderation as loaded; found: it had a pending queue row;
\* stars: the average with the new rating; base: the score as loaded, score: as
\* computed.
\* "flushed": its own change is written, for nobody else to see, and the score is
\* loaded; "counted": the score is computed.
\* stale: the moderation (history), or for a rating the average, has been written
\* since it was read; dirty: what the score was computed from has (history).
Op == {"none", "create", "update", "report", "review", "rate"}
Request == [op : Op, pc : {"idle", "loaded", "looked", "flushed", "counted"},
            listing : Listings \cup {None}, kind : Kinds \cup {None},
            slot : 0..QueueSize, was : Moderation, found : BOOLEAN, approve : BOOLEAN,
            stars : 0..MaxRating, base : Scores, score : Scores, stale : BOOLEAN, dirty : BOOLEAN]
Idle == [op |-> "none", pc |-> "idle", listing |-> None, kind |-> None, slot |-> 0,
         was |-> "pending", found |-> FALSE, approve |-> FALSE, stars |-> 0, base |-> 0,
         score |-> 0, stale |-> FALSE, dirty |-> FALSE]

\* raced: listings whose moderation was last written from an older copy;
\* requeued: listings sent back to the queue since the score was last computed;
\* miscounted: the score was last left by a request that had counted what changed
\* before it committed, or that found the score it had loaded and wrote nothing
\* over the one another had written meanwhile;
\* twice: listings two reports on which were open together.
History == [raced : SUBSET Listings, requeued : SUBSET Listings, miscounted : BOOLEAN,
            twice : SUBSET Listings]

TypeOK ==
    /\ listings \in [Listings -> ListingRow]
    /\ queue \in [Slots -> QueueRow]
    /\ rating \in 0..MaxRating
    /\ trust \in Scores
    /\ req \in [Sessions -> Request]
    /\ history \in History

Init ==
    /\ listings = [l \in Listings |-> NoListing]
    /\ queue = [q \in Slots |-> NoRow]
    /\ rating = 0
    /\ trust = 0
    /\ req = [s \in Sessions |-> Idle]
    /\ history = [raced |-> {}, requeued |-> {}, miscounted |-> FALSE, twice |-> {}]

-----------------------------------------------------------------------------
(* The score, the queue and the effect of a commit on requests in flight.    *)

\* approved listings + rounded average rating - 2 x upheld reports
Score(rows, q, r) ==
    Cardinality({l \in Listings : rows[l].moderation = "approved" /\ Trusted(rows[l].kind)}) + r
      - 2 * Cardinality({i \in Slots : q[i].type = "report" /\ q[i].status = "approved"})

\* A decided row is read again only as an upheld report, or by a review that has
\* loaded it: the place of any other is taken by the next row.
Spent(q) ==
    /\ queue[q].status # "pending"
    /\ queue[q].type = "report" => queue[q].status = "rejected"
    /\ \A s \in Sessions : req[s].slot # q
FreeSlots == {q \in Slots : queue[q].type = "none" \/ Spent(q)}
FreeSlot == CHOOSE q \in FreeSlots : \A p \in FreeSlots : q <= p
Put(type, l, status) == [queue EXCEPT ![FreeSlot] = [type |-> type, listing |-> l, status |-> status]]
PendingRows(type, l) ==
    {q \in Slots : queue[q].type = type /\ queue[q].listing = l /\ queue[q].status = "pending"}

\* The triggers on moderation_queue and listing_reports refuse a row about a
\* listing that is not in its table.
EntityExists(rows, l) == rows[l].kind \in Kinds
ListingRefExists(rows, l) == Reportable(rows[l].kind)

\* s is done; the requests that had loaded a listing of touched now hold an old
\* copy, and those that had counted have counted what is no longer so.
Finish(s, touched, counts) ==
    req' = [t \in Sessions |->
              IF t = s THEN Idle
              ELSE [req[t] EXCEPT !.stale = @ \/ (req[t].op \in {"update", "review"} /\ req[t].listing \in touched)
                                              \/ (req[t].op = "rate" /\ req[t].pc = "counted" /\ req[s].op = "rate"),
                                  !.dirty = @ \/ (req[t].pc = "counted" /\ counts)]]

-----------------------------------------------------------------------------
(* trust.recompute: load the score, count, write it if it differs.  The row    *)
(* exists (get_or_create); its UPDATE waits for another's and is one step with *)
(* the commit.                                                                 *)

\* s has flushed its change, as r says, and loads the score.
Flushed(s, r) ==
    /\ req' = [req EXCEPT ![s] = [r EXCEPT !.pc = "flushed", !.base = trust]]
    /\ UNCHANGED <<listings, queue, rating, trust, history>>

\* The counts see what s has flushed and what others have committed: rows, q, stars.
Count(s, rows, q, stars) ==
    /\ req' = [req EXCEPT ![s].pc = "counted", ![s].stars = stars, ![s].score = Score(rows, q, stars)]
    /\ UNCHANGED <<listings, queue, rating, trust, history>>

\* Only a column that differs from what was loaded is written.
WriteScore(r) == trust' = IF r.score # r.base THEN r.score ELSE trust

Recounted(r) ==
    [history EXCEPT !.requeued = {},
                    !.miscounted = r.dirty \/ (r.score = r.base /\ trust # r.base)]

-----------------------------------------------------------------------------
(* Creating and submitting.                                                  *)

\* Ids are not used twice, not even by requests in flight.
Fresh(l) ==
    /\ listings[l].status = "absent"
    /\ \A t \in Sessions : req[t].op = "create" => req[t].listing # l

\* enqueue_listing: the score decides whether the queue is skipped.
Create(s, l, k) ==
    /\ req[s] = Idle
    /\ k \in Kinds
    /\ Fresh(l)
    /\ Flushed(s, [Idle EXCEPT !.op = "create", !.listing = l, !.kind = k,
                               !.approve = trust >= AutoApproveScore])

Decided(approve) == IF approve THEN "approved" ELSE "pending"

Created(r) == [listings EXCEPT ![r.listing] =
                 [kind |-> r.kind, status |-> "active", moderation |-> Decided(r.approve),
                  unseen |-> ~r.approve]]

CountCreated(s) ==
    /\ req[s].op = "create" /\ req[s].pc = "flushed"
    /\ Count(s, Created(req[s]), queue, rating)

CommitCreate(s) ==
    LET r == req[s] IN
    /\ r.op = "create" /\ r.pc = "counted"
    /\ FreeSlots # {}
    /\ listings' = Created(r)
    /\ EntityExists(listings', r.listing)
    /\ queue' = Put("listing", r.listing, Decided(r.approve))
    /\ WriteScore(r)
    /\ history' = Recounted(r)
    /\ Finish(s, {}, r.approve)
    /\ UNCHANGED rating

\* Category, location, market and business have been found; translation follows.
CreateExchangeListing(s, l) == Create(s, l, "exchange")
CreateProduct(s, l) == Create(s, l, "product")
CreateShop(s, l) == Create(s, l, "shop")

SubmitPlace(s, l) ==
    /\ req[s] = Idle
    /\ "place" \in Kinds
    /\ Fresh(l)
    /\ FreeSlots # {}
    /\ listings' = [listings EXCEPT ![l] = [NoListing EXCEPT !.kind = "place", !.status = "active",
                                                            !.unseen = TRUE]]
    /\ queue' = Put("listing", l, "pending")
    /\ EntityExists(listings', l)
    /\ UNCHANGED <<rating, trust, req, history>>

\* create_place: staff publish without the queue.
CreatePlace(s, l) ==
    /\ req[s] = Idle
    /\ "place" \in Kinds
    /\ Fresh(l)
    /\ listings' = [listings EXCEPT ![l] = [NoListing EXCEPT !.kind = "place", !.status = "active",
                                                            !.moderation = "approved"]]
    /\ UNCHANGED <<queue, rating, trust, req, history>>

-----------------------------------------------------------------------------
(* Updating: the owner, or a moderator, changes content or status.           *)

\* The owner edits the content.
BeginUpdate(s, l) ==
    /\ req[s] = Idle
    /\ listings[l].status # "absent"
    /\ req' = [req EXCEPT ![s] = [Idle EXCEPT !.op = "update", !.pc = "loaded", !.listing = l,
                                              !.was = listings[l].moderation]]
    /\ UNCHANGED <<listings, queue, rating, trust, history>>

Requeues(r) == r.was = "approved"

\* reenqueue_after_edit looks for a row that already asks for a review.
LookForRow(s) ==
    /\ req[s].op = "update" /\ req[s].pc = "loaded"
    /\ Requeues(req[s])
    /\ req' = [req EXCEPT ![s].pc = "looked",
                          ![s].found = PendingRows("listing", req[s].listing) # {}]
    /\ UNCHANGED <<listings, queue, rating, trust, history>>

ReadyToUpdate(r) == r.op = "update" /\ r.pc = IF Requeues(r) THEN "looked" ELSE "loaded"

Updated(r) == [listings[r.listing] EXCEPT !.moderation = IF Requeues(r) THEN "pending" ELSE @,
                                          !.unseen = TRUE]

\* MUTANT: the decision is stored in place of the status it leads to
VerdictAsDecision(r) == IF r.approve THEN "approve" ELSE "reject"

Verdict(r) == IF r.approve THEN "approved" ELSE "rejected"

\* Does the review change the listing?  Only a column that differs is written.
Writes(r) == IF queue[r.slot].type = "report" THEN r.approve ELSE r.was # Verdict(r)

\* A review that has flushed its decision holds the rows it wrote until it commits.
\* That on a place flushes nothing before.
Holds(r) == r.op = "review" /\ r.pc \in {"flushed", "counted"} /\ Trusted(listings[r.listing].kind)
Unlocked(l) == \A t \in Sessions : Holds(req[t]) /\ Writes(req[t]) => req[t].listing # l

\* MUTANT: the edited listing keeps its place on the public site
CommitUpdateUnqueued(s) ==
    /\ ReadyToUpdate(req[s])
    /\ Unlocked(req[s].listing)
    /\ listings' = [listings EXCEPT ![req[s].listing].unseen = TRUE]
    /\ Finish(s, {req[s].listing}, FALSE)
    /\ UNCHANGED <<queue, rating, trust, history>>

\* MUTANT: the listing goes back to pending but nobody is asked to review it
CommitUpdateUnlisted(s) ==
    LET r == req[s] IN
    /\ ReadyToUpdate(r)
    /\ Unlocked(r.listing)
    /\ listings' = [listings EXCEPT ![r.listing] = Updated(r)]
    /\ history' = [history EXCEPT !.requeued = IF Requeues(r) THEN @ \cup {r.listing} ELSE @]
    /\ Finish(s, {r.listing}, Requeues(r))
    /\ UNCHANGED <<queue, rating, trust>>

\* reenqueue_after_edit does not recompute the score.
CommitUpdate(s) ==
    LET r == req[s] IN
    /\ ReadyToUpdate(r)
    /\ Unlocked(r.listing)
    /\ listings' = [listings EXCEPT ![r.listing] = Updated(r)]
    /\ IF Requeues(r) /\ ~r.found
       THEN EntityExists(listings, r.listing) /\ FreeSlots # {} /\ queue' = Put("listing", r.listing, "pending")
       ELSE UNCHANGED queue
    /\ history' = [history EXCEPT
                     !.requeued = IF Requeues(r) /\ listings[r.listing].moderation = "approved"
                                  THEN @ \cup {r.listing} ELSE @,
                     !.raced = IF r.stale THEN @ \cup {r.listing} ELSE @]
    /\ Finish(s, {r.listing}, Requeues(r))
    /\ UNCHANGED <<rating, trust>>

\* Another status, by update or remove: the column is written without regard to
\* the others, so load and commit are one step.  Nothing stops an owner from
\* putting a reported exchange listing back.
SetStatus(s, l, status) ==
    /\ req[s] = Idle
    /\ listings[l].status \notin {"absent", status}
    /\ Unlocked(l)
    /\ listings' = [listings EXCEPT ![l].status = status]
    /\ UNCHANGED <<queue, rating, trust, req, history>>

UpdateStatus(s, l) == \E status \in {"active", "off"} : SetStatus(s, l, status)

\* SELLER_STATUS_TRANSITIONS: active, sold, removed.
UpdateExchangeListing(s, l) ==
    listings[l].kind = "exchange" /\ (BeginUpdate(s, l) \/ UpdateStatus(s, l))

\* SELLER_STATUS_TRANSITIONS: active, sold, hidden.
UpdateProduct(s, l) ==
    listings[l].kind = "product" /\ (BeginUpdate(s, l) \/ UpdateStatus(s, l))

UpdateShop(s, l) ==
    listings[l].kind = "shop" /\ (BeginUpdate(s, l) \/ UpdateStatus(s, l))

\* Staff edit places: what they write is not reviewed.
UpdatePlace(s, l) ==
    listings[l].kind = "place" /\ UpdateStatus(s, l)

RemoveExchangeListing(s, l) == listings[l].kind = "exchange" /\ SetStatus(s, l, "off")
RemoveProduct(s, l) == listings[l].kind = "product" /\ SetStatus(s, l, "off")

-----------------------------------------------------------------------------
(* What anyone is served.                                                    *)

\* The filter of every public query, and get_one's, over a listing.
IsPubliclyVisible(l) == listings[l].status = "active" /\ listings[l].moderation = "approved"

ListOf(k) == {l \in Listings : listings[l].kind = k /\ IsPubliclyVisible(l)}

ListExchange == ListOf("exchange")
ListProducts == ListOf("product")
ListShops == ListOf("shop")
ListPlaces == ListOf("place")

\* The listings a seller's profile counts as active.
SellerProfile == ListExchange \cup ListProducts \cup ListShops

\* Products and exchange listings by favorites; places by their status alone.
PublishedPlaces == {l \in Listings : listings[l].kind = "place" /\ listings[l].status = "active"}
Recommendations == ListProducts \cup ListExchange \cup PublishedPlaces

\* What schedule_publish_reindex and _registry put in the assistant's index.
IndexablePlaces == PublishedPlaces

-----------------------------------------------------------------------------
(* Reports.                                                                  *)

\* MUTANT: a report already open does not stand in the way
BeginReportAgain(s, l) ==
    /\ req[s] = Idle
    /\ IsPubliclyVisible(l)
    /\ Reportable(listings[l].kind)
    /\ req' = [req EXCEPT ![s] = [Idle EXCEPT !.op = "report", !.pc = "loaded", !.listing = l]]
    /\ history' = [history EXCEPT !.twice =
                     IF \E t \in Sessions : req[t].op = "report" /\ req[t].listing = l
                     THEN @ \cup {l} ELSE @]
    /\ UNCHANGED <<listings, queue, rating, trust>>

\* One reporter stands for all: the duplicate check is per reporter.
BeginReport(s, l) ==
    /\ req[s] = Idle
    /\ IsPubliclyVisible(l)
    /\ Reportable(listings[l].kind)
    /\ PendingRows("report", l) = {}
    /\ req' = [req EXCEPT ![s] = [Idle EXCEPT !.op = "report", !.pc = "loaded", !.listing = l]]
    /\ history' = [history EXCEPT !.twice =
                     IF \E t \in Sessions : req[t].op = "report" /\ req[t].listing = l
                     THEN @ \cup {l} ELSE @]
    /\ UNCHANGED <<listings, queue, rating, trust>>

CommitReport(s) ==
    /\ req[s].op = "report"
    /\ ListingRefExists(listings, req[s].listing)
    /\ FreeSlots # {}
    /\ queue' = Put("report", req[s].listing, "pending")
    /\ req' = [req EXCEPT ![s] = Idle]
    /\ UNCHANGED <<listings, rating, trust, history>>

-----------------------------------------------------------------------------
(* Reviews: load, decide and flush, count, commit.                           *)

\* A row of the queue page: what is asked, and the listing (of a report, the one
\* reported) as it is when the page is made.
Snapshot(l) == listings[l]
Item(q) == [type |-> queue[q].type, listing |-> queue[q].listing,
            snapshot |-> Snapshot(queue[q].listing)]

\* The queue as a moderator finds it.
ListQueue == {q \in Slots : queue[q].type # "none" /\ queue[q].status = "pending"}

BeginReview(s, q) ==
    /\ req[s] = Idle
    /\ q \in ListQueue
    /\ req' = [req EXCEPT ![s] = [Idle EXCEPT !.op = "review", !.pc = "loaded", !.slot = q,
                                              !.listing = queue[q].listing,
                                              !.was = listings[queue[q].listing].moderation]]
    /\ UNCHANGED <<listings, queue, rating, trust, history>>

DecidedQueue(r) == [queue EXCEPT ![r.slot].status = Verdict(r)]

\* MUTANT: dismissing a report confirms the listing's approval
DecidedListingsCleared(r) ==
    IF queue[r.slot].type = "report"
    THEN [listings EXCEPT ![r.listing].status = IF r.approve THEN "off" ELSE @,
                          ![r.listing].moderation = IF r.approve THEN @ ELSE "approved"]
    ELSE [listings EXCEPT ![r.listing].moderation = IF Writes(r) THEN Verdict(r) ELSE @,
                          ![r.listing].unseen = @ /\ r.stale]

DecidedListings(r) ==
    IF queue[r.slot].type = "report"
    THEN [listings EXCEPT ![r.listing].status = IF r.approve THEN "off" ELSE @]
    ELSE [listings EXCEPT ![r.listing].moderation = IF Writes(r) THEN Verdict(r) ELSE @,
                          ![r.listing].unseen = @ /\ r.stale]

\* The decision.  One on a place leaves the score alone and is flushed when it is
\* committed; of two on one queue row the second waits for the first.
Decide(s, approve) ==
    LET r == [req[s] EXCEPT !.approve = approve]
        trusted == Trusted(listings[r.listing].kind) IN
    /\ r.op = "review" /\ r.pc = "loaded"
    /\ IF trusted
       THEN /\ Writes(r) => Unlocked(r.listing)
            /\ \A t \in Sessions : Holds(req[t]) => req[t].slot # r.slot
            /\ Flushed(s, r)
       ELSE /\ req' = [req EXCEPT ![s] = [r EXCEPT !.pc = "counted"]]
            /\ UNCHANGED <<listings, queue, rating, trust, history>>

\* MUTANT: the score is counted before the flush (autoflush is off)
CountUnflushed(s) ==
    /\ req[s].op = "review" /\ req[s].pc = "flushed"
    /\ Count(s, listings, queue, rating)

CountDecided(s) ==
    /\ req[s].op = "review" /\ req[s].pc = "flushed"
    /\ Count(s, DecidedListings(req[s]), DecidedQueue(req[s]), rating)

CommitReview(s) ==
    LET r == req[s]
        trusted == Trusted(listings[r.listing].kind)
        decides == queue[r.slot].type = "listing"
        counts == IF trusted THEN Recounted(r) ELSE history IN
    /\ r.op = "review" /\ r.pc = "counted"
    /\ listings' = DecidedListings(r)
    /\ queue' = DecidedQueue(r)
    /\ IF trusted THEN WriteScore(r) ELSE UNCHANGED trust
    /\ history' = [counts EXCEPT !.raced = IF r.stale /\ decides THEN @ \cup {r.listing} ELSE @]
    /\ Finish(s, IF decides THEN {r.listing} ELSE {}, trusted)
    /\ UNCHANGED rating

Abandon(s) ==
    /\ req[s] # Idle
    /\ req' = [req EXCEPT ![s] = Idle]
    /\ UNCHANGED <<listings, queue, rating, trust, history>>

-----------------------------------------------------------------------------
(* sellers/service.py create_review: a buyer rates the seller.               *)

RateSeller(s) ==
    /\ req[s] = Idle
    /\ Flushed(s, [Idle EXCEPT !.op = "rate"])

CountRated(s, stars) ==
    /\ req[s].op = "rate" /\ req[s].pc = "flushed"
    /\ Count(s, listings, queue, stars)

\* Two ratings that do not see each other have an average neither computed.
CommitRate(s, stars) ==
    LET r == req[s] IN
    /\ r.op = "rate" /\ r.pc = "counted"
    /\ stars = r.stars \/ r.stale
    /\ rating' = stars
    /\ WriteScore(r)
    /\ history' = Recounted(r)
    /\ Finish(s, {}, TRUE)
    /\ UNCHANGED <<listings, queue>>

-----------------------------------------------------------------------------
(* Time.                                                                     *)

\* The task that expires what is past its expires_at, in one statement.
ExpireStale(due) ==
    /\ due # {}
    /\ \A l \in due : Expires(listings[l].kind) /\ listings[l].status = "active" /\ Unlocked(l)
    /\ listings' = [l \in Listings |-> IF l \in due THEN [listings[l] EXCEPT !.status = "off"]
                                                    ELSE listings[l]]
    /\ UNCHANGED <<queue, rating, trust, req, history>>

ExchangeRequest(s, l) ==
    \/ CreateExchangeListing(s, l) \/ UpdateExchangeListing(s, l) \/ RemoveExchangeListing(s, l)
    \/ BeginReport(s, l)

MarketplaceRequest(s, l) == CreateProduct(s, l) \/ UpdateProduct(s, l) \/ RemoveProduct(s, l)

ShopRequest(s, l) == CreateShop(s, l) \/ UpdateShop(s, l)

PlaceRequest(s, l) == CreatePlace(s, l) \/ SubmitPlace(s, l) \/ UpdatePlace(s, l)

Next ==
    \/ \E s \in Sessions, l \in Listings :
          ExchangeRequest(s, l) \/ MarketplaceRequest(s, l) \/ ShopRequest(s, l) \/ PlaceRequest(s, l)
    \/ \E s \in Sessions :
          \/ CountCreated(s) \/ CommitCreate(s) \/ LookForRow(s) \/ CommitUpdate(s) \/ CommitReport(s)
          \/ CountDecided(s) \/ CommitReview(s) \/ RateSeller(s) \/ Abandon(s)
    \/ \E s \in Sessions, q \in Slots : BeginReview(s, q)
    \/ \E s \in Sessions, approve \in BOOLEAN : Decide(s, approve)
    \/ \E s \in Sessions, stars \in 1..MaxRating : CountRated(s, stars) \/ CommitRate(s, stars)
    \/ \E due \in SUBSET Listings : ExpireStale(due)

Spec == Init /\ [][Next]_vars

-----------------------------------------------------------------------------
(* Properties.                                                               *)

\* A listing waiting for a decision is in the queue a moderator sees: nothing
\* else would ever decide on it (moderation/service.py:96-115).  Except when its
\* moderation was written from a copy older than another request's commit.
PendingIsQueued ==
    \A l \in Listings :
        listings[l].status # "absent" /\ listings[l].moderation = "pending" =>
            l \in history.raced \/
            \E q \in ListQueue : Item(q) = [type |-> "listing", listing |-> l, snapshot |-> Snapshot(l)]

\* moderation/service.py:95 "Content edits by the seller send an approved listing
\* back through review": what the public lists and a seller's profile show of what
\* somebody other than staff wrote has been before a reviewer as it is, with the
\* same exception, unless the author's score let it through.  Recommendations adds
\* to them places by their status alone: see UnreviewedPlacesHidden.
PublicContentReviewed ==
    \A l \in SellerProfile \cup ListPlaces :
        ~listings[l].unseen \/ l \in history.raced

\* places/service.py:114 "always enters the moderation queue pending, never
\* auto-approved": nobody is shown or told of a place that no review has decided on,
\* where the public list of places asks for an approval.  The code does not keep this:
\* recommendations and the assistant's index ask for the status alone.
UnreviewedPlacesHidden ==
    \A l \in Listings : listings[l].kind = "place" /\ listings[l].unseen =>
        l \notin Recommendations \cup IndexablePlaces

\* trust.py:3 "score = approved listings + rounded avg rating - 2 x upheld
\* reports", less nothing for listings sent back to the queue since it was last
\* computed, unless the request that last left it had counted what changed before
\* it committed, or wrote nothing over what another had written since it loaded it.
ScoreIsCurrent ==
    history.miscounted \/
        trust = Score(listings, queue, rating) + Cardinality(history.requeued)

\* reports.py:36 "you already reported this listing": a second report while one
\* is open takes two requests open together.
OneOpenReport ==
    \A l \in Listings : l \in history.twice \/ Cardinality(PendingRows("report", l)) <= 1

\* A listing becomes approved only in a step that enters an approval of it in the
\* queue (by a reviewer, or automatically); a place also by staff creating it.
\* The exception: two reviews of one queue row with an edit of the listing between
\* their commits, where the second writes over what it has not seen.
OnlyTheQueueApproves ==
    [][\A l \in Listings :
         listings'[l].moderation = "approved" /\ listings[l].moderation # "approved" =>
             \/ \E q \in Slots : /\ queue'[q] = [type |-> "listing", listing |-> l, status |-> "approved"]
                              /\ queue[q] # queue'[q]
             \/ listings[l].status = "absent" /\ listings'[l].kind = "place"
             \/ l \in history'.raced]_vars
=============================================================================
