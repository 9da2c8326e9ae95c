# Upozilla backend: a TLA+ model

The program is a FastAPI monolith for a local-government portal: content
directories, classified listings and shops under moderation, chat, and **work
contracts** between an employer and a worker with a dispute process. It keeps
its state in PostgreSQL, uses Redis for rate limits and WebSocket fan-out, and
runs scheduled work in Celery. Request handlers execute in a thread pool, each
with a database session of its own. This directory models its core logic in
TLA+, model-checks it with TLC, and proves theorems about it with TLAPS.
Paths below are relative to `src/app/`.

## 1. Inventory

| Component (source) | State | Operations | What is hard | What makes it correct |
|---|---|---|---|---|
| Work contracts (`modules/contracts`) | `work_contracts`, progress entries, payments, problems | create, accept, reject, cancel, complete, add progress, add / confirm payment, add / resolve / escalate problem | a status written by six handlers and by moderation; checks on loaded copies, no row locks | both parties confirm completion; the counterparty confirms a payment; a dispute can always be ended |
| Moderation (`modules/moderation`) | `moderation_queue` | enqueue, re-enqueue, review (listing, shop, place, report, dispute) | one decision writes several tables; reviews against edits | what waits is in the queue; only the queue approves; the public sees reviewed content |
| Moderator scoping (`_moderator_scope`, `core/location_scope.py`) | scoped roles, `locations.parent_id` | compute a scope, filter by it | a walk down against a walk up; cycles; overlapping roles | the scope is the union of the subtrees |
| Listings (`modules/exchange`, `marketplace`, `shops`, `places`) | listings with `status` and `moderation_status`, reports | create, edit, remove, report, expire | seller edits against reviews and the expiry task | as for moderation |
| Trust score (`modules/moderation/trust.py`) | `user_trust_scores` | recompute | a cache refreshed by some handlers only | it is what its definition counts, within a stated lag and but for counts that overlap |
| Sign-in and sessions (`modules/auth`) | `refresh_tokens`, users, signed access tokens | sign in, rotate, log out, revoke | rotation and administration commit twice | a token rotates once; stale claims end |
| One-time codes (`modules/auth/otp_service.py`) | `otp_codes`, a Redis counter | request, verify, purge | check-then-act on one row | codes wear out; one is live |
| Phone identity (`modules/auth`, `modules/users`) | `users.phone`, `phone_verified_at` | register, log in, attach, edit the profile | only changed columns are written | a verified number was proven |
| Account administration (`modules/admin`) | roles, status, permissions | change, then revoke | two transactions | access converges to the table |
| WebSocket fan-out (`core/ws_manager.py`) | socket sets, Redis link, listener task, tickets | connect, disconnect, send, listen, reconnect, restart | awaits between steps; Redis coming and going | one copy; dead sockets leave; the listener recovers |
| Messaging (`modules/messaging`) | conversations, messages | open, send, read | read receipts against new messages | nothing is marked read unseen |
| Runtime settings (`core/runtime_settings.py`) | `platform_settings`, a cache per process | get, update, disconnect, invalidate | a load racing a writer; failing loads; clock at start-up | staleness is bounded |
| Rate limiter (`core/rate_limit.py`) | a Redis counter per key | hit | window ends | bursts are bounded, a refusal ends |
| Knowledge index, translation, assistant (`core/embeddings.py`, `core/translation.py`, `modules/ai`) | `knowledge_chunks`, localised columns, tasks in memory | save, schedule, translate, index, delete, sweep, ask | background tasks in any order, lost with the process | the index is what it was last handed; an answer is about the row it quotes |
| Representatives, hospitals, schools | one row per post or owner | create, update | look, then write | at most one |
| Scheduled tasks (`workers/`) | none of their own | expire listings, purge codes, ingest news | run beside requests | idempotent |

Handlers interact through the database: contracts escalate into the moderation
queue, and a review writes back into contracts and problems; listings do the
same and also refresh the seller's trust score. Administration revokes the
sessions that sign-in issues. A redeemed code proves a phone to the account
flows. Routers push WebSocket frames after a commit. Saves of content hand
background tasks to the server, which read the runtime settings and feed the
index the assistant answers from. `PROJECT.json` lists every component with
what is left out of it.

## 2. Modules

| Module | What it is |
|---|---|
| `ContractRows` | the columns of the contract tables and the queue row; for each handler, its guard on loaded rows (`MayAccept`, ...) and the row it wants stored (`Accepted`, ...) |
| `WorkContract` | the tables as variables, one action per handler, run one at a time; the invariants and the refinement mapping |
| `DisputeDocket` | the abstract specification: a problem is reported, then settled or docketed, and a docketed one is ruled on once |
| `WorkContractTx` | the same handlers as the server runs them: start and load, load, commit, with any other request in between |
| `WorkContractProofs`, `WorkContractTxProofs` | theorems about `WorkContract` and `WorkContractTx` |
| `AccountSessions` | accounts, token pairs and the requests that issue, rotate, replay, revoke and administer |
| `RateLimiter` | the fixed window of one key |
| `OtpCodes` | one phone's codes, with `RateLimiter` in front (it extends it) |
| `PhoneIdentity` | accounts and numbers: what a redeemed code is used for, and profile edits |
| `ListingModeration` | one seller's listings, the queue, reports, reviews, expiry, the score, and what the public lists show |
| `ModeratorScope` | the scope of a moderator, step by step, over any location tree |
| `Appointments` | holders of posts, owners of institutions |
| `WsFanout` | the sockets of one user on several instances, Redis, frames in flight |
| `Messaging` | one conversation: opening it, sending, reading |
| `RuntimeSettings` | one setting and the processes' caches of it |
| `KnowledgeIndex` | one content row, its chunks, the jobs in flight, the assistant |
| `MC*` | TLC instances; the cfg files give the bounds |
| `AccountSessionsProofs`, `IdentityProofs`, `ListingModerationProofs`, `KnowledgeIndexProofs`, `DirectoryProofs`, `LiveMessagesProofs` | theorems about the modules of the other runs (section 4) |

Definitions marked MUTANT are plausible mistakes in the code that the
properties are checked to notice; the specifications do not use them.

### How state and actions correspond to the code

**Contracts.** Each table is a function from row ids to rows; a row with status
`"absent"` is not inserted yet, so a set of ids bounds how many rows a run can
create. A nullable timestamp is a BOOLEAN, "it has been set": no handler
compares or clears one. Titles, amounts, images and notes are left out: no
handler reads them. `FaultRulings` are the rulings for one party; with
`"dismissed"` they are `ContractDisputeResolution`. A moderator may also be a
party, as in the code. In `WorkContract` an action is a handler from its first
SELECT to its commit. `EscalateProblem` therefore writes three tables
(`contracts/disputes.py:31-36`) and so does `Review`
(`moderation/service.py:549-610`).

In `WorkContractTx` each session has a record in `inflight`. A `Start` action is
the handler's first SELECT with the checks on it; `LoadTo...` and `LoadContract`
are the further SELECTs; `Commit...` is the flush and commit. What a session
will write is what SQLAlchemy's unit of work writes: the columns set to another
value than the one loaded (`Changes`), put into the row by id whatever it has
become (`Updated`). A review loads the queue row, the problem and the contract,
in that order, at three moments. `Rollback` is a session that closes without a
commit: a later check failed, the client left, or the process died. Creating a
contract or a problem reads nothing another request can change, so those stay
atomic. Progress entries and payments are left to `WorkContract`: nothing reads
an entry, and the one counterparty always confirms a payment with the same values.

The other modules follow the same reading of the code: what a request has loaded
is a record in `req`, `calls`, `holds`, `desk` or `jobs`; a `Begin...` action is
its last SELECT with the checks, a `Commit...` action its transaction; a request
may die in between. Columns no handler decides on are left out. *History*
fields, named so where they are declared, record what a property excepts or
speaks of; no guard reads them.

**`AccountSessions`.** A pair stands for a `refresh_tokens` row and the access
token issued with it, which carries the rights of the row as loaded. Rotation
is three steps: load and check, commit the revocation, reload and issue in a
second transaction. An administrator's change commits (`CommitChange`) and then
revokes (`RevokeAll`); the handler may die in between. `CurrentUser` and
`RequirePermission` read the claims only, as `core/dependencies.py` does.

**`OtpCodes`, `PhoneIdentity`.** A code is live or consumed, expired or not, and
counts its attempts. `BeginRequest` retires the codes it sees; `CommitRequest`
inserts. A verification loads the newest code, then counts a wrong guess or
redeems. The purge takes row locks like any DELETE, so it waits for a request
that is retiring one of its rows. In `PhoneIdentity` an UPDATE writes the columns that differ from the
loaded copy, subject to the unique constraint on the number.

**`ListingModeration`.** Kinds differ as the code's modules do: shops and places
cannot be reported, places do not count for the score, only exchange listings
expire. `"off"` is every status that is not public. `Verdict` and `Writes` are
the branches of `_apply_listing_decision`.

Creating a listing, reviewing and rating call `trust.recompute`, which loads the
score, counts and writes. Each of the three is a begin (`Create`, `Decide`,
`RateSeller`: its own change is flushed and the score loaded), a count
(`CountCreated`, `CountDecided`, `CountRated`: what it has flushed itself and what
others have committed) and a commit that writes the score if it differs from the
one loaded (`WriteScore`). The five COUNTs of one recompute are one step, and the
seller's score row exists; the UPDATE of the score, which waits for another's, is
one step with the commit. The look for a pending row in `reenqueue_after_edit` is
a step (`LookForRow`). `Holds` and `Unlocked` are the row locks a flushed decision
keeps. `unseen` says of a listing that nobody has decided on what it shows; it is
set by a submission, by a creation that is not approved on the spot and by an
owner's edit. Queue slots are reused once nothing can read the row again. A review's load stands for the moderator's reading of the queue page: the
page fetched earlier is not a step of its own.

**`ModeratorScope`.** One step per turn of each loop of `_moderator_scope` and
`subtree_location_ids`. `IsLocationWithin` is the capped walk upwards in which
`core/location_scope.py` states what a scope means; nothing calls it, and the
property compares the two.

**`WsFanout`.** An action is what a coroutine does between two awaits that can
suspend it. `link` is `_redis` with the listener's progress; a publish may raise
after Redis has the frame. `Connect` consumes a ticket; `Leave` is the registry's
`discard`. `PushMessage` and `NotifyParty` are the two senders.

**`Messaging`.** The two statements of `get_or_create_conversation` and of
`list_messages` are steps; sending is one. The commit of the receipts and the
response are one step: a response lost on the way is not modelled.

**`RuntimeSettings`.** The value of the setting is the number of its changes; the
clock is in ticks of which the lifetime is `Ttl`. A load takes the clock reading
first, as the code does, and holds the lock to its end. Writers take turns
(`writer`): the code takes no lock, but what a writer does between its commit and
its `invalidate()` depends on no other writer, and the value counts commits.

**`KnowledgeIndex`.** A job is the chain of background tasks one save hands to
the server: translate, then embed, delete, insert. It is handed the row's text when it is
queued, before it translates; `asked` is the text handed over last, and `clean`
that a job has carried it out which was the last and ran beside no other. `Sweep`
and `SweepTranslations` are the administrators' backfills. The assistant is two
steps, `Retrieve` and `Answer`, with anything in between: the awaits of `ask`.

## 3. Runs

| Run | Shows |
|---|---|
| `contracts` | `WorkContract` keeps problems, contracts and the queue in step (`DocketMatchesProblems`, `RulingMatchesDecision`), cross-checks payments, attributes cancellations, and implements `DisputeDocket` |
| `contracts_tx` | with two interleaved sessions, every escalated problem still has an undecided queue row, no contract is stuck DISPUTED (`NoStrandedDispute`), COMPLETED still means two confirmations (`CompletedByBoth`), and no commit undoes what another request recorded |
| `identity` | a spent refresh token begins no second rotation; a refresh token with stale claims is on its way to be revoked or escaped by a named race; access converges to the table once administration rests; one live code, codes wear out, bursts are at most twice the limit, a refusal ends; a verified number was proven by its account |
| `directory` | pending listings are in the queue with their current content, the public lists and seller profiles show content a review (or the author's score, or staff) has let through, the score is current up to re-queued listings and overlapping counts, one open report, only the queue approves; the scope is the subtree; posts and institutions have one holder; whatever earlier jobs did, the index is put right by the next that runs alone, and an answer begun on a right index is about the row |
| `live_messages` | a frame arrives once unless its publish raised; expired and closed sockets leave the registry; the listener recovers; frames reach the sockets they should; receipts mark what was shown; a cached setting is never older than its lifetime and is seen at once by the process that wrote it, caches converge |
| `active_accepted` (violated) | a dismissed dispute makes a contract ACTIVE whose worker never accepted it |
| `fault_ruling` (violated) | with two disputes, the second's dismissal revives a contract the first one's ruling ended |
| `reviewed_once` (violated) | two reviews in flight decide one queue row twice |
| `peer_cancel` (violated) | a cancellation in flight overwrites a completion |
| `suspended` (violated) | a person's first social sign-in is refused as "suspended": the check reads the status of a row not yet inserted |
| `unreviewed_places` (violated) | a submitted place is recommended to everyone, and handed to the assistant's index, before any review: both ask for its status alone |
| `index_in_sync` (violated) | one save with nothing beside it leaves in the index the text from before its own translation |

`DocketMatchesProblems`, `RulingMatchesDecision` and `CancellationAttributed`
hold for serial requests and not for interleaved ones (`reviewed_once` and
`peer_cancel` show why); what remains true under interleaving is what
`contracts_tx` checks.

Many of the other properties hold *except* after a race the code leaves open;
each names its exception in a history field rather than leaving the race out:
two rotations begun before either commits (`SpentTokensAreReplays` speaks of
beginnings), a token inserted from an earlier read (`escaped`), two code
requests open together (`overlapped`), guesses that loaded a code together
(`contended`), a row written from an older copy (`raced`), a score counted from
rows that changed (`miscounted`), two reports open together (`twice`), a post
whose check came too early or not at all (`unchecked`), two creations open
together (`doubled`).

Where a race is excepted so, the property does not show that the race is
harmless: it shows that nothing else breaks it.

**Sums.** `MCIdentity`, `MCDirectory` and `MCLiveMessages` each hold modules that
share no variable. A variable `side`, chosen initially and never changed, says
which of them runs; the others keep their initial state. TLC so explores the sum
of their state spaces, which loses nothing: no property relates two sides.
`MCDirectory` has two sides for `ListingModeration`, so that one of them can
afford steps the other bounds away (below).

**Bounds.**

- *Contracts.* No handler touches the rows of two contracts, so one is enough.
  Two problems are the least with which one dispute opens or ends while another
  is pending; two tickets let both be queued, or one be queued twice by racing
  escalations. Two payments let each party log one. Three users make a moderator
  who is not a party possible, two a moderator who is. Two sessions are the least
  that interleave; each review loads three rows, so every order of two reviews,
  or of a review and an escalation, occurs. In `contracts_tx` the constraint
  `ModeratorHires` has the moderator be the employer when he is a party: the
  invariants there do not read who a party is. Ids of rows, fault rulings and
  sessions are reduced by symmetry.
- *Sessions.* One account (no handler touches two), two pairs so that a token has
  a successor (ids are not used again, so a chain is at most two long), two
  requests, two administrative changes so that a right is taken and given back.
- *Codes and phones.* Two codes, so that the newest is not the only one; two attempts and
  a limit of two, so that "one more" exists; a window of two ticks, so that hits
  straddle its end; two accounts and two numbers, so that numbers change hands.
- *Directory.* Two queue slots (a listing row and a report, or two rows of one
  listing), two requests. Side `listings` has one listing, of each of the four
  kinds in turn (`OneListing`): a product or a shop runs its requests one at a
  time there, since everything done to them is done to an exchange listing too.
  Side `scores` has two products created, reviewed and rated by two requests
  (`Products`), which is what makes counts miss each other; an auto-approval score
  of 1 is reached by a rating of 1. Three locations and any parent map, cycles
  included, with up to two scoped roles: eight levels are out of reach, so the cap
  of `is_location_within` never bites here. Two representatives, wards and
  positions. Two jobs over one row; two at once for places and news, which between
  them have every branch, one at a time for the other kinds and while an answer is
  in preparation (`JobsApart`).
- *Live messages.* Two instances, so that the frame crosses; one socket, one
  frame, one restart. Three messages with pages of one, so that a page leaves
  messages out. Two processes with a cache, a lifetime of one tick, two changes.

**Symmetry.** `MCDirectory` permutes requests, clerks and jobs (the same model
values) and representatives, and checks safety only.

**Deadlock.** Nobody has to send a request, so every part may rest, and the
bounds let the counted ones run out: deadlock is not checked.

**Fairness and liveness.** A person's request is never assumed. What is assumed:

- `AccessConverges`: a handler that was started runs on or dies, and an access
  token's lifetime ends. Administration ends because its changes are bounded.
- `LimitLifts`: time passes (the limiter's tick), nothing more.
- `SocketsLeave`, `ListenerRecovers`, `LiveDelivery`: event loops run their ready
  coroutines and the reconnect interval passes. Redis, peers and senders are
  free; `ListenerRecovers` speaks of behaviours in which Redis is back for good
  and the instance keeps serving connects or sends, since only those retry
  (`_ensure_started`): an instance that merely holds sockets stays deaf.
- `SettingsConverge`: time passes, settings are asked for again and again (every
  handler does), and the table is not unreadable at every load: strong fairness
  of `LoadRows`, since a load that fails disables it until the next one.

For contracts no fairness is assumed and no liveness claimed: `NoStrandedDispute`
says instead that the way out of a dispute is always open.

### Disagreements met

Beside the violated runs:

- Unpublishing an article schedules nothing (`news/service.py:16-20`): its chunk
  stays, against `embeddings.py:93`. Ingested articles wait for a sweep.
- The docstring at `dependencies.py:33-35` has hospitals and schools re-check
  their permission in the database; they use the claim of the token.
- `_moderator_scope`'s docstring counts BUSINESS_VERIFIER as unscoped; the role
  has no moderation permission (`core/rbac.py:54`) and falls through to the rows.
- A contract dispute has no location: location-scoped moderators do not see it
  listed (`moderation/service.py:211-226`) but may decide it (`411-413`).
- A representative is reactivated by status alone without the duplicate check.
- Only the newest code is valid (`otp_service.py:71`) fails for overlapping
  requests; a wrong guess is not counted when two load the code together.
- A translation overwrites what an editor typed while it ran
  (`translation.py:134-138`).
- Two creations, reviews or ratings of one seller can leave a wrong score until
  the next recompute: their counts do not see each other, and a request that finds
  the score it had loaded writes nothing over another's (`trust.py:96`).
- An owner may set a listing taken down by an upheld report back to ACTIVE
  (`exchange/service.py:265`).
- A profile edit and a phone confirmation in flight together can leave the new
  number verified (`users/service.py:28`).
- Testing the AI connection may stamp a key it did not test (`settings/service.py:132`).

## 4. Proofs

`WorkContractProofs` proves, for any number of users, contracts, problems,
payments and queue rows:

- `TypeCorrect`: `Spec => []TypeOK`, from closure lemmas on the row functions;
- `CompletionNeedsBoth`, `PaymentsCrossChecked`, `CancellationsExplained`, from
  `LifecycleInv`. The invariants alone are not inductive: confirming a payment
  must know that its logger is a party and that the parties are two people,
  which `PartiesOnFile` adds;
- `DocketInStep`, `DisputesReachable`, `RulingsAgree`, from `DocketInv`.
  `RowsLinked` is the strengthening: a queue row names a problem that was
  escalated, so an open problem is on no row and escalating it cannot queue it
  twice; a problem's contract exists and never changes, so a ruling that takes
  one ticket away clears the very contract it was holding in dispute;
- `DocketRefined`: `Spec => Docket!DocketSpec`. In a state satisfying
  `DocketInv` the stage of a problem is a function of its own row
  (`StageFromRow`), and each handler is one docket step or a stutter.

The assumptions are those of `ContractRows`: moderators are users, NULL is no
user, row id or text, and a reason typed by a party is not the text of a ruling.
`LifecycleInv` and `DocketInv` hold on the instance of the `contracts` run.

`WorkContractTxProofs` proves, for any number of interleaved sessions as well:

- `TxTypeCorrect`, `EscalationsNeverDropped`, `DisputesNeverStranded`,
  `CompletionNeedsBothTx` and the action property `RecordsKept`, all from one
  inductive invariant, `TxInv`.
- What a session holds is described by `RequestOK`: which columns its UPDATEs
  may contain (`ContractWrites`, `ProblemWrites`, `TicketWrites`) and how its
  row ids relate to the tables at each step of its handler. Every step keeps what
  the tables record (`Kept`), which implies `RecordsKept` and is why a request
  stays in order while others commit (`RequestStays`).
- That an escalated problem has a pending queue row is not inductive: a review
  in flight may be about to decide that row. `EscalationsBacked` and
  `DisputesBacked` say more: some pending row is such that every review of it in
  flight which has loaded the problem (the contract) will write its status. They
  hold because ESCALATED and DISPUTED are only written together with a fresh
  queue row, which nobody can be reviewing, and because a review loads its queue
  row before the problem and the problem before the contract, so it sees the
  escalation it decides.

Both use the assumptions above and nothing else. `TxInv` holds on the instance
of `contracts_tx`.

The other modules are proved about in six more, each for every value of the
constants, from the assumptions on the constants declared in the module it is
about. Each has its own inductive invariants; TLC found every one of them to hold
on the instance of the run that checks the module. What a specification's
properties except (the races named in section 3) the theorems except too.

| Module | Theorems | Inductive invariant |
|---|---|---|
| `AccountSessionsProofs` | `SessionsTypeCorrect`, `SpentNeverRotated`, `ChangesForceRelogin` | `SessionsInv` |
| `IdentityProofs` | `CodesTypeCorrect`, `NewestCodeOnly`, `CodesAreSpent`, `BurstsAreBounded`; `PhonesTypeCorrect`, `VerifiedNumbersWereProven`; `IdentityIsItsParts`, `IdentityTypeCorrect` | `LimiterInv`, `OtpInv`; `PhoneInv` |
| `ListingModerationProofs` | `ListingTypeCorrect`; `NothingWaitsUnlisted`, `NothingShownUnreviewed`, `ApprovalsAreQueued`; `ScoresAreCurrent`; `ReportsAreOpenOnce` | `BaseInv`; `QueueInv`; `ScoreInv`; `ReportInv` |
| `KnowledgeIndexProofs` | `IndexTypeCorrect`, `IndexIsTheLatestAsked`, `AnswersStayOfTheRow` | `IndexInv` |
| `DirectoryProofs` | `CivicTypeCorrect`, `PostsHaveOneHolder`; `ScopeTypeCorrect`, `ScopesAreSubtrees`, `ScopesAreWithin`; `DirectoryIsItsParts`, `DirectoryTypeCorrect` | `CivicInv`; `ScopeInv` |
| `LiveMessagesProofs` | `ChatTypeCorrect`, `ReadMeansShown`; `FanoutTypeCorrect`, `FramesComeOnce`; `SettingsTypeCorrect`, `AnswersAreFresh`; `LiveTypeCorrect` | `ChatInv`; `FanoutInv`; `SettingsInv` |

Why the invariants need what they add:

- *Sessions.* A rotation issues from its second transaction, so that no spent
  token rotates again rests on the row it holds staying revoked while the id is
  in its hands (`RotatedStaysRevoked`). `ChangesForceRelogin` is preserved
  because a change of claims leaves its own request about to revoke, and only
  that request, done or dead, ends this.
- *Codes.* `OneLiveCode` needs that the one open request has seen whatever is
  live and will retire it (`RetiringSeesAll`). `CodesWearOut` needs that the one
  verification in flight has loaded the attempts the row has (`Wear`).
- *Bursts.* `allowed[a]` counts what was let through at most `a` ticks ago.
  `WindowsAccounted` splits a span of a window's length at the opening of the
  current window: what is younger is counted by the key, and all the rest
  belongs to one window more.
- *Phones.* As long as nobody else has committed to an account, what a request
  loaded of it is what the row has (`HoldsAreCopies`); so the flag it writes
  beside a number is that number's.
- *Listings.* `BaseInv` says what requests loaded is still so, unless marked old.
  On it stand three invariants that need nothing of each other: a pending
  listing has a pending row and unseen content is not approved (`QueueInv`); a
  score that was counted and whose request is not marked `dirty` is what the
  tables will give when the request commits (`CountsHold` in `ScoreInv`, with
  `AfterRowsCount`, `AfterQueueCount` and `AfterScore` on how a request's own
  change moves the counts, and `ScoreComputed` on a commit that finds its score
  unchanged), and what was sent back since is not approved (`RequeuedWait`); of
  the open reports and the requests about to make one there is at most one
  (`OpenOnce`).
- *Posts.* That the holders who were checked are one per post needs what a check
  still means at the commit: nobody else who was checked holds the post
  (`PostsLookedUp`), and the same for creations (`CreationsLookedUp`).
- *Scopes.* `WalkIsSound` is the loop invariant of both loops: what is found lies
  in every closed set that holds the scopes, and what a walk has visited lacks
  only children still on the stack. Hence `ScopesAreSubtrees`: a finished call
  has the least closed set, for trees of any depth and for cycles.
  `ScopesAreWithin` compares it with `is_location_within`. Its hypothesis,
  `EightTurnsSuffice`, is that the cap of the walk up does not cut a climb short;
  it holds for the five levels `location_scope.py:18` speaks of and for up to eight
  (`EightLevelsSuffice`), and in every state of the `directory` run, cycles included. Without it the two walks do
  disagree: a place eight levels below a scope is in the moderator's queue, and
  not within the scope for `is_location_within`.
- *Frames.* A frame has two ways to a socket, the sender's own run and the
  channel of its instance. `CopiesLeft` adds what may still arrive on each to
  what has arrived; both are open only if the publish raised.
- *Messages.* `ReadIsAccountedFor` is the property place by place, with a reader
  knowing no more than the last message.
- *Settings.* A copy that differs from the table was read before the latest
  change, and so was a load in progress (`CopiesAreDated`): it can only be too
  old by the time it has been held.
- *Index.* That a commit leaves the latest text alone needs what the job knew
  before it: the job of the latest request has the text handed over and does what
  the row's status asks (`LatestIsAsked`), and if no other job was there when its
  DELETE ran, that DELETE saw every chunk, those of lost and overlapping jobs
  included (`DeletedOwn`). Then nobody is left to change a clean index
  (`CleanIsAsked`), whatever translations still run, and so neither an answer that
  was retrieved from it.

In the sums a behaviour projects to one of each part (`IdentityIsItsParts`,
`DirectoryIsItsParts`; in `LiveMessagesProofs` as steps of the proof), so every
theorem about a part holds of the sum; type correctness is stated for all three.

What stays with TLC, and why:

- liveness (`AccessConverges`, `LimitLifts`, `SocketsLeave`, `ListenerRecovers`,
  `LiveDelivery`, `SettingsConverge`): it rests on fairness, hence on ENABLED,
  which the prover does not handle;
- `ScopeIsSubtree` for trees the cap does cut short, where it is false, as said;
- the seven violated properties: counterexamples are small by nature.

## 5. Plan

Modelled: everything the inventory lists. Proved: every safety property of a
passing run. Left:

1. Abstract specifications that say in one page what a part promises, and the
   detailed modules proved to implement them as `WorkContract` implements
   `DisputeDocket`: the moderation queue of listings (submitted, then decided
   once), one phone's code (issued, then redeemed or worn out), the rotation of
   a session's tokens.
2. `WorkContractTx` against a docket that tolerates the two races the violated
   runs show.

## 6. Not modelled

- *Favourites, categories, licence applications, doctors, audit rows*: one insert
  or delete of rows nothing else decides on.
- *Business verification*: one flag. (The list for verifiers hides rows without a
  tenant that the verification itself accepts.)
- *Tenancy and content ownership*: predicates over a request and a row. Note that
  public endpoints resolve the tenant from the request alone, so the rule of
  `core/tenant.py:11-13` that a user's own tenant wins does not reach them.
- *Dashboards, response building, ranking, formatting, encryption, SMS and feed
  transport, seeds and uploads*: they decide no state of the models.
- *Two SELECTs taken as one*: the user and the scoped roles that
  `issue_token_pair` reads (`ReloadUser`). A change committed between them
  gives a token minted in part from an older copy, one of those the model has
  (`escaped`).
- *The rate limiter outside production*, where a Redis failure lets requests
  through (`rate_limit.py:33-34`): there is no bound to state then.
- *The cancellation of `start()`* between Redis' answer and the creation of the
  listener task.
- *`test_ai_connection`*: stamps a time nothing decides on.
- *Clocks beyond ticks, Redis eviction, isolation other than READ COMMITTED.*
