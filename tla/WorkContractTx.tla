--------------------------- MODULE WorkContractTx ---------------------------
(***************************************************************************)
(* The handlers of WorkContract as the server runs them: endpoints execute *)
(* in a thread pool, each with a database session of its own, at READ      *)
(* COMMITTED and with no row locks.  A handler loads its rows one SELECT   *)
(* at a time, checks the copies it loaded, and commits later; any number   *)
(* of other requests may commit in between.                                *)
(*                                                                         *)
(* Creating a contract or a problem reads nothing that another request can *)
(* change (the parties of a contract are fixed), so these stay the atomic  *)
(* actions of WorkContract.  Progress entries and payments are left to     *)
(* WorkContract: no handler reads a progress entry, and a payment is only  *)
(* ever written by its one counterparty, always with the same values.      *)
(***************************************************************************)
EXTENDS WorkContract

CONSTANT Sessions  \* database sessions, one per request being handled

VARIABLE inflight  \* session -> the request it handles and what it will write

txVars == <<contracts, progress, payments, problems, queue, inflight>>

-----------------------------------------------------------------------------
(* The session's unit of work.                                             *)

\* MUTANT: an UPDATE of every column of the loaded copy.
WholeRow(loaded, wanted) == wanted
\* The columns the handler set to another value than the one it loaded: the
\* unit of work puts these in the UPDATE and no others.
Changes(loaded, wanted) ==
    [column \in {c \in DOMAIN loaded : wanted[c] # loaded[c]} |-> wanted[column]]

\* The stored row after that UPDATE, whatever the row has become meanwhile.
Updated(stored, writes) ==
    [column \in DOMAIN stored |->
        IF column \in DOMAIN writes THEN writes[column] ELSE stored[column]]

NoWrites == [column \in {} |-> None]

-----------------------------------------------------------------------------

(* A request in flight: op, what it does; next, its next step: load        *)
(* another row or commit; contract, problem and ticket, the columns it has *)
(* decided to write.  actor and ruling are kept while a load needs them.   *)

Idle ==
    [op |-> "none", next |-> "commit", actor |-> None, k |-> None, p |-> None,
     q |-> None, ruling |-> None,
     contract |-> NoWrites, problem |-> NoWrites, ticket |-> NoWrites]

TxInit == Init /\ inflight = [s \in Sessions |-> Idle]

-----------------------------------------------------------------------------
(* The handler starts in a free session and loads the contract row, or,    *)
(* for a review, the queue row.                                            *)

Start(s, request) ==
    /\ inflight[s] = Idle
    /\ inflight' = [inflight EXCEPT ![s] = request]
    /\ UNCHANGED tables

\* The four handlers that touch nothing but the contract row.
StartOnContract(s, k, wanted) ==
    Start(s, [Idle EXCEPT !.op = "contract", !.k = k,
                          !.contract = Changes(contracts[k], wanted)])

StartAccept(s, u, k) ==
    /\ MayAccept(contracts[k], u)
    /\ StartOnContract(s, k, Accepted(contracts[k]))

StartReject(s, u, k, reason) ==
    /\ MayReject(contracts[k], u)
    /\ StartOnContract(s, k, Rejected(contracts[k], reason))

StartCancel(s, u, k, reason) ==
    /\ MayCancel(contracts[k], u)
    /\ StartOnContract(s, k, Cancelled(contracts[k], u, reason))

StartComplete(s, u, k) ==
    /\ MayComplete(contracts[k], u)
    /\ StartOnContract(s, k, Completed(contracts[k], u))

StartResolve(s, u, k, p) ==
    /\ IsParty(contracts[k], u)
    /\ Start(s, [Idle EXCEPT !.op = "resolve_problem", !.next = "load_problem",
                             !.actor = u, !.k = k, !.p = p])

StartEscalate(s, u, k, p) ==
    /\ IsParty(contracts[k], u)
    /\ Start(s, [Idle EXCEPT !.op = "escalate_problem", !.next = "load_problem",
                             !.k = k, !.p = p,
                             !.contract = Changes(contracts[k], Disputed(contracts[k]))])

StartReview(s, m, q, resolution) ==
    /\ MayReview(queue[q])
    /\ Start(s, [Idle EXCEPT !.op = "review", !.next = "load_problem",
                             !.actor = m, !.q = q, !.p = queue[q].entity,
                             !.ruling = resolution,
                             !.ticket = Changes(queue[q], Decided(queue[q], m, resolution))])

-----------------------------------------------------------------------------
(* The other rows, one SELECT each; only review loads three.               *)

Load(s, request) ==
    /\ inflight' = [inflight EXCEPT ![s] = request]
    /\ UNCHANGED tables

LoadToResolve(s) ==
    LET r == inflight[s]  row == problems[r.p] IN
    /\ r.op = "resolve_problem" /\ r.next = "load_problem"
    /\ MayResolve(row, r.k)
    /\ Load(s, [r EXCEPT !.problem = Changes(row, PeerResolved(row, r.actor)),
                         !.actor = None, !.next = "commit"])

LoadToEscalate(s) ==
    LET r == inflight[s]  row == problems[r.p] IN
    /\ r.op = "escalate_problem" /\ r.next = "load_problem"
    /\ MayEscalate(row, r.k)
    /\ Load(s, [r EXCEPT !.problem = Changes(row, Escalated(row)), !.next = "commit"])

LoadToRule(s) ==
    LET r == inflight[s]  row == problems[r.p] IN
    /\ r.op = "review" /\ r.next = "load_problem"
    /\ Load(s, [r EXCEPT !.problem = Changes(row, Ruled(row, r.actor, r.ruling)),
                         !.k = row.contract, !.actor = None,
                         !.next = "load_contract"])

LoadContract(s) ==
    LET r == inflight[s]  row == contracts[r.k] IN
    /\ r.next = "load_contract"
    /\ Load(s, [r EXCEPT !.contract = Changes(row, ContractRuled(row, r.ruling)),
                         !.ruling = None, !.next = "commit"])

-----------------------------------------------------------------------------
(* Commits.  UPDATE ... WHERE id finds the row whatever became of it.      *)

Finish(s, op) ==
    /\ inflight[s].op = op
    /\ inflight[s].next = "commit"
    /\ inflight' = [inflight EXCEPT ![s] = Idle]

CommitContract(s) ==
    LET r == inflight[s] IN
    /\ Finish(s, "contract")
    /\ contracts' = [contracts EXCEPT ![r.k] = Updated(@, r.contract)]
    /\ UNCHANGED <<progress, payments, problems, queue>>

CommitResolve(s) ==
    LET r == inflight[s] IN
    /\ Finish(s, "resolve_problem")
    /\ problems' = [problems EXCEPT ![r.p] = Updated(@, r.problem)]
    /\ UNCHANGED <<contracts, progress, payments, queue>>

CommitEscalate(s, q) ==
    LET r == inflight[s] IN
    /\ Finish(s, "escalate_problem")
    /\ queue[q].status = "absent"
    /\ problems' = [problems EXCEPT ![r.p] = Updated(@, r.problem)]
    /\ contracts' = [contracts EXCEPT ![r.k] = Updated(@, r.contract)]
    /\ queue' = [queue EXCEPT ![q] = NewTicket(r.p)]
    /\ UNCHANGED <<progress, payments>>

CommitReview(s) ==
    LET r == inflight[s] IN
    /\ Finish(s, "review")
    /\ problems' = [problems EXCEPT ![r.p] = Updated(@, r.problem)]
    /\ contracts' = [contracts EXCEPT ![r.k] = Updated(@, r.contract)]
    /\ queue' = [queue EXCEPT ![r.q] = Updated(@, r.ticket)]
    /\ UNCHANGED <<progress, payments>>

\* A later check refuses the request, the client goes away or the process
\* dies: the session closes without a commit.
Rollback(s) ==
    /\ inflight[s] # Idle
    /\ inflight' = [inflight EXCEPT ![s] = Idle]
    /\ UNCHANGED tables

-----------------------------------------------------------------------------

Insert ==
    /\ \/ \E employer, worker \in Users, k \in Contracts :
             Create(employer, worker, k)
       \/ \E u \in Users, k \in Contracts, p \in Problems : AddProblem(u, k, p)
    /\ UNCHANGED inflight

StartOne(s) ==
    \/ \E u \in Users, k \in Contracts :
          \/ StartAccept(s, u, k)
          \/ \E reason \in Reasons \cup {None} : StartReject(s, u, k, reason)
          \/ \E reason \in Reasons : StartCancel(s, u, k, reason)
          \/ StartComplete(s, u, k)
          \/ \E p \in Problems : StartResolve(s, u, k, p) \/ StartEscalate(s, u, k, p)
    \/ \E m \in Moderators, q \in Tickets, resolution \in Resolutions :
          StartReview(s, m, q, resolution)

TxNext ==
    \/ Insert
    \/ \E s \in Sessions :
          \/ StartOne(s)
          \/ LoadToResolve(s)
          \/ LoadToEscalate(s)
          \/ LoadToRule(s)
          \/ LoadContract(s)
          \/ CommitContract(s)
          \/ CommitResolve(s)
          \/ \E q \in Tickets : CommitEscalate(s, q)
          \/ CommitReview(s)
          \/ Rollback(s)

TxSpec == TxInit /\ [][TxNext]_txVars

-----------------------------------------------------------------------------
(* Type invariant: what a session will write fits the columns it writes. *)
TxTypeOK ==
    /\ TypeOK
    /\ DOMAIN inflight = Sessions
    /\ \A s \in Sessions :
          LET r == inflight[s] IN
          /\ r.op \in {"none", "contract", "resolve_problem", "escalate_problem", "review"}
          /\ r.next \in {"load_problem", "load_contract", "commit"}
          /\ r.actor \in Users \cup {None}
          /\ r.ruling \in Resolutions \cup {None}
          /\ r.k \in Contracts \cup {None}
          /\ r.p \in Problems \cup {None}
          /\ r.q \in Tickets \cup {None}
          /\ Updated(NoContract, r.contract) \in ContractRow
          /\ Updated(NoProblem, r.problem) \in ProblemRow
          /\ Updated(NoTicket, r.ticket) \in QueueRow

\* An escalated problem never drops off the administrators' docket, whatever
\* stale resolution, escalation or ruling commits after it.
EscalationsStayQueued ==
    \A p \in Problems :
        problems[p].status = "escalated" => PendingTickets(p) # {}

\* What a party did is never undone by another request's commit: acceptance,
\* completion confirmations, escalations, cancellation stamps and
\* rulings stay on file.
NothingRecordedIsLost ==
    [][/\ \A k \in Contracts :
             /\ contracts[k].worker_accepted => contracts'[k].worker_accepted
             /\ contracts[k].employer_confirmed => contracts'[k].employer_confirmed
             /\ contracts[k].worker_confirmed => contracts'[k].worker_confirmed
             /\ contracts[k].cancelled => contracts'[k].cancelled
       /\ \A p \in Problems :
             /\ problems[p].escalated => problems'[p].escalated
             /\ problems[p].resolution # None => problems'[p].resolution # None]_txVars

-----------------------------------------------------------------------------
(* What the handlers' checks are there for and races defeat. *)

\* review: 409 "this item was already reviewed".
ReviewedOnce ==
    [][\A q \in Tickets :
          queue[q].status \in {"approved", "rejected"} => queue'[q] = queue[q]]_txVars

\* contracts/service.py: "peer-cancel is only allowed while the work hasn't
\* already concluded"; only a ruling (no user named) may cancel after that.
NoPeerCancelAfterCompletion ==
    [][\A k \in Contracts :
          /\ contracts[k].status = "completed"
          /\ contracts'[k].status = "cancelled"
          => contracts'[k].cancelled_by = None]_txVars

=============================================================================
