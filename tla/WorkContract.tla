---------------------------- MODULE WorkContract ----------------------------
(***************************************************************************)
(* Work contracts between an employer and a worker, their payments and     *)
(* problems, and the disputes that go through the moderation queue, when   *)
(* requests run one at a time: each action is one request handler, from    *)
(* its first SELECT to its commit.                                         *)
(***************************************************************************)
EXTENDS ContractRows

VARIABLES
    contracts,  \* work_contracts
    progress,   \* contracts with a contract_progress_entries row
    payments,   \* contract_payments
    problems,   \* contract_problems
    queue       \* moderation_queue, its contract_dispute rows

tables == <<contracts, progress, payments, problems, queue>>

Init ==
    /\ contracts = [k \in Contracts |-> NoContract]
    /\ progress = {}
    /\ payments = [y \in Payments |-> NoPayment]
    /\ problems = [p \in Problems |-> NoProblem]
    /\ queue = [q \in Tickets |-> NoTicket]

-----------------------------------------------------------------------------
(* contracts/service.py *)

Create(employer, worker, k) ==
    /\ employer # worker
    /\ contracts[k].status = "absent"
    /\ contracts' = [contracts EXCEPT ![k] = NewContract(employer, worker)]
    /\ UNCHANGED <<progress, payments, problems, queue>>

Accept(u, k) ==
    /\ MayAccept(contracts[k], u)
    /\ contracts' = [contracts EXCEPT ![k] = Accepted(@)]
    /\ UNCHANGED <<progress, payments, problems, queue>>

Reject(u, k, reason) ==
    /\ MayReject(contracts[k], u)
    /\ contracts' = [contracts EXCEPT ![k] = Rejected(@, reason)]
    /\ UNCHANGED <<progress, payments, problems, queue>>

Cancel(u, k, reason) ==
    /\ MayCancel(contracts[k], u)
    /\ contracts' = [contracts EXCEPT ![k] = Cancelled(@, u, reason)]
    /\ UNCHANGED <<progress, payments, problems, queue>>

Complete(u, k) ==
    /\ MayComplete(contracts[k], u)
    /\ contracts' = [contracts EXCEPT ![k] = Completed(@, u)]
    /\ UNCHANGED <<progress, payments, problems, queue>>

AddProgress(u, k) ==
    /\ MayAddProgress(contracts[k], u)
    /\ progress' = progress \cup {k}
    /\ UNCHANGED <<contracts, payments, problems, queue>>

AddPayment(u, k, y) ==
    /\ IsParty(contracts[k], u)
    /\ payments[y].status = "absent"
    /\ payments' = [payments EXCEPT ![y] = NewPayment(k, u)]
    /\ UNCHANGED <<contracts, progress, problems, queue>>

ConfirmPayment(u, k, y) ==
    /\ IsParty(contracts[k], u)
    /\ MayConfirm(payments[y], k, u)
    /\ payments' = [payments EXCEPT ![y] = Confirmed(@, u)]
    /\ UNCHANGED <<contracts, progress, problems, queue>>

AddProblem(u, k, p) ==
    /\ IsParty(contracts[k], u)
    /\ problems[p].status = "absent"
    /\ problems' = [problems EXCEPT ![p] = NewProblem(k)]
    /\ UNCHANGED <<contracts, progress, payments, queue>>

ResolveProblem(u, k, p) ==
    /\ IsParty(contracts[k], u)
    /\ MayResolve(problems[p], k)
    /\ problems' = [problems EXCEPT ![p] = PeerResolved(@, u)]
    /\ UNCHANGED <<contracts, progress, payments, queue>>

-----------------------------------------------------------------------------
(* contracts/disputes.py and moderation/service.py *)

EscalateProblem(u, k, p, q) ==
    /\ IsParty(contracts[k], u)
    /\ MayEscalate(problems[p], k)
    /\ queue[q].status = "absent"
    /\ problems' = [problems EXCEPT ![p] = Escalated(@)]
    /\ contracts' = [contracts EXCEPT ![k] = Disputed(@)]
    /\ queue' = [queue EXCEPT ![q] = NewTicket(p)]
    /\ UNCHANGED <<progress, payments>>

Review(m, q, resolution) ==
    LET p == queue[q].entity
        k == problems[p].contract
    IN  /\ MayReview(queue[q])
        /\ problems' = [problems EXCEPT ![p] = Ruled(@, m, resolution)]
        /\ contracts' = [contracts EXCEPT ![k] = ContractRuled(@, resolution)]
        /\ queue' = [queue EXCEPT ![q] = Decided(@, m, resolution)]
        /\ UNCHANGED <<progress, payments>>

-----------------------------------------------------------------------------

Next ==
    \/ \E employer, worker \in Users, k \in Contracts :
          Create(employer, worker, k)
    \/ \E u \in Users, k \in Contracts :
          \/ Accept(u, k)
          \/ Complete(u, k)
          \/ AddProgress(u, k)
    \/ \E u \in Users, k \in Contracts, reason \in Reasons \cup {None} :
          Reject(u, k, reason)
    \/ \E u \in Users, k \in Contracts, reason \in Reasons :
          Cancel(u, k, reason)
    \/ \E u \in Users, k \in Contracts, y \in Payments :
          AddPayment(u, k, y) \/ ConfirmPayment(u, k, y)
    \/ \E u \in Users, k \in Contracts, p \in Problems :
          AddProblem(u, k, p) \/ ResolveProblem(u, k, p)
    \/ \E u \in Users, k \in Contracts, p \in Problems, q \in Tickets :
          EscalateProblem(u, k, p, q)
    \/ \E m \in Moderators, q \in Tickets, resolution \in Resolutions :
          Review(m, q, resolution)

Spec == Init /\ [][Next]_tables

-----------------------------------------------------------------------------
(* Type invariant: each table holds rows of its model class. *)
TypeOK ==
    /\ contracts \in [Contracts -> ContractRow]
    /\ progress \subseteq Contracts
    /\ payments \in [Payments -> PaymentRow]
    /\ problems \in [Problems -> ProblemRow]
    /\ queue \in [Tickets -> QueueRow]

\* The undecided queue rows of a problem, and of any problem of a contract.
PendingTickets(p) ==
    {q \in Tickets : queue[q].status = "pending" /\ queue[q].entity = p}
PendingDisputes(k) ==
    {q \in Tickets : /\ queue[q].status = "pending"
                     /\ problems[queue[q].entity].contract = k}

\* A problem is on the administrators' docket exactly while it is escalated:
\* escalate_problem and review keep contract_problems and moderation_queue in
\* step, and no problem is ever queued twice.
DocketMatchesProblems ==
    /\ \A p \in Problems :
          problems[p].status = "escalated" <=> PendingTickets(p) # {}
    /\ \A q1, q2 \in Tickets :
          /\ queue[q1].status # "absent"
          /\ queue[q1].entity = queue[q2].entity
          => q1 = q2

\* A DISPUTED contract refuses accept, cancel and complete; the only way out
\* is a ruling, so some undecided queue row must lead to it.
NoStrandedDispute ==
    \A k \in Contracts :
        contracts[k].status = "disputed" => PendingDisputes(k) # {}

\* The ruling on the problem and the decision on its queue row are the same
\* decision, by the same moderator; nothing but a ruling sets a resolution
\* (contract.py: "never by the peer-resolve path").
RulingMatchesDecision ==
    /\ \A p \in Problems :
          problems[p].resolution # None <=> problems[p].status = "dispute_resolved"
    /\ \A q \in Tickets :
          queue[q].status \in {"approved", "rejected"} =>
             LET p == problems[queue[q].entity] IN
             /\ p.status = "dispute_resolved"
             /\ p.resolved_by = queue[q].reviewed_by
             /\ queue[q].status = "approved" <=> p.resolution \in FaultRulings

\* Both parties' confirmations are on file for a COMPLETED contract.
CompletedByBoth ==
    \A k \in Contracts :
        contracts[k].status = "completed" =>
            contracts[k].employer_confirmed /\ contracts[k].worker_confirmed

\* A confirmed payment was confirmed by the counterparty of whoever logged it.
ConfirmedByCounterparty ==
    \A y \in Payments :
        payments[y].status = "confirmed" =>
            LET c == contracts[payments[y].contract] IN
            /\ IsParty(c, payments[y].logged_by)
            /\ payments[y].confirmed_by = OtherParty(c, payments[y].logged_by)

\* A CANCELLED contract says who ended it: the party that cancelled, or, with
\* no user named, the ruling (moderation/service.py: "system/admin action").
CancellationAttributed ==
    \A k \in Contracts :
        LET c == contracts[k] IN
        c.status = "cancelled" =>
            /\ c.cancelled
            /\ c.cancelled_by = None <=> c.reason \in FaultRulings
            /\ c.cancelled_by # None => IsParty(c, c.cancelled_by)

-----------------------------------------------------------------------------
(* The tables implement the abstract docket.  A problem is at a stage when *)
(* its own row and its queue rows agree on it; rows that disagree are at   *)
(* "inconsistent", a stage no step of the docket leads to.                 *)

Stage(p) ==
    LET status   == problems[p].status
        unqueued == \A q \in Tickets : queue[q].entity # p
        pending  == PendingTickets(p) # {}
    IN  CASE status = "absent" /\ unqueued            -> "unreported"
          [] status = "open" /\ unqueued              -> "open"
          [] status = "resolved" /\ unqueued          -> "settled"
          [] status = "escalated" /\ pending          -> "docketed"
          [] status = "dispute_resolved" /\ ~unqueued /\ ~pending -> "ruled"
          [] OTHER -> "inconsistent"

Docket == INSTANCE DisputeDocket WITH
              Rulings <- Resolutions,
              stage <- [p \in Problems |-> Stage(p)],
              ruling <- [p \in Problems |-> problems[p].resolution]

\* escalate_problem, resolve_problem and review, with the rows they write in
\* three tables, are one docket: nothing is queued twice, settled while it is
\* queued, ruled without being queued, or ruled again.
ImplementsDocket == Docket!DocketSpec

-----------------------------------------------------------------------------
(* What comments in the source promise and the handlers do not keep. *)

\* contract.py: ACTIVE means "both accepted".
ActiveMeansAccepted ==
    \A k \in Contracts :
        contracts[k].status = "active" => contracts[k].worker_accepted

\* moderation/service.py: "a ruling that finds fault ends the working
\* relationship", so the contract cannot be active after one.
FaultRulingEndsContract ==
    \A p \in Problems :
        problems[p].resolution \in FaultRulings =>
            contracts[problems[p].contract].status # "active"

=============================================================================
