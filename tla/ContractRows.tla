---------------------------- MODULE ContractRows ----------------------------
(***************************************************************************)
(* The rows of the work-contract module (app/db/models/contract.py and the *)
(* moderation_queue row of app/db/models/moderation.py) and what each      *)
(* request handler checks on the rows it loaded and writes into them.      *)
(*                                                                         *)
(* Every handler is a guard on loaded rows (MayAccept, MayEscalate, ...)   *)
(* and a function from a loaded row to the row the handler wants stored    *)
(* (Accepted, Disputed, ...).  WorkContract runs them one request at a     *)
(* time; WorkContractTx runs them the way the server does, with other      *)
(* requests committing between the SELECT and the UPDATE.  A definition    *)
(* marked MUTANT is the one below it with a plausible mistake in it: the   *)
(* invariants are checked to notice each of them.                          *)
(*                                                                         *)
(* A nullable timestamp is a BOOLEAN ("it has been set"): none of them is  *)
(* ever compared or cleared.  Titles, amounts, images and notes are left   *)
(* out: no handler reads them.                                             *)
(***************************************************************************)

CONSTANTS
    Users,       \* active accounts with a verified phone
    Moderators,  \* the users who hold MARKETPLACE_MODERATE
    Contracts,   \* ids of work_contracts rows
    Problems,    \* ids of contract_problems rows
    Payments,    \* ids of contract_payments rows
    Tickets,     \* ids of moderation_queue rows
    Reasons,     \* the cancellation reasons parties type
    FaultRulings,\* ContractDisputeResolution but for "dismissed"
    None         \* SQL NULL

ASSUME ModeratorsAssumption == Moderators \subseteq Users
ASSUME NoneAssumption ==
    None \notin Users \cup Contracts \cup Problems \cup Reasons
                \cup FaultRulings \cup {"dismissed"}
\* The text of a ruling ("Admin dispute ruling: ...") is none a party types.
ASSUME ReasonsAssumption ==
    Reasons \cap FaultRulings = {}
ASSUME FaultRulingsAssumption == "dismissed" \notin FaultRulings

-----------------------------------------------------------------------------
(* Columns. *)

ContractStatus ==
    {"pending", "active", "rejected", "cancelled", "disputed", "completed"}
ProblemStatus == {"open", "resolved", "escalated", "dispute_resolved"}
PaymentStatus == {"pending_confirmation", "confirmed"}
QueueStatus   == {"pending", "approved", "rejected"}

\* ContractDisputeResolution: how an administrator can rule.
Resolutions == FaultRulings \cup {"dismissed"}

\* A row with status "absent" has not been inserted yet.
ContractRow ==
    [status             : ContractStatus \cup {"absent"},
     employer           : Users \cup {None},
     worker             : Users \cup {None},
     worker_accepted    : BOOLEAN,
     employer_confirmed : BOOLEAN,
     worker_confirmed   : BOOLEAN,
     cancelled          : BOOLEAN,
     cancelled_by       : Users \cup {None},
     reason             : Reasons \cup FaultRulings \cup {None}]

ProblemRow ==
    [status      : ProblemStatus \cup {"absent"},
     contract    : Contracts \cup {None},
     escalated   : BOOLEAN,
     resolution  : Resolutions \cup {None},
     resolved_by : Users \cup {None}]

PaymentRow ==
    [status       : PaymentStatus \cup {"absent"},
     contract     : Contracts \cup {None},
     logged_by    : Users \cup {None},
     confirmed_by : Users \cup {None}]

QueueRow ==
    [status      : QueueStatus \cup {"absent"},
     entity      : Problems \cup {None},
     reviewed_by : Users \cup {None}]

NoContract ==
    [status |-> "absent", employer |-> None, worker |-> None,
     worker_accepted |-> FALSE, employer_confirmed |-> FALSE,
     worker_confirmed |-> FALSE, cancelled |-> FALSE, cancelled_by |-> None,
     reason |-> None]
NoProblem ==
    [status |-> "absent", contract |-> None, escalated |-> FALSE,
     resolution |-> None, resolved_by |-> None]
NoPayment ==
    [status |-> "absent", contract |-> None, logged_by |-> None,
     confirmed_by |-> None]
NoTicket == [status |-> "absent", entity |-> None, reviewed_by |-> None]

-----------------------------------------------------------------------------
(* Contract lifecycle (contracts/service.py). *)

\* require_party; no user is a party to a contract that does not exist.
IsParty(c, u) == u \in {c.employer, c.worker}

\* other_party
OtherParty(c, u) == IF u = c.employer THEN c.worker ELSE c.employer

NewContract(employer, worker) ==
    [NoContract EXCEPT !.status = "pending",
                       !.employer = employer, !.worker = worker]

MayAccept(c, u) == u = c.worker /\ c.status = "pending"
Accepted(c) == [c EXCEPT !.worker_accepted = TRUE, !.status = "active"]

MayReject(c, u) == u = c.worker /\ c.status = "pending"
Rejected(c, reason) == [c EXCEPT !.status = "rejected", !.reason = reason]

CANCELLABLE_STATUSES == {"pending", "active"}
MayCancel(c, u) == IsParty(c, u) /\ c.status \in CANCELLABLE_STATUSES
\* MUTANT
CancelledSwapped(c, u, reason) ==
    [c EXCEPT !.status = "cancelled", !.cancelled_by = reason,
              !.cancelled = TRUE, !.reason = u]
Cancelled(c, u, reason) ==
    [c EXCEPT !.status = "cancelled", !.cancelled_by = u,
              !.cancelled = TRUE, !.reason = reason]

MayComplete(c, u) == IsParty(c, u) /\ c.status = "active"
\* MUTANT
CompletedByEither(c, u) ==
    [c EXCEPT !.employer_confirmed = @ \/ u = c.employer,
              !.worker_confirmed = @ \/ u = c.worker,
              !.status = "completed"]
Completed(c, u) ==
    LET employerConfirmed == c.employer_confirmed \/ u = c.employer
        workerConfirmed   == c.worker_confirmed \/ u = c.worker
    IN  [c EXCEPT !.employer_confirmed = employerConfirmed,
                  !.worker_confirmed = workerConfirmed,
                  !.status = IF employerConfirmed /\ workerConfirmed
                               THEN "completed" ELSE @]

MayAddProgress(c, u) == IsParty(c, u) /\ c.status = "active"

-----------------------------------------------------------------------------
(* Payments: whoever did not log the entry confirms it. *)

NewPayment(k, u) ==
    [NoPayment EXCEPT !.status = "pending_confirmation",
                      !.contract = k, !.logged_by = u]
\* MUTANT
MayConfirmAnyEntry(y, k, u) ==
    y.contract = k /\ y.status = "pending_confirmation"
MayConfirm(y, k, u) ==
    /\ y.contract = k
    /\ y.logged_by # u
    /\ y.status = "pending_confirmation"
Confirmed(y, u) == [y EXCEPT !.status = "confirmed", !.confirmed_by = u]

-----------------------------------------------------------------------------
(* Problems: peer resolution, escalation and the administrator's ruling    *)
(* (contracts/disputes.py, moderation/service.py).                         *)

NewProblem(k) == [NoProblem EXCEPT !.status = "open", !.contract = k]

\* MUTANT
MayResolveEscalated(p, k) ==
    p.contract = k /\ p.status \in {"open", "escalated"}
MayResolve(p, k) == p.contract = k /\ p.status = "open"
PeerResolved(p, u) == [p EXCEPT !.status = "resolved", !.resolved_by = u]

\* MUTANT
MayEscalateAgain(p, k) == p.contract = k /\ p.status \in {"open", "escalated"}
MayEscalate(p, k) == p.contract = k /\ p.status = "open"
Escalated(p) == [p EXCEPT !.status = "escalated", !.escalated = TRUE]
Disputed(c) == [c EXCEPT !.status = "disputed"]

\* enqueue_contract_dispute: the new queue row is pending by default.
NewTicket(p) == [NoTicket EXCEPT !.status = "pending", !.entity = p]

MayReview(t) == t.status = "pending"
\* MUTANT
DecidedOnFault(t, m, resolution) ==
    [t EXCEPT !.status = "approved", !.reviewed_by = m]
Decided(t, m, resolution) ==
    [t EXCEPT !.status = IF resolution = "dismissed" THEN "rejected"
                                                     ELSE "approved",
              !.reviewed_by = m]

\* _apply_contract_dispute_decision, the problem's half ...
\* MUTANT
RuledOnFaultOnly(p, m, resolution) ==
    IF resolution = "dismissed"
      THEN p
      ELSE [p EXCEPT !.status = "dispute_resolved", !.resolution = resolution,
                     !.resolved_by = m]
Ruled(p, m, resolution) ==
    [p EXCEPT !.status = "dispute_resolved", !.resolution = resolution,
              !.resolved_by = m]

\* ... and the contract's half.
\* MUTANT
ContractRuledOnFaultOnly(c, resolution) ==
    IF resolution = "dismissed"
      THEN c
      ELSE [c EXCEPT !.status = "cancelled", !.cancelled_by = None,
                     !.cancelled = TRUE, !.reason = resolution]
\* MUTANT
ContractRuledKeepingCanceller(c, resolution) ==
    IF resolution = "dismissed"
      THEN [c EXCEPT !.status = "active"]
      ELSE [c EXCEPT !.status = "cancelled", !.cancelled = TRUE,
                     !.reason = resolution]
ContractRuled(c, resolution) ==
    IF resolution = "dismissed"
      THEN [c EXCEPT !.status = "active"]
      ELSE [c EXCEPT !.status = "cancelled", !.cancelled_by = None,
                     !.cancelled = TRUE, !.reason = resolution]

=============================================================================
