-------------------------- MODULE WorkContractProofs --------------------------
(***************************************************************************)
(* Proofs about WorkContract, for any number of users, contracts,          *)
(* problems, payments and queue rows.                                      *)
(***************************************************************************)
EXTENDS WorkContract, TLAPS

-----------------------------------------------------------------------------
(* The handlers' row functions map rows of a table to rows of that table.  *)

\* What the lifecycle handlers store is a work_contracts row.
LEMMA ContractRowsClosed ==
    ASSUME NEW c \in ContractRow, NEW u \in Users
    PROVE  /\ Accepted(c) \in ContractRow
           /\ \A reason \in Reasons \cup {None} : Rejected(c, reason) \in ContractRow
           /\ \A reason \in Reasons : Cancelled(c, u, reason) \in ContractRow
           /\ Completed(c, u) \in ContractRow
           /\ Disputed(c) \in ContractRow
           /\ \A r \in Resolutions : ContractRuled(c, r) \in ContractRow
<1>1. Accepted(c) \in ContractRow
  BY DEF ContractRow, ContractStatus, Accepted
<1>2. \A reason \in Reasons \cup {None} : Rejected(c, reason) \in ContractRow
  BY DEF ContractRow, ContractStatus, Rejected
<1>3. \A reason \in Reasons : Cancelled(c, u, reason) \in ContractRow
  BY DEF ContractRow, ContractStatus, Cancelled
<1>4. Completed(c, u) \in ContractRow
  BY DEF ContractRow, ContractStatus, Completed
<1>5. Disputed(c) \in ContractRow
  BY DEF ContractRow, ContractStatus, Disputed
<1>6. \A r \in Resolutions : ContractRuled(c, r) \in ContractRow
  BY DEF ContractRow, ContractStatus, Resolutions, ContractRuled
<1> QED
  BY <1>1, <1>2, <1>3, <1>4, <1>5, <1>6

\* What the problem handlers and rulings store is a contract_problems row.
LEMMA ProblemRowsClosed ==
    ASSUME NEW p \in ProblemRow, NEW u \in Users
    PROVE  /\ PeerResolved(p, u) \in ProblemRow
           /\ Escalated(p) \in ProblemRow
           /\ \A r \in Resolutions : Ruled(p, u, r) \in ProblemRow
BY DEF ProblemRow, ProblemStatus, PeerResolved, Escalated, Ruled

\* A decided queue row and a confirmed payment are rows of their tables.
LEMMA DecidedAndConfirmedRows ==
    ASSUME NEW u \in Users
    PROVE  /\ \A t \in QueueRow, r \in Resolutions : Decided(t, u, r) \in QueueRow
           /\ \A y \in PaymentRow : Confirmed(y, u) \in PaymentRow
BY DEF QueueRow, QueueStatus, Decided, PaymentRow, PaymentStatus, Confirmed

\* Rows as they are inserted.
LEMMA InsertedRows ==
    /\ NoContract \in ContractRow /\ NoProblem \in ProblemRow
    /\ NoPayment \in PaymentRow /\ NoTicket \in QueueRow
    /\ \A employer, worker \in Users : NewContract(employer, worker) \in ContractRow
    /\ \A k \in Contracts : NewProblem(k) \in ProblemRow
    /\ \A k \in Contracts, u \in Users : NewPayment(k, u) \in PaymentRow
    /\ \A p \in Problems : NewTicket(p) \in QueueRow
BY DEF ContractRow, ContractStatus, ProblemRow, ProblemStatus, PaymentRow,
       PaymentStatus, QueueRow, QueueStatus, NoContract, NoProblem, NoPayment,
       NoTicket, NewContract, NewProblem, NewPayment, NewTicket

-----------------------------------------------------------------------------
(* Type correctness.                                                       *)

\* The tables start empty, which is well typed.
LEMMA InitType == Init => TypeOK
BY InsertedRows DEF Init, TypeOK

\* Every handler keeps the tables well typed.
LEMMA StepType == TypeOK /\ [Next]_tables => TypeOK'
<1> SUFFICES ASSUME TypeOK, [Next]_tables
             PROVE  TypeOK'
  OBVIOUS
<1> USE DEF TypeOK
<1>1. ASSUME NEW employer \in Users, NEW worker \in Users, NEW k \in Contracts,
             Create(employer, worker, k)
      PROVE  TypeOK'
  BY <1>1, InsertedRows DEF Create
<1>2. ASSUME NEW u \in Users, NEW k \in Contracts, Accept(u, k)
      PROVE  TypeOK'
  BY <1>2, ContractRowsClosed DEF Accept
<1>3. ASSUME NEW u \in Users, NEW k \in Contracts, Complete(u, k)
      PROVE  TypeOK'
  BY <1>3, ContractRowsClosed DEF Complete
<1>4. ASSUME NEW u \in Users, NEW k \in Contracts, AddProgress(u, k)
      PROVE  TypeOK'
  BY <1>4 DEF AddProgress
<1>5. ASSUME NEW u \in Users, NEW k \in Contracts, NEW reason \in Reasons \cup {None},
             Reject(u, k, reason)
      PROVE  TypeOK'
  BY <1>5, ContractRowsClosed DEF Reject
<1>6. ASSUME NEW u \in Users, NEW k \in Contracts, NEW reason \in Reasons,
             Cancel(u, k, reason)
      PROVE  TypeOK'
  BY <1>6, ContractRowsClosed DEF Cancel
<1>7. ASSUME NEW u \in Users, NEW k \in Contracts, NEW y \in Payments,
             AddPayment(u, k, y)
      PROVE  TypeOK'
  BY <1>7, InsertedRows DEF AddPayment
<1>8. ASSUME NEW u \in Users, NEW k \in Contracts, NEW y \in Payments,
             ConfirmPayment(u, k, y)
      PROVE  TypeOK'
  BY <1>8, DecidedAndConfirmedRows DEF ConfirmPayment
<1>9. ASSUME NEW u \in Users, NEW k \in Contracts, NEW p \in Problems,
             AddProblem(u, k, p)
      PROVE  TypeOK'
  BY <1>9, InsertedRows DEF AddProblem
<1>10. ASSUME NEW u \in Users, NEW k \in Contracts, NEW p \in Problems,
              ResolveProblem(u, k, p)
       PROVE  TypeOK'
  BY <1>10, ProblemRowsClosed DEF ResolveProblem
<1>11. ASSUME NEW u \in Users, NEW k \in Contracts, NEW p \in Problems, NEW q \in Tickets,
              EscalateProblem(u, k, p, q)
       PROVE  TypeOK'
  BY <1>11, ProblemRowsClosed, ContractRowsClosed, InsertedRows DEF EscalateProblem
<1>12. ASSUME NEW m \in Moderators, NEW q \in Tickets, NEW resolution \in Resolutions,
              Review(m, q, resolution)
       PROVE  TypeOK'
  BY <1>12, ModeratorsAssumption, ProblemRowsClosed, ContractRowsClosed,
     DecidedAndConfirmedRows DEF Review
<1>13. CASE UNCHANGED tables
  BY <1>13 DEF tables
<1> QED
  BY <1>1, <1>2, <1>3, <1>4, <1>5, <1>6, <1>7, <1>8, <1>9, <1>10, <1>11, <1>12,
     <1>13 DEF Next

\* Every table holds rows of its model class, whatever requests run.
THEOREM TypeCorrect == Spec => []TypeOK
BY InitType, StepType, PTL DEF Spec

-----------------------------------------------------------------------------
(* Contracts and payments.                                                 *)

\* A contract that has parties has been inserted, and they are two people; a
\* payment is logged by one of them.
PartiesOnFile ==
    /\ \A k \in Contracts, u \in Users :
          IsParty(contracts[k], u) =>
             /\ contracts[k].status # "absent"
             /\ contracts[k].employer # contracts[k].worker
    /\ \A y \in Payments :
          payments[y].status # "absent" =>
             /\ payments[y].contract \in Contracts
             /\ payments[y].logged_by \in Users
             /\ IsParty(contracts[payments[y].contract], payments[y].logged_by)

\* What TLC checks of contracts and payments, strengthened to be inductive.
LifecycleInv ==
    PartiesOnFile /\ CompletedByBoth /\ ConfirmedByCounterparty /\ CancellationAttributed

\* A ruling keeps the parties, and stamps the contract if it ends it.
LEMMA RulingOnContract ==
    ASSUME NEW c \in ContractRow, NEW r \in Resolutions
    PROVE  LET d == ContractRuled(c, r) IN
           /\ d.employer = c.employer /\ d.worker = c.worker
           /\ d.status \in {"active", "cancelled"}
           /\ d.status = "cancelled" =>
                 d.cancelled /\ d.cancelled_by = None /\ d.reason \in FaultRulings
<1>1. CASE r = "dismissed"
  BY <1>1 DEF ContractRow, ContractRuled
<1>2. CASE r # "dismissed"
  BY <1>2 DEF ContractRow, ContractRuled, Resolutions
<1> QED
  BY <1>1, <1>2

\* With no rows there is nothing to attribute or confirm.
LEMMA InitLifecycle == Init => LifecycleInv
BY NoneAssumption DEF Init, LifecycleInv, PartiesOnFile, CompletedByBoth,
   ConfirmedByCounterparty, CancellationAttributed, NoContract, NoPayment, IsParty

\* Every handler keeps contracts and payments attributable and confirmed.
LEMMA StepLifecycle == TypeOK /\ LifecycleInv /\ [Next]_tables => LifecycleInv'
<1> SUFFICES ASSUME TypeOK, LifecycleInv, [Next]_tables
             PROVE  LifecycleInv'
  OBVIOUS
<1> USE NoneAssumption, ReasonsAssumption
    DEF TypeOK, ContractRow, PaymentRow, LifecycleInv, PartiesOnFile, CompletedByBoth,
        ConfirmedByCounterparty, CancellationAttributed, IsParty, OtherParty
<1>1. ASSUME NEW employer \in Users, NEW worker \in Users, NEW k \in Contracts,
             Create(employer, worker, k)
      PROVE  LifecycleInv'
  BY <1>1 DEF Create, NewContract, NoContract
<1>2. ASSUME NEW u \in Users, NEW k \in Contracts, Accept(u, k)
      PROVE  LifecycleInv'
  BY <1>2 DEF Accept, MayAccept, Accepted
<1>3. ASSUME NEW u \in Users, NEW k \in Contracts, Complete(u, k)
      PROVE  LifecycleInv'
  BY <1>3 DEF Complete, MayComplete, Completed
<1>4. ASSUME NEW u \in Users, NEW k \in Contracts, AddProgress(u, k)
      PROVE  LifecycleInv'
  BY <1>4 DEF AddProgress
<1>5. ASSUME NEW u \in Users, NEW k \in Contracts, NEW reason \in Reasons \cup {None},
             Reject(u, k, reason)
      PROVE  LifecycleInv'
  BY <1>5 DEF Reject, MayReject, Rejected
<1>6. ASSUME NEW u \in Users, NEW k \in Contracts, NEW reason \in Reasons,
             Cancel(u, k, reason)
      PROVE  LifecycleInv'
  BY <1>6 DEF Cancel, MayCancel, CANCELLABLE_STATUSES, Cancelled
<1>7. ASSUME NEW u \in Users, NEW k \in Contracts, NEW y \in Payments,
             AddPayment(u, k, y)
      PROVE  LifecycleInv'
  BY <1>7 DEF AddPayment, NewPayment, NoPayment
<1>8. ASSUME NEW u \in Users, NEW k \in Contracts, NEW y \in Payments,
             ConfirmPayment(u, k, y)
      PROVE  LifecycleInv'
  BY <1>8 DEF ConfirmPayment, MayConfirm, Confirmed
<1>9. ASSUME NEW u \in Users, NEW k \in Contracts, NEW p \in Problems,
             AddProblem(u, k, p) \/ ResolveProblem(u, k, p)
      PROVE  LifecycleInv'
  BY <1>9 DEF AddProblem, ResolveProblem
<1>10. ASSUME NEW u \in Users, NEW k \in Contracts, NEW p \in Problems, NEW q \in Tickets,
              EscalateProblem(u, k, p, q)
       PROVE  LifecycleInv'
  BY <1>10 DEF EscalateProblem, Disputed
<1>11. ASSUME NEW m \in Moderators, NEW q \in Tickets, NEW resolution \in Resolutions,
              Review(m, q, resolution)
       PROVE  LifecycleInv'
  <2> DEFINE k == problems[queue[q].entity].contract
  <2>1. /\ contracts' = [contracts EXCEPT ![k] = ContractRuled(@, resolution)]
        /\ payments' = payments
    BY <1>11 DEF Review
  <2> HIDE DEF k
  <2>2. \A j \in Contracts :
           contracts'[j] = IF j = k THEN ContractRuled(contracts[j], resolution)
                                    ELSE contracts[j]
    BY <2>1
  <2>3. \A j \in Contracts :
           /\ contracts'[j].employer = contracts[j].employer
           /\ contracts'[j].worker = contracts[j].worker
           /\ \/ contracts'[j] = contracts[j]
              \/ /\ contracts'[j].status \in {"active", "cancelled"}
                 /\ contracts'[j].status = "cancelled" =>
                       /\ contracts'[j].cancelled
                       /\ contracts'[j].cancelled_by = None
                       /\ contracts'[j].reason \in FaultRulings
    BY <2>2, RulingOnContract
  <2>4. PartiesOnFile'
    BY <2>1, <2>3
  <2>5. CompletedByBoth'
    BY <2>3
  <2>6. ConfirmedByCounterparty'
    <3> SUFFICES ASSUME NEW y \in Payments, payments[y].status = "confirmed"
                 PROVE  LET c == contracts'[payments[y].contract] IN
                        /\ IsParty(c, payments[y].logged_by)
                        /\ payments[y].confirmed_by = OtherParty(c, payments[y].logged_by)
      BY <2>1
    <3> QED
      BY <2>3
  <2>7. CancellationAttributed'
    BY <2>3
  <2> QED
    BY <2>4, <2>5, <2>6, <2>7
<1>12. CASE UNCHANGED tables
  BY <1>12 DEF tables
<1> QED
  BY <1>1, <1>2, <1>3, <1>4, <1>5, <1>6, <1>7, <1>8, <1>9, <1>10, <1>11, <1>12
     DEF Next

-----------------------------------------------------------------------------
(* Problems, disputes and the moderation queue.                            *)

\* Rows point at rows: a reported problem at its contract, a queue row at a
\* problem that was escalated, a ruled problem at the queue row of its ruling.
RowsLinked ==
    /\ \A p \in Problems :
          problems[p].status # "absent" => problems[p].contract \in Contracts
    /\ \A q \in Tickets :
          IF queue[q].status = "absent"
            THEN queue[q].entity = None
            ELSE /\ queue[q].entity \in Problems
                 /\ problems[queue[q].entity].status \in {"escalated", "dispute_resolved"}
    /\ \A p \in Problems :
          problems[p].status = "dispute_resolved" => \E q \in Tickets : queue[q].entity = p

\* What TLC checks of the docket, strengthened to be inductive.
DocketInv ==
    RowsLinked /\ DocketMatchesProblems /\ RulingMatchesDecision /\ NoStrandedDispute

\* With no rows the docket is in order.
LEMMA InitDocket == Init => DocketInv
BY NoneAssumption DEF Init, DocketInv, RowsLinked, DocketMatchesProblems, PendingTickets,
   RulingMatchesDecision, NoStrandedDispute, NoContract, NoProblem, NoTicket

\* A step that leaves problems and queue rows alone and disputes no contract
\* keeps the docket in order.
LEMMA QuietStep ==
    ASSUME DocketInv, UNCHANGED <<problems, queue>>,
           \A k \in Contracts :
              contracts'[k].status = "disputed" => contracts[k].status = "disputed"
    PROVE  DocketInv'
BY DEF DocketInv, RowsLinked, DocketMatchesProblems, PendingTickets, RulingMatchesDecision,
   NoStrandedDispute, PendingDisputes

\* A new problem is on no queue row yet.
LEMMA AddProblemDocket ==
    ASSUME TypeOK, DocketInv,
           NEW u \in Users, NEW k \in Contracts, NEW p \in Problems, AddProblem(u, k, p)
    PROVE  DocketInv'
<1> USE NoneAssumption DEF TypeOK, ProblemRow, QueueRow, DocketInv, AddProblem, NewProblem,
                           NoProblem
<1>1. RowsLinked'
  BY DEF RowsLinked
<1>2. DocketMatchesProblems'
  BY DEF RowsLinked, DocketMatchesProblems, PendingTickets
<1>3. RulingMatchesDecision'
  BY DEF RowsLinked, RulingMatchesDecision
<1>4. NoStrandedDispute'
  BY DEF RowsLinked, NoStrandedDispute, PendingDisputes
<1> QED
  BY <1>1, <1>2, <1>3, <1>4

\* The parties only settle a problem that was never queued.
LEMMA ResolveProblemDocket ==
    ASSUME TypeOK, DocketInv,
           NEW u \in Users, NEW k \in Contracts, NEW p \in Problems, ResolveProblem(u, k, p)
    PROVE  DocketInv'
<1> USE NoneAssumption DEF TypeOK, ProblemRow, QueueRow, DocketInv, ResolveProblem, MayResolve,
                           PeerResolved
<1>1. RowsLinked'
  BY DEF RowsLinked
<1>2. DocketMatchesProblems'
  BY DEF RowsLinked, DocketMatchesProblems, PendingTickets
<1>3. RulingMatchesDecision'
  BY DEF RowsLinked, RulingMatchesDecision
<1>4. NoStrandedDispute'
  BY DEF RowsLinked, NoStrandedDispute, PendingDisputes
<1> QED
  BY <1>1, <1>2, <1>3, <1>4

\* An escalation disputes the contract and queues the problem in one commit.
LEMMA EscalateProblemDocket ==
    ASSUME TypeOK, DocketInv,
           NEW u \in Users, NEW k \in Contracts, NEW p \in Problems, NEW q \in Tickets,
           EscalateProblem(u, k, p, q)
    PROVE  DocketInv'
<1> USE NoneAssumption DEF TypeOK, ProblemRow, QueueRow, DocketInv, EscalateProblem,
                           MayEscalate, Escalated, NewTicket, NoTicket
<1>1. RowsLinked'
  BY DEF RowsLinked
<1>2. DocketMatchesProblems'
  BY DEF RowsLinked, DocketMatchesProblems, PendingTickets
<1>3. RulingMatchesDecision'
  BY DEF RowsLinked, RulingMatchesDecision
<1>4. NoStrandedDispute'
  BY DEF RowsLinked, NoStrandedDispute, PendingDisputes
<1> QED
  BY <1>1, <1>2, <1>3, <1>4

\* A ruling takes its problem off the docket and its contract out of dispute.
LEMMA ReviewDocket ==
    ASSUME TypeOK, DocketInv,
           NEW m \in Moderators, NEW q \in Tickets, NEW resolution \in Resolutions,
           Review(m, q, resolution)
    PROVE  DocketInv'
<1> USE NoneAssumption DEF TypeOK, ProblemRow, QueueRow, DocketInv, Review, MayReview,
                           Ruled, Decided
<1>1. RowsLinked'
  BY DEF RowsLinked
<1>2. DocketMatchesProblems'
  BY DEF RowsLinked, DocketMatchesProblems, PendingTickets
<1>3. RulingMatchesDecision'
  <2> DEFINE ruled == queue[q].entity
  <2>1. /\ problems' = [problems EXCEPT ![ruled] = Ruled(@, m, resolution)]
        /\ queue' = [queue EXCEPT ![q] = Decided(@, m, resolution)]
        /\ ruled \in Problems
        /\ \A t \in Tickets : t # q => queue[t].entity # ruled
    BY DEF RowsLinked, DocketMatchesProblems
  <2>2. /\ problems'[ruled].status = "dispute_resolved"
        /\ problems'[ruled].resolved_by = m
        /\ problems'[ruled].resolution = resolution
        /\ queue'[q].entity = ruled
        /\ queue'[q].reviewed_by = m
        /\ queue'[q].status = "approved" <=> resolution \in FaultRulings
    BY <2>1, FaultRulingsAssumption DEF Resolutions
  <2>3. /\ \A p \in Problems \ {ruled} : problems'[p] = problems[p]
        /\ \A t \in Tickets \ {q} : queue'[t] = queue[t]
    BY <2>1
  <2> HIDE DEF ruled, Ruled, Decided, Review
  <2>4. \A p \in Problems :
           problems'[p].resolution # None <=> problems'[p].status = "dispute_resolved"
    BY <2>1, <2>2, <2>3 DEF RulingMatchesDecision, Resolutions
  <2>5. ASSUME NEW t \in Tickets, queue'[t].status \in {"approved", "rejected"}
        PROVE  LET p == problems'[queue'[t].entity] IN
               /\ p.status = "dispute_resolved"
               /\ p.resolved_by = queue'[t].reviewed_by
               /\ queue'[t].status = "approved" <=> p.resolution \in FaultRulings
    <3>1. CASE t = q
      BY <3>1, <2>2
    <3>2. CASE t # q
      BY <3>2, <2>1, <2>3, <2>5 DEF RulingMatchesDecision, RowsLinked
    <3> QED
      BY <3>1, <3>2
  <2> QED
    BY <2>4, <2>5 DEF RulingMatchesDecision
<1>4. NoStrandedDispute'
  <2> DEFINE ruledOn == problems[queue[q].entity].contract
  <2>1. \A k \in Contracts :
           IF k = ruledOn THEN contracts'[k].status # "disputed"
                          ELSE contracts'[k] = contracts[k]
    BY RulingOnContract
  <2>2. \A p \in Problems : problems'[p].contract = problems[p].contract
    OBVIOUS
  <2>3. \A t \in Tickets \ {q} : queue'[t] = queue[t]
    OBVIOUS
  <2>4. ASSUME NEW k \in Contracts, contracts'[k].status = "disputed"
        PROVE  PendingDisputes(k)' # {}
    <3>1. k # ruledOn /\ contracts[k].status = "disputed"
      BY <2>1, <2>4
    <3>2. PICK t \in Tickets :
             queue[t].status = "pending" /\ problems[queue[t].entity].contract = k
      BY <3>1 DEF NoStrandedDispute, PendingDisputes
    <3>3. t # q /\ queue[t].entity \in Problems
      BY <3>1, <3>2 DEF RowsLinked
    <3> QED
      BY <3>2, <3>3, <2>2, <2>3 DEF PendingDisputes
  <2> QED
    BY <2>4 DEF NoStrandedDispute
<1> QED
  BY <1>1, <1>2, <1>3, <1>4

\* Every handler keeps the docket in order.
LEMMA StepDocket == TypeOK /\ DocketInv /\ [Next]_tables => DocketInv'
<1> SUFFICES ASSUME TypeOK, DocketInv, [Next]_tables
             PROVE  DocketInv'
  OBVIOUS
<1>1. ASSUME NEW employer \in Users, NEW worker \in Users, NEW k \in Contracts,
             Create(employer, worker, k)
      PROVE  DocketInv'
  BY <1>1, QuietStep DEF TypeOK, Create, NewContract, NoContract
<1>2. ASSUME NEW u \in Users, NEW k \in Contracts,
             Accept(u, k) \/ Complete(u, k) \/ AddProgress(u, k)
      PROVE  DocketInv'
  <2>1. CASE Accept(u, k)
    BY <2>1, QuietStep DEF TypeOK, ContractRow, Accept, Accepted
  <2>2. CASE Complete(u, k)
    BY <2>2, QuietStep DEF TypeOK, ContractRow, Complete, MayComplete, Completed
  <2>3. CASE AddProgress(u, k)
    BY <2>3, QuietStep DEF AddProgress
  <2> QED
    BY <1>2, <2>1, <2>2, <2>3
<1>3. ASSUME NEW u \in Users, NEW k \in Contracts, NEW reason \in Reasons \cup {None},
             Reject(u, k, reason)
      PROVE  DocketInv'
  BY <1>3, QuietStep DEF TypeOK, ContractRow, Reject, Rejected
<1>4. ASSUME NEW u \in Users, NEW k \in Contracts, NEW reason \in Reasons,
             Cancel(u, k, reason)
      PROVE  DocketInv'
  BY <1>4, QuietStep DEF TypeOK, ContractRow, Cancel, Cancelled
<1>5. ASSUME NEW u \in Users, NEW k \in Contracts, NEW y \in Payments,
             AddPayment(u, k, y) \/ ConfirmPayment(u, k, y)
      PROVE  DocketInv'
  BY <1>5, QuietStep DEF AddPayment, ConfirmPayment
<1>6. CASE UNCHANGED tables
  BY <1>6, QuietStep DEF tables
<1> QED
  BY <1>1, <1>2, <1>3, <1>4, <1>5, <1>6, AddProblemDocket, ResolveProblemDocket,
     EscalateProblemDocket, ReviewDocket DEF Next

-----------------------------------------------------------------------------
(* The theorems.                                                           *)

\* Type correctness and both inductive invariants hold in every reachable state.
LEMMA Inductive == Spec => [](TypeOK /\ LifecycleInv /\ DocketInv)
<1>1. Init => TypeOK /\ LifecycleInv /\ DocketInv
  BY InitType, InitLifecycle, InitDocket
<1>2. TypeOK /\ LifecycleInv /\ DocketInv /\ [Next]_tables
         => (TypeOK /\ LifecycleInv /\ DocketInv)'
  BY StepType, StepLifecycle, StepDocket
<1> QED
  BY <1>1, <1>2, PTL DEF Spec

\* A problem is queued exactly while it is escalated, and never twice.
THEOREM DocketInStep == Spec => []DocketMatchesProblems
BY Inductive, PTL DEF DocketInv

\* No contract is DISPUTED without an undecided queue row that leads out of it.
THEOREM DisputesReachable == Spec => []NoStrandedDispute
BY Inductive, PTL DEF DocketInv

\* A problem's ruling and its queue row's decision are one decision.
THEOREM RulingsAgree == Spec => []RulingMatchesDecision
BY Inductive, PTL DEF DocketInv

\* A COMPLETED contract carries both parties' confirmations.
THEOREM CompletionNeedsBoth == Spec => []CompletedByBoth
BY Inductive, PTL DEF LifecycleInv

\* A confirmed payment was confirmed by the party that did not log it.
THEOREM PaymentsCrossChecked == Spec => []ConfirmedByCounterparty
BY Inductive, PTL DEF LifecycleInv

\* A CANCELLED contract names the party that cancelled it, or a ruling.
THEOREM CancellationsExplained == Spec => []CancellationAttributed
BY Inductive, PTL DEF LifecycleInv

-----------------------------------------------------------------------------
(* The tables implement the docket.                                        *)

\* In a reachable state a problem's own row tells its stage.
StageOf(status) ==
    CASE status = "absent"           -> "unreported"
      [] status = "open"             -> "open"
      [] status = "resolved"         -> "settled"
      [] status = "escalated"        -> "docketed"
      [] status = "dispute_resolved" -> "ruled"

\* That is the stage the refinement mapping computes.
LEMMA StageFromRow ==
    TypeOK /\ DocketInv => \A p \in Problems : Stage(p) = StageOf(problems[p].status)
<1> SUFFICES ASSUME TypeOK, DocketInv, NEW p \in Problems
             PROVE  Stage(p) = StageOf(problems[p].status)
  OBVIOUS
<1> USE DEF TypeOK, ProblemRow, ProblemStatus, QueueRow, DocketInv, RowsLinked,
            DocketMatchesProblems, StageOf, Stage
<1>1. CASE problems[p].status \in {"absent", "open", "resolved"}
  <2>1. \A q \in Tickets : queue[q].entity # p
    BY <1>1, NoneAssumption
  <2> QED
    BY <1>1, <2>1
<1>2. CASE problems[p].status = "escalated"
  BY <1>2
<1>3. CASE problems[p].status = "dispute_resolved"
  <2>1. PendingTickets(p) = {} /\ ~ \A q \in Tickets : queue[q].entity # p
    BY <1>3
  <2> QED
    BY <1>3, <2>1
<1> QED
  BY <1>1, <1>2, <1>3

\* Every handler is a step of the docket or leaves it alone.
LEMMA DocketStep ==
    TypeOK /\ DocketInv /\ [Next]_tables /\ TypeOK' /\ DocketInv'
       => [Docket!DocketNext]_(Docket!docketVars)
<1> SUFFICES ASSUME TypeOK, DocketInv, [Next]_tables, TypeOK', DocketInv'
             PROVE  [Docket!DocketNext]_(Docket!docketVars)
  OBVIOUS
<1> DEFINE stage  == [p \in Problems |-> Stage(p)]
           ruling == [p \in Problems |-> problems[p].resolution]
\* The stages before and after the step, read off the problem rows.
<1>1. stage = [p \in Problems |-> StageOf(problems[p].status)]
  BY StageFromRow
<1>2. (TypeOK /\ DocketInv => \A p \in Problems : Stage(p) = StageOf(problems[p].status))'
  BY StageFromRow, PTL
<1>3. stage' = [p \in Problems |-> StageOf(problems'[p].status)]
  BY <1>2
<1> HIDE DEF stage
<1>4. SUFFICES \/ Docket!DocketNext
               \/ stage' = stage /\ ruling' = ruling
  BY DEF Docket!docketVars, stage
<1>5. CASE UNCHANGED problems
  BY <1>1, <1>3, <1>5
\* A step that rewrites one problem row moves one problem on.
<1>6. ASSUME NEW p \in Problems, NEW row, problems' = [problems EXCEPT ![p] = row]
      PROVE  /\ stage' = [stage EXCEPT ![p] = StageOf(row.status)]
             /\ ruling' = [ruling EXCEPT ![p] = row.resolution]
  BY <1>1, <1>3, <1>6 DEF TypeOK
<1>7. \A p \in Problems :
         /\ stage[p] = StageOf(problems[p].status)
         /\ ruling[p] = problems[p].resolution
         /\ problems[p].status = "absent" => problems[p].resolution = None
         /\ ruling = [ruling EXCEPT ![p] = problems[p].resolution]
  BY <1>1 DEF TypeOK, ProblemRow, DocketInv, RulingMatchesDecision
<1> HIDE DEF ruling
<1>8. ASSUME NEW u \in Users, NEW k \in Contracts, NEW p \in Problems,
             AddProblem(u, k, p)
      PROVE  Docket!DocketNext
  <2>1. /\ problems[p].status = "absent"
        /\ problems' = [problems EXCEPT ![p] = NewProblem(k)]
        /\ NewProblem(k).status = "open" /\ NewProblem(k).resolution = None
    BY <1>8 DEF AddProblem, NewProblem, NoProblem
  <2>2. stage[p] = "unreported" /\ stage' = [stage EXCEPT ![p] = "open"] /\ ruling' = ruling
    <3>1. ruling' = [ruling EXCEPT ![p] = problems[p].resolution]
      BY <2>1, <1>6, <1>7
    <3> QED
      BY <3>1, <2>1, <1>6, <1>7 DEF StageOf
  <2> QED
    BY <2>2 DEF Docket!DocketNext, Docket!Report, stage, ruling
<1>9. ASSUME NEW u \in Users, NEW k \in Contracts, NEW p \in Problems,
             ResolveProblem(u, k, p)
      PROVE  Docket!DocketNext
  <2> DEFINE row == PeerResolved(problems[p], u)
  <2>1. problems[p].status = "open" /\ problems' = [problems EXCEPT ![p] = row]
    BY <1>9 DEF ResolveProblem, MayResolve
  <2>2. row.status = "resolved" /\ row.resolution = problems[p].resolution
    BY DEF PeerResolved, TypeOK, ProblemRow
  <2> HIDE DEF row
  <2>3. stage[p] = "open" /\ stage' = [stage EXCEPT ![p] = "settled"] /\ ruling' = ruling
    <3>1. ruling' = [ruling EXCEPT ![p] = problems[p].resolution]
      BY <2>1, <2>2, <1>6, <1>7
    <3> QED
      BY <3>1, <2>1, <2>2, <1>6, <1>7 DEF StageOf
  <2> QED
    BY <2>3 DEF Docket!DocketNext, Docket!Settle, stage, ruling
<1>10. ASSUME NEW u \in Users, NEW k \in Contracts, NEW p \in Problems, NEW q \in Tickets,
              EscalateProblem(u, k, p, q)
       PROVE  Docket!DocketNext
  <2> DEFINE row == Escalated(problems[p])
  <2>1. problems[p].status = "open" /\ problems' = [problems EXCEPT ![p] = row]
    BY <1>10 DEF EscalateProblem, MayEscalate
  <2>2. row.status = "escalated" /\ row.resolution = problems[p].resolution
    BY DEF Escalated, TypeOK, ProblemRow
  <2> HIDE DEF row
  <2>3. stage[p] = "open" /\ stage' = [stage EXCEPT ![p] = "docketed"] /\ ruling' = ruling
    <3>1. ruling' = [ruling EXCEPT ![p] = problems[p].resolution]
      BY <2>1, <2>2, <1>6, <1>7
    <3> QED
      BY <3>1, <2>1, <2>2, <1>6, <1>7 DEF StageOf
  <2> QED
    BY <2>3 DEF Docket!DocketNext, Docket!Docket, stage, ruling
<1>11. ASSUME NEW m \in Moderators, NEW q \in Tickets, NEW resolution \in Resolutions,
              Review(m, q, resolution)
       PROVE  Docket!DocketNext
  <2> DEFINE p == queue[q].entity
             row == Ruled(problems[p], m, resolution)
  <2>1. p \in Problems /\ problems[p].status = "escalated"
    <3>1. queue[q].status = "pending" /\ p \in Problems
      BY <1>11 DEF Review, MayReview, DocketInv, RowsLinked
    <3>2. q \in PendingTickets(p)
      BY <3>1 DEF PendingTickets
    <3> QED
      BY <3>1, <3>2 DEF DocketInv, DocketMatchesProblems
  <2>2. problems' = [problems EXCEPT ![p] = row]
    BY <1>11 DEF Review
  <2>3. row.status = "dispute_resolved" /\ row.resolution = resolution
    BY <2>1 DEF Ruled, TypeOK, ProblemRow
  <2> HIDE DEF p, row
  <2>4. /\ stage[p] = "docketed"
        /\ stage' = [stage EXCEPT ![p] = "ruled"]
        /\ ruling' = [ruling EXCEPT ![p] = resolution]
    BY <2>1, <2>2, <2>3, <1>6, <1>7 DEF StageOf
  <2> QED
    BY <2>1, <2>4 DEF Docket!DocketNext, Docket!Rule, stage, ruling
<1>12. CASE UNCHANGED tables
  BY <1>5, <1>12 DEF tables
<1> QED
  BY <1>5, <1>8, <1>9, <1>10, <1>11, <1>12
     DEF Next, Create, Accept, Complete, AddProgress, Reject, Cancel, AddPayment,
         ConfirmPayment

\* The five handlers and three tables behind a dispute implement the docket.
THEOREM DocketRefined == Spec => ImplementsDocket
<1>1. Init => Docket!DocketInit
  BY NoneAssumption
     DEF Init, NoProblem, NoTicket, Docket!DocketInit, Stage, PendingTickets
<1>2. TypeOK /\ DocketInv /\ [Next]_tables /\ TypeOK' /\ DocketInv'
         => [Docket!DocketNext]_(Docket!docketVars)
  BY DocketStep
<1> QED
  BY <1>1, <1>2, Inductive, PTL DEF Spec, ImplementsDocket, Docket!DocketSpec

=============================================================================
