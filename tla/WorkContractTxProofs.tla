------------------------- MODULE WorkContractTxProofs -------------------------
(***************************************************************************)
(* Proofs about WorkContractTx: what stays true of contracts and disputes  *)
(* however the loads and commits of any number of sessions interleave.     *)
(***************************************************************************)
EXTENDS WorkContractTx, WorkContractProofs

-----------------------------------------------------------------------------
(* What a session may write into each table.                               *)

\* The columns that record what a party or a ruling did.
Stamps == {"worker_accepted", "employer_confirmed", "worker_confirmed", "cancelled"}

ContractWrites(op, w) ==
    /\ Updated(NoContract, w) \in ContractRow
    /\ "employer" \notin DOMAIN w /\ "worker" \notin DOMAIN w
    /\ \A stamp \in Stamps : stamp \in DOMAIN w => w[stamp]
    /\ "status" \in DOMAIN w =>
          w["status"] # "absent" /\ (w["status"] = "disputed" => op = "escalate_problem")

ProblemWrites(op, w) ==
    /\ Updated(NoProblem, w) \in ProblemRow
    /\ "contract" \notin DOMAIN w
    /\ "escalated" \in DOMAIN w => w["escalated"]
    /\ "resolution" \in DOMAIN w => w["resolution"] # None
    /\ "status" \in DOMAIN w =>
          w["status"] # "absent" /\ (w["status"] = "escalated" => op = "escalate_problem")

TicketWrites(w) ==
    /\ Updated(NoTicket, w) \in QueueRow
    /\ "entity" \notin DOMAIN w
    /\ "status" \in DOMAIN w => w["status"] \in {"approved", "rejected"}

\* Writing nothing is allowed of any session.
LEMMA NoWritesAllowed ==
    ASSUME NEW op
    PROVE  ContractWrites(op, NoWrites) /\ ProblemWrites(op, NoWrites) /\ TicketWrites(NoWrites)
<1>1. /\ Updated(NoContract, NoWrites) = NoContract
      /\ Updated(NoProblem, NoWrites) = NoProblem
      /\ Updated(NoTicket, NoWrites) = NoTicket
  BY DEF Updated, NoWrites, NoContract, NoProblem, NoTicket
<1>2. NoContract \in ContractRow /\ NoProblem \in ProblemRow /\ NoTicket \in QueueRow
  BY DEF ContractRow, ProblemRow, QueueRow, NoContract, NoProblem, NoTicket
<1> QED
  BY <1>1, <1>2 DEF ContractWrites, ProblemWrites, TicketWrites, NoWrites

\* The changes from one contract row to another are allowed if the row wanted
\* keeps the parties and every stamp.
LEMMA ContractChanges ==
    ASSUME NEW op, NEW c \in ContractRow, NEW d \in ContractRow,
           d.employer = c.employer, d.worker = c.worker,
           c.worker_accepted => d.worker_accepted,
           c.employer_confirmed => d.employer_confirmed,
           c.worker_confirmed => d.worker_confirmed,
           c.cancelled => d.cancelled,
           d.status # "absent",
           d.status = "disputed" => op = "escalate_problem"
    PROVE  /\ ContractWrites(op, Changes(c, d))
           /\ "status" \in DOMAIN Changes(c, d) <=> c.status # d.status
           /\ "status" \in DOMAIN Changes(c, d) => Changes(c, d)["status"] = d.status
<1> DEFINE w == Changes(c, d)
<1>1. \A column \in DOMAIN w : column \in DOMAIN c /\ w[column] = d[column] /\ w[column] # c[column]
  BY DEF Changes
<1>2. /\ DOMAIN c = DOMAIN NoContract
      /\ DOMAIN NoContract = {"status", "employer", "worker", "worker_accepted", "employer_confirmed",
                     "worker_confirmed", "cancelled", "cancelled_by", "reason"}
  BY DEF ContractRow, NoContract
<1>3. Updated(NoContract, w) \in ContractRow
  BY <1>1, <1>2 DEF Updated, NoContract, ContractRow, ContractStatus
<1>4. \A stamp \in Stamps : stamp \in DOMAIN w => w[stamp]
  BY <1>1 DEF Stamps, ContractRow
<1>5. "employer" \notin DOMAIN w /\ "worker" \notin DOMAIN w
  BY <1>1
<1>6. /\ "status" \in DOMAIN w <=> c.status # d.status
      /\ "status" \in DOMAIN w => w["status"] = d.status
  BY <1>1, <1>2 DEF Changes
<1> HIDE DEF w
<1>7. ContractWrites(op, w)
  BY <1>3, <1>4, <1>5, <1>6 DEF ContractWrites
<1> QED
  BY <1>6, <1>7 DEF w

\* The same of problem rows.
LEMMA ProblemChanges ==
    ASSUME NEW op, NEW c \in ProblemRow, NEW d \in ProblemRow,
           d.contract = c.contract, c.escalated => d.escalated,
           d.resolution = c.resolution \/ d.resolution # None,
           d.status # "absent",
           d.status = "escalated" => op = "escalate_problem"
    PROVE  /\ ProblemWrites(op, Changes(c, d))
           /\ "status" \in DOMAIN Changes(c, d) <=> c.status # d.status
<1> DEFINE w == Changes(c, d)
<1>1. \A column \in DOMAIN w : column \in DOMAIN c /\ w[column] = d[column] /\ w[column] # c[column]
  BY DEF Changes
<1>2. /\ DOMAIN c = DOMAIN NoProblem
      /\ DOMAIN NoProblem = {"status", "contract", "escalated", "resolution", "resolved_by"}
  BY DEF ProblemRow, NoProblem
<1>3. Updated(NoProblem, w) \in ProblemRow
  BY <1>1, <1>2 DEF Updated, NoProblem, ProblemRow, ProblemStatus
<1>4. "status" \in DOMAIN w <=> c.status # d.status
  BY <1>1, <1>2 DEF Changes
<1>5. "escalated" \in DOMAIN w => w["escalated"]
  BY <1>1 DEF ProblemRow
<1>6. /\ "contract" \notin DOMAIN w
      /\ "resolution" \in DOMAIN w => w["resolution"] # None
      /\ "status" \in DOMAIN w => w["status"] = d.status
  BY <1>1
<1> HIDE DEF w
<1>7. ProblemWrites(op, w)
  BY <1>3, <1>4, <1>5, <1>6 DEF ProblemWrites
<1> QED
  BY <1>4, <1>7 DEF w

\* A decision changes the status and the reviewer of a queue row.
LEMMA TicketChanges ==
    ASSUME NEW t \in QueueRow, NEW m \in Users, NEW r \in Resolutions
    PROVE  TicketWrites(Changes(t, Decided(t, m, r)))
<1> DEFINE d == Decided(t, m, r)
           w == Changes(t, d)
<1>0. /\ d \in QueueRow /\ d.entity = t.entity /\ d.status \in {"approved", "rejected"}
  BY DEF Decided, QueueRow, QueueStatus
<1> HIDE DEF d
<1>1. \A column \in DOMAIN w : column \in DOMAIN t /\ w[column] = d[column] /\ w[column] # t[column]
  BY DEF Changes
<1>2. /\ DOMAIN t = DOMAIN NoTicket
      /\ DOMAIN NoTicket = {"status", "entity", "reviewed_by"}
  BY DEF QueueRow, NoTicket
<1>3. Updated(NoTicket, w) \in QueueRow
  BY <1>0, <1>1, <1>2 DEF Updated, NoTicket, QueueRow, QueueStatus
<1> HIDE DEF w
<1> QED
  BY <1>0, <1>1, <1>3 DEF TicketWrites, w, d

-----------------------------------------------------------------------------
(* What an UPDATE does to a stored row.                                    *)

\* The row stays a work_contracts row of the same parties, keeps its stamps,
\* and has a new status only if one was written.
LEMMA ContractUpdated ==
    ASSUME NEW op, NEW c \in ContractRow, NEW w, ContractWrites(op, w)
    PROVE  /\ Updated(c, w) \in ContractRow
           /\ \A stamp \in Stamps : c[stamp] => Updated(c, w)[stamp]
           /\ Updated(c, w).employer_confirmed <=> c.employer_confirmed \/ "employer_confirmed" \in DOMAIN w
           /\ Updated(c, w).worker_confirmed <=> c.worker_confirmed \/ "worker_confirmed" \in DOMAIN w
           /\ Updated(c, w).status = IF "status" \in DOMAIN w THEN w["status"] ELSE c.status
<1> DEFINE n == Updated(NoContract, w)
           d == Updated(c, w)
<1>1. /\ DOMAIN c = DOMAIN NoContract
      /\ DOMAIN NoContract = {"status", "employer", "worker", "worker_accepted", "employer_confirmed",
                     "worker_confirmed", "cancelled", "cancelled_by", "reason"}
  BY DEF ContractRow, NoContract
<1>2. /\ d = [column \in DOMAIN c |-> IF column \in DOMAIN w THEN w[column] ELSE c[column]]
      /\ \A column \in DOMAIN NoContract : column \in DOMAIN w => n[column] = w[column]
      /\ n \in ContractRow
  BY DEF Updated, ContractWrites
<1>3. \A column \in DOMAIN NoContract : column \in DOMAIN w => d[column] = n[column]
  BY <1>1, <1>2
<1>4. \A column \in DOMAIN NoContract : column \notin DOMAIN w => d[column] = c[column]
  BY <1>1, <1>2
<1>5. \A stamp \in Stamps : stamp \in DOMAIN w => w[stamp]
  BY DEF ContractWrites
<1> HIDE DEF n, d
<1>6. d \in ContractRow
  BY <1>1, <1>2, <1>3, <1>4 DEF ContractRow
<1>7. \A stamp \in Stamps : d[stamp] <=> c[stamp] \/ stamp \in DOMAIN w
  BY <1>1, <1>2, <1>5, <1>6 DEF Stamps, ContractRow
<1>8. d.status = IF "status" \in DOMAIN w THEN w["status"] ELSE c.status
  BY <1>1, <1>2
<1> QED
  BY <1>6, <1>7, <1>8 DEF d, Stamps

\* The same of a contract_problems row.
LEMMA ProblemUpdated ==
    ASSUME NEW op, NEW c \in ProblemRow, NEW w, ProblemWrites(op, w)
    PROVE  /\ Updated(c, w) \in ProblemRow
           /\ Updated(c, w).contract = c.contract
           /\ c.escalated => Updated(c, w).escalated
           /\ c.resolution # None => Updated(c, w).resolution # None
           /\ Updated(c, w).status = IF "status" \in DOMAIN w THEN w["status"] ELSE c.status
<1> DEFINE n == Updated(NoProblem, w)
           d == Updated(c, w)
<1>1. /\ DOMAIN c = DOMAIN NoProblem
      /\ DOMAIN NoProblem = {"status", "contract", "escalated", "resolution", "resolved_by"}
  BY DEF ProblemRow, NoProblem
<1>2. /\ d = [column \in DOMAIN c |-> IF column \in DOMAIN w THEN w[column] ELSE c[column]]
      /\ \A column \in DOMAIN NoProblem : column \in DOMAIN w => n[column] = w[column]
      /\ n \in ProblemRow
  BY DEF Updated, ProblemWrites
<1> HIDE DEF n, d
<1>3. d \in ProblemRow
  BY <1>1, <1>2 DEF ProblemRow
<1>4. /\ d.contract = c.contract
      /\ c.escalated => d.escalated
      /\ c.resolution # None => d.resolution # None
      /\ d.status = IF "status" \in DOMAIN w THEN w["status"] ELSE c.status
  BY <1>1, <1>2 DEF ProblemWrites
<1> QED
  BY <1>3, <1>4 DEF d

\* The same of a moderation_queue row.
LEMMA TicketUpdated ==
    ASSUME NEW c \in QueueRow, NEW w, TicketWrites(w)
    PROVE  /\ Updated(c, w) \in QueueRow
           /\ Updated(c, w).entity = c.entity
           /\ c.status # "absent" => Updated(c, w).status # "absent"
<1> DEFINE n == Updated(NoTicket, w)
           d == Updated(c, w)
<1>1. /\ DOMAIN c = DOMAIN NoTicket
      /\ DOMAIN NoTicket = {"status", "entity", "reviewed_by"}
  BY DEF QueueRow, NoTicket
<1>2. /\ d = [column \in DOMAIN c |-> IF column \in DOMAIN w THEN w[column] ELSE c[column]]
      /\ \A column \in DOMAIN NoTicket : column \in DOMAIN w => n[column] = w[column]
      /\ n \in QueueRow
  BY DEF Updated, TicketWrites
<1> HIDE DEF n, d
<1>3. d \in QueueRow
  BY <1>1, <1>2 DEF QueueRow
<1>4. d.entity = c.entity /\ (c.status # "absent" => d.status # "absent")
  BY <1>1, <1>2 DEF TicketWrites
<1> QED
  BY <1>3, <1>4 DEF d

-----------------------------------------------------------------------------
(* The inductive invariant.                                                *)

\* A row that was not inserted is blank; a problem belongs to a contract and a
\* queue row to a problem that were.
Rows ==
    /\ \A k \in Contracts : contracts[k].status = "absent" => contracts[k] = NoContract
    /\ \A p \in Problems :
          IF problems[p].status = "absent"
            THEN problems[p] = NoProblem
            ELSE /\ problems[p].contract \in Contracts
                 /\ contracts[problems[p].contract].status # "absent"
    /\ \A q \in Tickets :
          queue[q].status # "absent" =>
             queue[q].entity \in Problems /\ problems[queue[q].entity].status # "absent"

\* Only a confirmation writes "completed", and only if it confirms for a
\* party whose counterparty's confirmation is in the row or in the write.
CompletesForBoth(op, w, row) ==
    "status" \in DOMAIN w /\ w["status"] = "completed" =>
        /\ op = "contract"
        /\ row.employer_confirmed \/ "employer_confirmed" \in DOMAIN w
        /\ row.worker_confirmed \/ "worker_confirmed" \in DOMAIN w

\* What a session holds at each step of the handler it runs, against the
\* tables as they are now.
RequestOK(r, cs, ps, ts) ==
    /\ DOMAIN r = DOMAIN Idle
    /\ r.op \in {"none", "contract", "resolve_problem", "escalate_problem", "review"}
    /\ r.next \in {"load_problem", "load_contract", "commit"}
    /\ r.actor \in Users \cup {None} /\ r.ruling \in Resolutions \cup {None}
    /\ r.k \in Contracts \cup {None} /\ r.p \in Problems \cup {None}
    /\ r.q \in Tickets \cup {None}
    /\ ContractWrites(r.op, r.contract)
    /\ ProblemWrites(r.op, r.problem)
    /\ TicketWrites(r.ticket)
    /\ r.next = "load_contract" => r.op = "review"
    /\ r.op \in {"contract", "escalate_problem"} =>
          r.k \in Contracts /\ cs[r.k].status # "absent"
    /\ CompletesForBoth(r.op, r.contract, cs[r.k])
    /\ r.op = "resolve_problem" =>
          /\ r.p \in Problems
          /\ r.next = "load_problem" => r.actor \in Users
          /\ r.next = "commit" => ps[r.p].status # "absent"
    /\ r.op = "escalate_problem" =>
          /\ r.p \in Problems
          /\ r.next = "commit" => ps[r.p].status # "absent" /\ ps[r.p].contract = r.k
    /\ r.op = "review" =>
          /\ r.q \in Tickets /\ ts[r.q].status # "absent" /\ r.p = ts[r.q].entity
          /\ r.next = "load_problem" => r.actor \in Users
          /\ r.next # "commit" => r.ruling \in Resolutions
          /\ r.next # "load_problem" => r.k = ps[r.p].contract

Requests == \A s \in Sessions : RequestOK(inflight[s], contracts, problems, queue)

\* The reviews of a queue row that are past loading its problem, or about to
\* commit.
RulesOn(s, q) == inflight[s].op = "review" /\ inflight[s].q = q
PastProblem(s, q) == RulesOn(s, q) /\ inflight[s].next # "load_problem"
Committing(s, q) == RulesOn(s, q) /\ inflight[s].next = "commit"

\* An escalated problem has a pending queue row whose rulings, even those in
\* flight, will take the problem out of "escalated" when they decide the row.
EscalationsBacked ==
    \A p \in Problems :
        problems[p].status = "escalated" =>
            \E q \in PendingTickets(p) :
                \A s \in Sessions : PastProblem(s, q) => "status" \in DOMAIN inflight[s].problem

\* The same of a disputed contract and the queue rows of its problems.
DisputesBacked ==
    \A k \in Contracts :
        contracts[k].status = "disputed" =>
            \E q \in PendingDisputes(k) :
                \A s \in Sessions : Committing(s, q) => "status" \in DOMAIN inflight[s].contract

TxInv ==
    /\ TypeOK
    /\ DOMAIN inflight = Sessions
    /\ Rows
    /\ Requests
    /\ EscalationsBacked
    /\ DisputesBacked
    /\ CompletedByBoth

\* What every step keeps of the tables; the other sessions rely on it.
Kept ==
    /\ \A k \in Contracts :
          /\ contracts[k].status # "absent" => contracts'[k].status # "absent"
          /\ \A stamp \in Stamps : contracts[k][stamp] => contracts'[k][stamp]
    /\ \A p \in Problems :
          /\ problems[p].status # "absent" =>
                /\ problems'[p].status # "absent"
                /\ problems'[p].contract = problems[p].contract
          /\ problems[p].escalated => problems'[p].escalated
          /\ problems[p].resolution # None => problems'[p].resolution # None
    /\ \A q \in Tickets :
          queue[q].status # "absent" =>
             queue'[q].status # "absent" /\ queue'[q].entity = queue[q].entity

\* A request in flight stays in order while others commit.
LEMMA RequestStays ==
    ASSUME Rows, Kept, NEW r, RequestOK(r, contracts, problems, queue)
    PROVE  RequestOK(r, contracts', problems', queue')
<1>1. CompletesForBoth(r.op, r.contract, contracts'[r.k])
  <2>1. ASSUME r.op = "contract"
        PROVE  /\ contracts[r.k].employer_confirmed => contracts'[r.k].employer_confirmed
               /\ contracts[r.k].worker_confirmed => contracts'[r.k].worker_confirmed
    BY <2>1 DEF RequestOK, Kept, Stamps
  <2> QED
    BY <2>1 DEF RequestOK, CompletesForBoth
<1>2. r.op \in {"contract", "escalate_problem"} =>
          r.k \in Contracts /\ contracts'[r.k].status # "absent"
  BY DEF RequestOK, Kept
<1>3. r.op = "resolve_problem" =>
          /\ r.p \in Problems
          /\ r.next = "load_problem" => r.actor \in Users
          /\ r.next = "commit" => problems'[r.p].status # "absent"
  BY DEF RequestOK, Kept
<1>4. r.op = "escalate_problem" =>
          /\ r.p \in Problems
          /\ r.next = "commit" => problems'[r.p].status # "absent" /\ problems'[r.p].contract = r.k
  BY DEF RequestOK, Kept
<1>5. r.op = "review" =>
          /\ r.q \in Tickets /\ queue'[r.q].status # "absent" /\ r.p = queue'[r.q].entity
          /\ r.next = "load_problem" => r.actor \in Users
          /\ r.next # "commit" => r.ruling \in Resolutions
          /\ r.next # "load_problem" => r.k = problems'[r.p].contract
  BY DEF RequestOK, Kept, Rows
<1> QED
  BY <1>1, <1>2, <1>3, <1>4, <1>5 DEF RequestOK

\* An idle session is in order whatever the tables are.
LEMMA IdleOK == ASSUME NEW cs, NEW ps, NEW ts PROVE RequestOK(Idle, cs, ps, ts)
BY NoWritesAllowed DEF RequestOK, Idle, CompletesForBoth, NoWrites

-----------------------------------------------------------------------------
(* Steps of one session that write no row: starts, loads, rollbacks.       *)

\* When one session moves to a request that is in order, all sessions stay so.
LEMMA SessionMoves ==
    ASSUME TxInv, Kept, NEW s \in Sessions, NEW r,
           inflight' = [inflight EXCEPT ![s] = r],
           RequestOK(r, contracts', problems', queue')
    PROVE  DOMAIN inflight' = Sessions /\ Requests'
<1>1. DOMAIN inflight' = Sessions /\ inflight'[s] = r
  BY DEF TxInv
<1>2. \A t \in Sessions : RequestOK(inflight'[t], contracts', problems', queue')
  <2> SUFFICES ASSUME NEW t \in Sessions, t # s
               PROVE  RequestOK(inflight'[t], contracts', problems', queue')
    BY <1>1
  <2>1. inflight'[t] = inflight[t]
    BY DEF TxInv
  <2>2. RequestOK(inflight[t], contracts, problems, queue)
    BY DEF TxInv, Requests
  <2> QED
    BY <2>1, <2>2, RequestStays DEF TxInv
<1> QED
  BY <1>1, <1>2 DEF Requests

\* A step that leaves the tables alone keeps everything, provided that a review
\* which has loaded an escalated problem or a disputed contract will write its
\* status.
LEMMA TablesAlone ==
    ASSUME TxInv, UNCHANGED tables, NEW s \in Sessions, NEW r,
           inflight' = [inflight EXCEPT ![s] = r],
           RequestOK(r, contracts, problems, queue),
           r.op = "review" /\ r.next # "load_problem" /\ problems[r.p].status = "escalated" =>
              \/ "status" \in DOMAIN r.problem
              \/ PastProblem(s, r.q) /\ r.problem = inflight[s].problem,
           r.op = "review" /\ r.next = "commit" /\ contracts[r.k].status = "disputed" =>
              "status" \in DOMAIN r.contract
    PROVE  TxInv' /\ Kept
<1>1. Kept
  BY DEF Kept, tables
<1>2. DOMAIN inflight' = Sessions /\ Requests'
  BY <1>1, SessionMoves DEF tables
<1>3. TypeOK' /\ Rows' /\ CompletedByBoth'
  BY DEF TxInv, TypeOK, Rows, CompletedByBoth, tables
<1>4. /\ inflight'[s] = r
      /\ \A t \in Sessions : t # s => inflight'[t] = inflight[t]
  BY DEF TxInv
<1>5. EscalationsBacked'
  <2> SUFFICES ASSUME NEW p \in Problems, problems[p].status = "escalated"
               PROVE  \E q \in PendingTickets(p)' : \A t \in Sessions :
                         PastProblem(t, q)' => "status" \in DOMAIN inflight'[t].problem
    BY DEF EscalationsBacked, tables
  <2>1. PICK q \in PendingTickets(p) : \A t \in Sessions :
            PastProblem(t, q) => "status" \in DOMAIN inflight[t].problem
    BY DEF TxInv, EscalationsBacked
  <2>2. q \in PendingTickets(p)' /\ queue[q].entity = p
    BY DEF PendingTickets, tables
  <2>3. ASSUME PastProblem(s, q)'
        PROVE  "status" \in DOMAIN inflight'[s].problem
    <3>1. r.op = "review" /\ r.q = q /\ r.next # "load_problem"
      BY <1>4, <2>3 DEF PastProblem, RulesOn
    <3>2. r.p = p
      BY <2>2, <3>1 DEF RequestOK
    <3> QED
      BY <1>4, <2>1, <3>1, <3>2
  <2>4. ASSUME NEW t \in Sessions, t # s, PastProblem(t, q)'
        PROVE  "status" \in DOMAIN inflight'[t].problem
    BY <1>4, <2>1, <2>4 DEF PastProblem, RulesOn
  <2> QED
    BY <2>2, <2>3, <2>4
<1>6. DisputesBacked'
  <2> SUFFICES ASSUME NEW k \in Contracts, contracts[k].status = "disputed"
               PROVE  \E q \in PendingDisputes(k)' : \A t \in Sessions :
                         Committing(t, q)' => "status" \in DOMAIN inflight'[t].contract
    BY DEF DisputesBacked, tables
  <2>1. PICK q \in PendingDisputes(k) : \A t \in Sessions :
            Committing(t, q) => "status" \in DOMAIN inflight[t].contract
    BY DEF TxInv, DisputesBacked
  <2>2. q \in PendingDisputes(k)' /\ problems[queue[q].entity].contract = k
    BY DEF PendingDisputes, tables
  <2>3. ASSUME Committing(s, q)'
        PROVE  "status" \in DOMAIN inflight'[s].contract
    <3>1. r.op = "review" /\ r.q = q /\ r.next = "commit"
      BY <1>4, <2>3 DEF Committing, RulesOn
    <3>2. r.k = k
      BY <2>2, <3>1 DEF RequestOK
    <3> QED
      BY <1>4, <3>1, <3>2
  <2>4. ASSUME NEW t \in Sessions, t # s, Committing(t, q)'
        PROVE  "status" \in DOMAIN inflight'[t].contract
    BY <1>4, <2>1, <2>4 DEF Committing, RulesOn
  <2> QED
    BY <2>2, <2>3, <2>4
<1> QED
  BY <1>1, <1>2, <1>3, <1>5, <1>6 DEF TxInv

\* Rollback.
LEMMA RollbackStep ==
    ASSUME TxInv, NEW s \in Sessions, Rollback(s)
    PROVE  TxInv' /\ Kept
<1>1. RequestOK(Idle, contracts, problems, queue) /\ Idle.op = "none"
  BY IdleOK DEF Idle
<1> QED
  BY <1>1, TablesAlone DEF Rollback

\* Accept, reject, cancel and complete start.
LEMMA StartOnContractStep ==
    ASSUME TxInv, NEW s \in Sessions, NEW u \in Users, NEW k \in Contracts,
           \/ StartAccept(s, u, k)
           \/ \E reason \in Reasons \cup {None} : StartReject(s, u, k, reason)
           \/ \E reason \in Reasons : StartCancel(s, u, k, reason)
           \/ StartComplete(s, u, k)
    PROVE  TxInv' /\ Kept
<1> DEFINE c == contracts[k]
<1>1. c \in ContractRow
  BY DEF TxInv, TypeOK
<1>2. PICK d :
         /\ StartOnContract(s, k, d)
         /\ IsParty(c, u)
         /\ \/ MayAccept(c, u) /\ d = Accepted(c)
            \/ MayReject(c, u) /\ \E reason \in Reasons \cup {None} : d = Rejected(c, reason)
            \/ MayCancel(c, u) /\ \E reason \in Reasons : d = Cancelled(c, u, reason)
            \/ MayComplete(c, u) /\ d = Completed(c, u)
  BY DEF StartAccept, StartReject, StartCancel, StartComplete, MayAccept, MayReject,
         MayCancel, MayComplete, IsParty
<1>3. c.status # "absent"
  BY <1>2, NoneAssumption DEF TxInv, Rows, IsParty, NoContract
<1> HIDE DEF c
<1>4. /\ d \in ContractRow
      /\ d.employer = c.employer /\ d.worker = c.worker
      /\ c.worker_accepted => d.worker_accepted
      /\ c.employer_confirmed => d.employer_confirmed
      /\ c.worker_confirmed => d.worker_confirmed
      /\ c.cancelled => d.cancelled
      /\ d.status # "absent" /\ d.status # "disputed"
      /\ d.status = "completed" => d.employer_confirmed /\ d.worker_confirmed
  <2>1. CASE d = Accepted(c)
    BY <1>1, <2>1 DEF Accepted, ContractRow, ContractStatus
  <2>2. CASE \E reason \in Reasons \cup {None} : d = Rejected(c, reason)
    BY <1>1, <2>2 DEF Rejected, ContractRow, ContractStatus
  <2>3. CASE \E reason \in Reasons : d = Cancelled(c, u, reason)
    BY <1>1, <2>3 DEF Cancelled, ContractRow, ContractStatus
  <2>4. CASE MayComplete(c, u) /\ d = Completed(c, u)
    BY <1>1, <2>4 DEF Completed, MayComplete, ContractRow, ContractStatus
  <2> QED
    BY <1>2, <2>1, <2>2, <2>3, <2>4
<1> DEFINE w == Changes(c, d)
<1>5. ContractWrites("contract", w) /\ ("status" \in DOMAIN w => w["status"] = d.status)
  BY <1>1, <1>4, ContractChanges
<1>6. CompletesForBoth("contract", w, c)
  <2>1. \A stamp \in {"employer_confirmed", "worker_confirmed"} :
           d[stamp] => c[stamp] \/ stamp \in DOMAIN w
    BY <1>1 DEF Changes, ContractRow
  <2> HIDE DEF w
  <2> QED
    BY <1>4, <1>5, <2>1 DEF CompletesForBoth
<1> HIDE DEF w
<1> DEFINE r == [Idle EXCEPT !.op = "contract", !.k = k, !.contract = w]
<1>7. RequestOK(r, contracts, problems, queue) /\ r.op = "contract"
  BY <1>3, <1>5, <1>6, NoWritesAllowed DEF RequestOK, Idle, c
<1>8. inflight' = [inflight EXCEPT ![s] = r] /\ UNCHANGED tables
  BY <1>2 DEF StartOnContract, Start, w, c
<1> QED
  BY <1>7, <1>8, TablesAlone

\* Resolve and escalate start.
LEMMA StartOnProblemStep ==
    ASSUME TxInv, NEW s \in Sessions, NEW u \in Users, NEW k \in Contracts, NEW p \in Problems,
           StartResolve(s, u, k, p) \/ StartEscalate(s, u, k, p)
    PROVE  TxInv' /\ Kept
<1>1. CASE StartResolve(s, u, k, p)
  <2> DEFINE r == [Idle EXCEPT !.op = "resolve_problem", !.next = "load_problem",
                               !.actor = u, !.k = k, !.p = p]
  <2>1. RequestOK(r, contracts, problems, queue) /\ r.op = "resolve_problem"
    BY NoWritesAllowed DEF RequestOK, Idle, CompletesForBoth, NoWrites
  <2>2. inflight' = [inflight EXCEPT ![s] = r] /\ UNCHANGED tables
    BY <1>1 DEF StartResolve, Start
  <2> QED
    BY <2>1, <2>2, TablesAlone
<1>2. CASE StartEscalate(s, u, k, p)
  <2> DEFINE c == contracts[k]
             d == Disputed(c)
             w == Changes(c, d)
             r == [Idle EXCEPT !.op = "escalate_problem", !.next = "load_problem",
                               !.k = k, !.p = p, !.contract = w]
  <2>1. c \in ContractRow /\ c.status # "absent"
    BY <1>2, NoneAssumption DEF TxInv, TypeOK, Rows, StartEscalate, IsParty, NoContract
  <2> HIDE DEF c
  <2>2. ContractWrites("escalate_problem", w) /\ ("status" \in DOMAIN w => w["status"] = "disputed")
    BY <2>1, ContractChanges DEF Disputed, ContractRow, ContractStatus
  <2> HIDE DEF w
  <2>3. RequestOK(r, contracts, problems, queue) /\ r.op = "escalate_problem"
    BY <2>1, <2>2, NoWritesAllowed DEF RequestOK, Idle, CompletesForBoth, c
  <2>4. inflight' = [inflight EXCEPT ![s] = r] /\ UNCHANGED tables
    BY <1>2 DEF StartEscalate, Start, w, c
  <2> QED
    BY <2>3, <2>4, TablesAlone
<1> QED
  BY <1>1, <1>2

\* A review starts.
LEMMA StartReviewStep ==
    ASSUME TxInv, NEW s \in Sessions, NEW m \in Moderators, NEW q \in Tickets,
           NEW resolution \in Resolutions, StartReview(s, m, q, resolution)
    PROVE  TxInv' /\ Kept
<1> DEFINE w == Changes(queue[q], Decided(queue[q], m, resolution))
           r == [Idle EXCEPT !.op = "review", !.next = "load_problem",
                             !.actor = m, !.q = q, !.p = queue[q].entity,
                             !.ruling = resolution, !.ticket = w]
<1>1. m \in Users /\ queue[q].status # "absent" /\ queue[q].entity \in Problems
  BY ModeratorsAssumption DEF StartReview, MayReview, TxInv, Rows
<1>2. TicketWrites(w)
  BY <1>1, TicketChanges DEF TxInv, TypeOK
<1>3. inflight' = [inflight EXCEPT ![s] = r] /\ UNCHANGED tables
  BY DEF StartReview, Start
<1> HIDE DEF w
<1>4. RequestOK(r, contracts, problems, queue) /\ r.next = "load_problem"
  BY <1>1, <1>2, NoWritesAllowed DEF RequestOK, Idle, CompletesForBoth, NoWrites
<1> QED
  BY <1>3, <1>4, TablesAlone

\* Resolve and escalate load the problem.
LEMMA LoadProblemStep ==
    ASSUME TxInv, NEW s \in Sessions, LoadToResolve(s) \/ LoadToEscalate(s)
    PROVE  TxInv' /\ Kept
<1> DEFINE x == inflight[s]
           c == problems[x.p]
<1>0. RequestOK(x, contracts, problems, queue)
  BY DEF TxInv, Requests
<1>1. x.p \in Problems /\ c \in ProblemRow
  BY <1>0 DEF RequestOK, LoadToResolve, LoadToEscalate, TxInv, TypeOK
<1>2. CASE LoadToResolve(s)
  <2> DEFINE d == PeerResolved(c, x.actor)
             w == Changes(c, d)
             r == [x EXCEPT !.problem = w, !.actor = None, !.next = "commit"]
  <2>1. x.op = "resolve_problem" /\ x.next = "load_problem" /\ c.status = "open"
    BY <1>2 DEF LoadToResolve, MayResolve
  <2>2. inflight' = [inflight EXCEPT ![s] = r] /\ UNCHANGED tables
    BY <1>2 DEF LoadToResolve, Load
  <2> HIDE DEF c
  <2>3. x.actor \in Users
    BY <1>0, <2>1 DEF RequestOK
  <2> HIDE DEF x
  <2>4. /\ d \in ProblemRow /\ d.contract = c.contract /\ d.escalated = c.escalated
        /\ d.resolution = c.resolution /\ d.status = "resolved"
    BY <1>1, <2>3 DEF PeerResolved, ProblemRow, ProblemStatus
  <2> HIDE DEF d
  <2>5. ProblemWrites(x.op, w)
    BY <1>1, <2>4, ProblemChanges
  <2> HIDE DEF w
  <2>6. RequestOK(r, contracts, problems, queue) /\ r.op = "resolve_problem"
    BY <1>0, <2>1, <2>5 DEF RequestOK, Idle, c
  <2> QED
    BY <2>2, <2>6, TablesAlone DEF d
<1>3. CASE LoadToEscalate(s)
  <2> DEFINE d == Escalated(c)
             w == Changes(c, d)
             r == [x EXCEPT !.problem = w, !.next = "commit"]
  <2>1. /\ x.op = "escalate_problem" /\ x.next = "load_problem"
        /\ c.status = "open" /\ c.contract = x.k
    BY <1>3 DEF LoadToEscalate, MayEscalate
  <2>2. inflight' = [inflight EXCEPT ![s] = r] /\ UNCHANGED tables
    BY <1>3 DEF LoadToEscalate, Load
  <2> HIDE DEF c, x
  <2>3. /\ d \in ProblemRow /\ d.contract = c.contract /\ d.escalated
        /\ d.resolution = c.resolution /\ d.status = "escalated"
    BY <1>1 DEF Escalated, ProblemRow, ProblemStatus
  <2> HIDE DEF d
  <2>4. ProblemWrites(x.op, w)
    BY <1>1, <2>1, <2>3, ProblemChanges
  <2> HIDE DEF w
  <2>5. RequestOK(r, contracts, problems, queue) /\ r.op = "escalate_problem"
    BY <1>0, <2>1, <2>4 DEF RequestOK, Idle, c
  <2> QED
    BY <2>2, <2>5, TablesAlone
<1> QED
  BY <1>2, <1>3

\* A review loads the problem: if it finds it escalated it will write the status.
LEMMA LoadToRuleStep ==
    ASSUME TxInv, NEW s \in Sessions, LoadToRule(s)
    PROVE  TxInv' /\ Kept
<1> DEFINE x == inflight[s]
           c == problems[x.p]
           d == Ruled(c, x.actor, x.ruling)
           w == Changes(c, d)
           r == [x EXCEPT !.problem = w, !.k = c.contract, !.actor = None,
                          !.next = "load_contract"]
<1>1. RequestOK(x, contracts, problems, queue)
  BY DEF TxInv, Requests
<1>2. x.op = "review" /\ x.next = "load_problem"
  BY DEF LoadToRule
<1>3. inflight' = [inflight EXCEPT ![s] = r] /\ UNCHANGED tables
  BY DEF LoadToRule, Load
<1>4. /\ x.q \in Tickets /\ x.p = queue[x.q].entity /\ queue[x.q].status # "absent"
      /\ x.actor \in Users /\ x.ruling \in Resolutions
  BY <1>1, <1>2 DEF RequestOK
<1>5. x.p \in Problems /\ c \in ProblemRow /\ c.contract \in Contracts
  BY <1>4 DEF TxInv, TypeOK, Rows
<1> HIDE DEF c, x
<1>6. x.ruling # None
  BY <1>4, NoneAssumption DEF Resolutions
<1>7. /\ d \in ProblemRow /\ d.contract = c.contract /\ d.escalated = c.escalated
      /\ d.resolution # None /\ d.status = "dispute_resolved"
  BY <1>4, <1>5, <1>6 DEF Ruled, ProblemRow, ProblemStatus
<1> HIDE DEF d
<1>8. ProblemWrites(x.op, w) /\ ("status" \in DOMAIN w <=> c.status # "dispute_resolved")
  BY <1>5, <1>7, ProblemChanges
<1> HIDE DEF w
<1>9. RequestOK(r, contracts, problems, queue)
  BY <1>1, <1>2, <1>4, <1>5, <1>8 DEF RequestOK, Idle, CompletesForBoth, c
<1>10. r.next = "load_contract" /\ r.p = x.p /\ r.problem = w
  BY <1>1 DEF RequestOK, Idle
<1> HIDE DEF r
<1> QED
  BY <1>3, <1>8, <1>9, <1>10, TablesAlone DEF c

\* A review loads the contract: if it finds it disputed it will write the status.
LEMMA LoadContractStep ==
    ASSUME TxInv, NEW s \in Sessions, LoadContract(s)
    PROVE  TxInv' /\ Kept
<1> DEFINE x == inflight[s]
           c == contracts[x.k]
           d == ContractRuled(c, x.ruling)
           w == Changes(c, d)
           r == [x EXCEPT !.contract = w, !.ruling = None, !.next = "commit"]
<1>1. RequestOK(x, contracts, problems, queue)
  BY DEF TxInv, Requests
<1>2. x.op = "review" /\ x.next = "load_contract"
  BY <1>1 DEF LoadContract, RequestOK
<1>3. inflight' = [inflight EXCEPT ![s] = r] /\ UNCHANGED tables
  BY DEF LoadContract, Load
<1>4. /\ x.q \in Tickets /\ x.p = queue[x.q].entity /\ queue[x.q].status # "absent"
      /\ x.ruling \in Resolutions /\ x.k = problems[x.p].contract
  BY <1>1, <1>2 DEF RequestOK
<1>5. x.p \in Problems /\ x.k \in Contracts /\ c \in ContractRow
  BY <1>4 DEF TxInv, TypeOK, Rows
<1>6. PastProblem(s, x.q)
  BY <1>2 DEF PastProblem, RulesOn
<1> HIDE DEF c
<1>7. d \in ContractRow
  BY <1>4, <1>5 DEF ContractRuled, ContractRow, ContractStatus, Resolutions
<1>8. /\ d.employer = c.employer /\ d.worker = c.worker
      /\ c.worker_accepted => d.worker_accepted
      /\ c.employer_confirmed => d.employer_confirmed
      /\ c.worker_confirmed => d.worker_confirmed
      /\ c.cancelled => d.cancelled
      /\ d.status \in {"active", "cancelled"}
  BY <1>5 DEF ContractRuled, ContractRow
<1> HIDE DEF d
<1>9. /\ ContractWrites(x.op, w)
      /\ "status" \in DOMAIN w <=> c.status # d.status
      /\ "status" \in DOMAIN w => w["status"] = d.status
  BY <1>5, <1>7, <1>8, ContractChanges
<1> HIDE DEF w
<1>10. CompletesForBoth(x.op, w, contracts[x.k])
  BY <1>8, <1>9 DEF CompletesForBoth
<1>11. RequestOK(r, contracts, problems, queue)
  BY <1>1, <1>2, <1>4, <1>9, <1>10 DEF RequestOK, Idle
<1>12. /\ r.k = x.k /\ r.contract = w /\ r.q = x.q /\ r.problem = x.problem
  BY <1>1 DEF RequestOK, Idle
<1> HIDE DEF r
<1> QED
  BY <1>3, <1>6, <1>8, <1>9, <1>11, <1>12, TablesAlone DEF c

-----------------------------------------------------------------------------
(* Commits.                                                                *)

\* What a commit leaves of the tables, whichever of them the request writes:
\* typed and linked rows, everything recorded, completions confirmed by both.
LEMMA CommitKeeps ==
    ASSUME TxInv, NEW r, RequestOK(r, contracts, problems, queue), r.next = "commit",
           r.op # "none", UNCHANGED <<progress, payments>>,
           \/ contracts' = contracts
           \/ /\ r.op # "resolve_problem"
              /\ contracts' = [contracts EXCEPT ![r.k] = Updated(@, r.contract)],
           \/ problems' = problems
           \/ /\ r.op # "contract"
              /\ problems' = [problems EXCEPT ![r.p] = Updated(@, r.problem)],
           \/ queue' = queue
           \/ /\ r.op = "review"
              /\ queue' = [queue EXCEPT ![r.q] = Updated(@, r.ticket)]
           \/ /\ r.op = "escalate_problem"
              /\ \E q \in Tickets : /\ queue[q].status = "absent"
                                    /\ queue' = [queue EXCEPT ![q] = NewTicket(r.p)]
    PROVE  Kept /\ TypeOK' /\ Rows' /\ CompletedByBoth'
<1>1. ASSUME r.op = "review"
      PROVE  /\ r.q \in Tickets /\ queue[r.q].status # "absent"
             /\ r.p = queue[r.q].entity /\ r.k = problems[r.p].contract
  BY <1>1 DEF RequestOK
<1>2. ASSUME r.op # "contract"
      PROVE  r.p \in Problems /\ problems[r.p].status # "absent"
  <2>1. CASE r.op = "review"
    BY <1>1, <2>1 DEF TxInv, Rows
  <2> QED
    BY <1>2, <2>1 DEF RequestOK
<1>3. ASSUME r.op # "resolve_problem"
      PROVE  r.k \in Contracts /\ contracts[r.k].status # "absent"
  <2>1. CASE r.op = "review"
    BY <1>1, <1>2, <2>1 DEF TxInv, Rows
  <2> QED
    BY <1>3, <2>1 DEF RequestOK
<1>4. /\ contracts \in [Contracts -> ContractRow] /\ contracts' \in [Contracts -> ContractRow]
      /\ \A k \in Contracts :
            /\ contracts[k].status = "absent" => contracts'[k] = contracts[k]
            /\ contracts[k].status # "absent" => contracts'[k].status # "absent"
            /\ \A stamp \in Stamps : contracts[k][stamp] => contracts'[k][stamp]
            /\ contracts'[k].status = "completed" =>
                  contracts'[k].employer_confirmed /\ contracts'[k].worker_confirmed
  <2>1. contracts \in [Contracts -> ContractRow] /\ CompletedByBoth
    BY DEF TxInv, TypeOK
  <2>2. CASE contracts' = contracts
    BY <2>1, <2>2 DEF CompletedByBoth
  <2>3. CASE /\ r.op # "resolve_problem"
             /\ contracts' = [contracts EXCEPT ![r.k] = Updated(@, r.contract)]
    <3> DEFINE c == contracts[r.k]
               d == Updated(c, r.contract)
    <3>1. /\ contracts' \in [Contracts -> ContractRow]
          /\ contracts'[r.k] = d
          /\ \A k \in Contracts : k # r.k => contracts'[k] = contracts[k]
      BY <1>3, <2>1, <2>3, ContractUpdated DEF RequestOK
    <3>2. /\ c \in ContractRow
          /\ c.status # "absent"
          /\ ContractWrites(r.op, r.contract)
          /\ CompletesForBoth(r.op, r.contract, c)
          /\ c.status = "completed" => c.employer_confirmed /\ c.worker_confirmed
      BY <1>3, <2>1, <2>3 DEF RequestOK, CompletedByBoth
    <3> HIDE DEF c
    <3>3. /\ \A stamp \in Stamps : c[stamp] => d[stamp]
          /\ d.employer_confirmed <=> c.employer_confirmed \/ "employer_confirmed" \in DOMAIN r.contract
          /\ d.worker_confirmed <=> c.worker_confirmed \/ "worker_confirmed" \in DOMAIN r.contract
          /\ d.status = IF "status" \in DOMAIN r.contract THEN r.contract["status"] ELSE c.status
      <4>1. \A stamp \in Stamps : c[stamp] => d[stamp]
        BY <3>2, ContractUpdated
      <4>2. d.employer_confirmed <=> c.employer_confirmed \/ "employer_confirmed" \in DOMAIN r.contract
        BY <3>2, ContractUpdated
      <4>3. d.worker_confirmed <=> c.worker_confirmed \/ "worker_confirmed" \in DOMAIN r.contract
        BY <3>2, ContractUpdated
      <4>4. d.status = IF "status" \in DOMAIN r.contract THEN r.contract["status"] ELSE c.status
        BY <3>2, ContractUpdated
      <4> QED
        BY <4>1, <4>2, <4>3, <4>4
    <3> HIDE DEF d
    <3>4. /\ d.status # "absent"
          /\ d.status = "completed" => d.employer_confirmed /\ d.worker_confirmed
      BY <3>2, <3>3 DEF ContractWrites, CompletesForBoth
    <3>5. \A k \in Contracts :
            /\ contracts[k].status = "absent" => contracts'[k] = contracts[k]
            /\ contracts[k].status # "absent" => contracts'[k].status # "absent"
            /\ \A stamp \in Stamps : contracts[k][stamp] => contracts'[k][stamp]
            /\ contracts'[k].status = "completed" =>
                  contracts'[k].employer_confirmed /\ contracts'[k].worker_confirmed
      BY <2>1, <3>1, <3>2, <3>3, <3>4 DEF CompletedByBoth, c
    <3> QED
      BY <2>1, <3>1, <3>5
  <2> QED
    BY <2>2, <2>3
<1>5. /\ problems \in [Problems -> ProblemRow] /\ problems' \in [Problems -> ProblemRow]
      /\ \A p \in Problems :
            /\ problems[p].status = "absent" => problems'[p] = problems[p]
            /\ problems[p].status # "absent" => problems'[p].status # "absent"
            /\ problems'[p].contract = problems[p].contract
            /\ problems[p].escalated => problems'[p].escalated
            /\ problems[p].resolution # None => problems'[p].resolution # None
  <2>1. problems \in [Problems -> ProblemRow]
    BY DEF TxInv, TypeOK
  <2>2. CASE problems' = problems
    BY <2>1, <2>2
  <2>3. CASE /\ r.op # "contract"
             /\ problems' = [problems EXCEPT ![r.p] = Updated(@, r.problem)]
    <3> DEFINE c == problems[r.p]
               d == Updated(c, r.problem)
    <3>1. c \in ProblemRow /\ c.status # "absent" /\ ProblemWrites(r.op, r.problem)
      BY <1>2, <2>1, <2>3 DEF RequestOK
    <3>2. /\ d \in ProblemRow /\ d.contract = c.contract
          /\ c.escalated => d.escalated
          /\ c.resolution # None => d.resolution # None
          /\ d.status = IF "status" \in DOMAIN r.problem THEN r.problem["status"] ELSE c.status
      BY <3>1, ProblemUpdated
    <3>3. d.status # "absent"
      BY <3>1, <3>2 DEF ProblemWrites
    <3>4. /\ problems'[r.p] = d
          /\ \A p \in Problems : p # r.p => problems'[p] = problems[p]
          /\ DOMAIN problems' = Problems /\ problems' = [p \in Problems |-> problems'[p]]
      BY <1>2, <2>1, <2>3
    <3> QED
      BY <2>1, <3>1, <3>2, <3>3, <3>4
  <2> QED
    BY <2>2, <2>3
<1>6. /\ queue \in [Tickets -> QueueRow] /\ queue' \in [Tickets -> QueueRow]
      /\ \A q \in Tickets :
            /\ queue[q].status # "absent" =>
                  queue'[q].status # "absent" /\ queue'[q].entity = queue[q].entity
            /\ queue[q].status = "absent" =>
                  \/ queue'[q] = queue[q]
                  \/ r.op = "escalate_problem" /\ queue'[q] = NewTicket(r.p)
  <2>1. queue \in [Tickets -> QueueRow]
    BY DEF TxInv, TypeOK
  <2>2. CASE queue' = queue
    BY <2>1, <2>2
  <2>3. CASE /\ r.op = "review"
             /\ queue' = [queue EXCEPT ![r.q] = Updated(@, r.ticket)]
    <3>1. queue[r.q] \in QueueRow /\ queue[r.q].status # "absent" /\ TicketWrites(r.ticket)
      BY <1>1, <2>1, <2>3 DEF RequestOK
    <3> QED
      BY <1>1, <2>1, <2>3, <3>1, TicketUpdated
  <2>4. CASE /\ r.op = "escalate_problem"
             /\ \E q \in Tickets : /\ queue[q].status = "absent"
                                   /\ queue' = [queue EXCEPT ![q] = NewTicket(r.p)]
    BY <1>2, <2>1, <2>4, InsertedRows
  <2> QED
    BY <2>2, <2>3, <2>4
<1>7. Kept
  BY <1>4, <1>5, <1>6 DEF Kept
<1>8. TypeOK'
  BY <1>4, <1>5, <1>6 DEF TxInv, TypeOK
<1>9. CompletedByBoth'
  BY <1>4 DEF CompletedByBoth
<1>10. Rows'
  <2>1. \A k \in Contracts : contracts'[k].status = "absent" => contracts'[k] = NoContract
    BY <1>4 DEF TxInv, Rows
  <2>2. \A p \in Problems :
          IF problems'[p].status = "absent"
            THEN problems'[p] = NoProblem
            ELSE /\ problems'[p].contract \in Contracts
                 /\ contracts'[problems'[p].contract].status # "absent"
    BY <1>4, <1>5 DEF TxInv, Rows
  <2>3. \A q \in Tickets :
          queue'[q].status # "absent" =>
             queue'[q].entity \in Problems /\ problems'[queue'[q].entity].status # "absent"
    <3> SUFFICES ASSUME NEW q \in Tickets, queue'[q].status # "absent"
                 PROVE  queue'[q].entity \in Problems /\ problems'[queue'[q].entity].status # "absent"
      OBVIOUS
    <3>1. CASE queue[q].status # "absent"
      BY <1>5, <1>6, <3>1 DEF TxInv, Rows
    <3>2. CASE queue[q].status = "absent"
      BY <1>2, <1>5, <1>6, <3>2 DEF NewTicket, NoTicket
    <3> QED
      BY <3>1, <3>2
  <2> QED
    BY <2>1, <2>2, <2>3 DEF Rows
<1> QED
  BY <1>7, <1>8, <1>9, <1>10

\* After a commit the session is idle, and the others are where they were.
LEMMA CommitFrees ==
    ASSUME TxInv, Kept, NEW s \in Sessions, inflight' = [inflight EXCEPT ![s] = Idle]
    PROVE  /\ DOMAIN inflight' = Sessions /\ Requests'
           /\ \A t \in Sessions, q \in Tickets :
                 /\ PastProblem(t, q)' => PastProblem(t, q) /\ inflight'[t] = inflight[t]
                 /\ Committing(t, q)' => Committing(t, q) /\ inflight'[t] = inflight[t]
<1>1. RequestOK(Idle, contracts', problems', queue')
  BY IdleOK
<1>2. DOMAIN inflight' = Sessions /\ Requests'
  BY <1>1, SessionMoves
<1>3. /\ inflight'[s].op = "none"
      /\ \A t \in Sessions : t # s => inflight'[t] = inflight[t]
  BY DEF TxInv, Idle
<1> QED
  BY <1>2, <1>3 DEF PastProblem, Committing, RulesOn

\* The queue rows that back an escalation or a dispute still do after a commit
\* that leaves them alone.
LEMMA BackingStays ==
    ASSUME TxInv, Kept, NEW s \in Sessions, inflight' = [inflight EXCEPT ![s] = Idle],
           NEW q \in Tickets, queue'[q] = queue[q], queue[q].status = "pending"
    PROVE  /\ \A p \in Problems :
                 /\ q \in PendingTickets(p)
                 /\ \A t \in Sessions :
                       PastProblem(t, q) => "status" \in DOMAIN inflight[t].problem
                 => /\ q \in PendingTickets(p)'
                    /\ \A t \in Sessions :
                          PastProblem(t, q)' => "status" \in DOMAIN inflight'[t].problem
           /\ \A k \in Contracts :
                 /\ q \in PendingDisputes(k)
                 /\ \A t \in Sessions :
                       Committing(t, q) => "status" \in DOMAIN inflight[t].contract
                 => /\ q \in PendingDisputes(k)'
                    /\ \A t \in Sessions :
                          Committing(t, q)' => "status" \in DOMAIN inflight'[t].contract
<1>1. \A p \in Problems : q \in PendingTickets(p) => q \in PendingTickets(p)'
  BY DEF PendingTickets
<1>2. \A k \in Contracts : q \in PendingDisputes(k) => q \in PendingDisputes(k)'
  BY DEF PendingDisputes, TxInv, Rows, Kept
<1>3. \A t \in Sessions :
         /\ PastProblem(t, q)' => PastProblem(t, q) /\ inflight'[t] = inflight[t]
         /\ Committing(t, q)' => Committing(t, q) /\ inflight'[t] = inflight[t]
  BY CommitFrees
<1> QED
  BY <1>1, <1>2, <1>3

\* Accept, reject, cancel and complete commit: they cannot write "disputed".
LEMMA CommitContractStep ==
    ASSUME TxInv, NEW s \in Sessions, CommitContract(s)
    PROVE  TxInv' /\ Kept
<1> DEFINE r == inflight[s]
<1>1. /\ r.op = "contract" /\ r.next = "commit"
      /\ inflight' = [inflight EXCEPT ![s] = Idle]
      /\ contracts' = [contracts EXCEPT ![r.k] = Updated(@, r.contract)]
      /\ UNCHANGED <<progress, payments, problems, queue>>
  BY DEF CommitContract, Finish
<1>2. RequestOK(r, contracts, problems, queue)
  BY DEF TxInv, Requests
<1> HIDE DEF r
<1>3. Kept /\ TypeOK' /\ Rows' /\ CompletedByBoth'
  BY <1>1, <1>2, CommitKeeps
<1>4. EscalationsBacked'
  <2> SUFFICES ASSUME NEW p \in Problems, problems[p].status = "escalated"
               PROVE  \E q \in PendingTickets(p)' : \A t \in Sessions :
                         PastProblem(t, q)' => "status" \in DOMAIN inflight'[t].problem
    BY <1>1 DEF EscalationsBacked
  <2>1. PICK q \in PendingTickets(p) : \A t \in Sessions :
            PastProblem(t, q) => "status" \in DOMAIN inflight[t].problem
    BY DEF TxInv, EscalationsBacked
  <2>2. q \in Tickets /\ queue[q].status = "pending" /\ queue'[q] = queue[q]
    BY <1>1 DEF PendingTickets
  <2> QED
    BY <1>1, <1>3, <2>1, <2>2, BackingStays
<1>5. DisputesBacked'
  <2> SUFFICES ASSUME NEW k \in Contracts, contracts'[k].status = "disputed"
               PROVE  \E q \in PendingDisputes(k)' : \A t \in Sessions :
                         Committing(t, q)' => "status" \in DOMAIN inflight'[t].contract
    BY DEF DisputesBacked
  <2>1. contracts[k].status = "disputed"
    <3>1. /\ contracts[k] \in ContractRow
          /\ contracts'[k] = IF k = r.k THEN Updated(contracts[k], r.contract) ELSE contracts[k]
      BY <1>1 DEF TxInv, TypeOK
    <3>2. ContractWrites("contract", r.contract)
      BY <1>1, <1>2 DEF RequestOK
    <3>3. ASSUME k = r.k
          PROVE  contracts'[k].status = IF "status" \in DOMAIN r.contract
                                          THEN r.contract["status"] ELSE contracts[k].status
      BY <3>1, <3>2, <3>3, ContractUpdated
    <3> QED
      BY <3>1, <3>2, <3>3 DEF ContractWrites
  <2>2. PICK q \in PendingDisputes(k) : \A t \in Sessions :
            Committing(t, q) => "status" \in DOMAIN inflight[t].contract
    BY <2>1 DEF TxInv, DisputesBacked
  <2>3. q \in Tickets /\ queue[q].status = "pending" /\ queue'[q] = queue[q]
    BY <1>1 DEF PendingDisputes
  <2> QED
    BY <1>1, <1>3, <2>2, <2>3, BackingStays
<1> QED
  BY <1>1, <1>3, <1>4, <1>5, CommitFrees DEF TxInv

\* A peer resolution commits: it cannot write "escalated".
LEMMA CommitResolveStep ==
    ASSUME TxInv, NEW s \in Sessions, CommitResolve(s)
    PROVE  TxInv' /\ Kept
<1> DEFINE r == inflight[s]
<1>1. /\ r.op = "resolve_problem" /\ r.next = "commit"
      /\ inflight' = [inflight EXCEPT ![s] = Idle]
      /\ problems' = [problems EXCEPT ![r.p] = Updated(@, r.problem)]
      /\ UNCHANGED <<contracts, progress, payments, queue>>
  BY DEF CommitResolve, Finish
<1>2. RequestOK(r, contracts, problems, queue)
  BY DEF TxInv, Requests
<1> HIDE DEF r
<1>3. Kept /\ TypeOK' /\ Rows' /\ CompletedByBoth'
  BY <1>1, <1>2, CommitKeeps
<1>4. EscalationsBacked'
  <2> SUFFICES ASSUME NEW p \in Problems, problems'[p].status = "escalated"
               PROVE  \E q \in PendingTickets(p)' : \A t \in Sessions :
                         PastProblem(t, q)' => "status" \in DOMAIN inflight'[t].problem
    BY DEF EscalationsBacked
  <2>1. problems[p].status = "escalated"
    <3>1. /\ problems[p] \in ProblemRow
          /\ problems'[p] = IF p = r.p THEN Updated(problems[p], r.problem) ELSE problems[p]
      BY <1>1 DEF TxInv, TypeOK
    <3>2. ProblemWrites("resolve_problem", r.problem)
      BY <1>1, <1>2 DEF RequestOK
    <3>3. ASSUME p = r.p
          PROVE  problems'[p].status = IF "status" \in DOMAIN r.problem
                                         THEN r.problem["status"] ELSE problems[p].status
      BY <3>1, <3>2, <3>3, ProblemUpdated
    <3> QED
      BY <3>1, <3>2, <3>3 DEF ProblemWrites
  <2>2. PICK q \in PendingTickets(p) : \A t \in Sessions :
            PastProblem(t, q) => "status" \in DOMAIN inflight[t].problem
    BY <2>1 DEF TxInv, EscalationsBacked
  <2>3. q \in Tickets /\ queue[q].status = "pending" /\ queue'[q] = queue[q]
    BY <1>1 DEF PendingTickets
  <2> QED
    BY <1>1, <1>3, <2>2, <2>3, BackingStays
<1>5. DisputesBacked'
  <2> SUFFICES ASSUME NEW k \in Contracts, contracts[k].status = "disputed"
               PROVE  \E q \in PendingDisputes(k)' : \A t \in Sessions :
                         Committing(t, q)' => "status" \in DOMAIN inflight'[t].contract
    BY <1>1 DEF DisputesBacked
  <2>1. PICK q \in PendingDisputes(k) : \A t \in Sessions :
            Committing(t, q) => "status" \in DOMAIN inflight[t].contract
    BY DEF TxInv, DisputesBacked
  <2>2. q \in Tickets /\ queue[q].status = "pending" /\ queue'[q] = queue[q]
    BY <1>1 DEF PendingDisputes
  <2> QED
    BY <1>1, <1>3, <2>1, <2>2, BackingStays
<1> QED
  BY <1>1, <1>3, <1>4, <1>5, CommitFrees DEF TxInv

\* An escalation commits: the fresh queue row backs the problem and the
\* contract, for no review of it can be in flight.
LEMMA CommitEscalateStep ==
    ASSUME TxInv, NEW s \in Sessions, NEW fresh \in Tickets, CommitEscalate(s, fresh)
    PROVE  TxInv' /\ Kept
<1> DEFINE r == inflight[s]
<1>1. /\ r.op = "escalate_problem" /\ r.next = "commit"
      /\ inflight' = [inflight EXCEPT ![s] = Idle]
      /\ queue[fresh].status = "absent"
      /\ problems' = [problems EXCEPT ![r.p] = Updated(@, r.problem)]
      /\ contracts' = [contracts EXCEPT ![r.k] = Updated(@, r.contract)]
      /\ queue' = [queue EXCEPT ![fresh] = NewTicket(r.p)]
      /\ UNCHANGED <<progress, payments>>
  BY DEF CommitEscalate, Finish
<1>2. RequestOK(r, contracts, problems, queue)
  BY DEF TxInv, Requests
<1> HIDE DEF r
<1>3. Kept /\ TypeOK' /\ Rows' /\ CompletedByBoth'
  BY <1>1, <1>2, CommitKeeps
<1>4. /\ r.p \in Problems /\ problems[r.p].status # "absent" /\ problems[r.p].contract = r.k
      /\ r.k \in Contracts
  BY <1>1, <1>2 DEF RequestOK
<1>5. /\ queue'[fresh].status = "pending" /\ queue'[fresh].entity = r.p
      /\ problems'[r.p].contract = r.k
      /\ \A q \in Tickets : queue[q].status = "pending" => queue'[q] = queue[q]
  BY <1>1, <1>3, <1>4 DEF TxInv, TypeOK, NewTicket, NoTicket, Kept
<1>6. \A t \in Sessions : ~RulesOn(t, fresh)
  BY <1>1 DEF TxInv, Requests, RequestOK, RulesOn
<1>7. \A t \in Sessions : ~PastProblem(t, fresh)' /\ ~Committing(t, fresh)'
  BY <1>1, <1>3, <1>6, CommitFrees DEF PastProblem, Committing
<1>8. EscalationsBacked'
  <2> SUFFICES ASSUME NEW p \in Problems, problems'[p].status = "escalated"
               PROVE  \E q \in PendingTickets(p)' : \A t \in Sessions :
                         PastProblem(t, q)' => "status" \in DOMAIN inflight'[t].problem
    BY DEF EscalationsBacked
  <2>1. CASE p = r.p
    BY <1>5, <1>7, <2>1 DEF PendingTickets
  <2>2. CASE p # r.p
    <3>1. problems[p].status = "escalated"
      BY <1>1, <2>2 DEF TxInv, TypeOK
    <3>2. PICK q \in PendingTickets(p) : \A t \in Sessions :
              PastProblem(t, q) => "status" \in DOMAIN inflight[t].problem
      BY <3>1 DEF TxInv, EscalationsBacked
    <3>3. q \in Tickets /\ queue[q].status = "pending" /\ queue'[q] = queue[q]
      BY <1>5 DEF PendingTickets
    <3> QED
      BY <1>1, <1>3, <3>2, <3>3, BackingStays
  <2> QED
    BY <2>1, <2>2
<1>9. DisputesBacked'
  <2> SUFFICES ASSUME NEW k \in Contracts, contracts'[k].status = "disputed"
               PROVE  \E q \in PendingDisputes(k)' : \A t \in Sessions :
                         Committing(t, q)' => "status" \in DOMAIN inflight'[t].contract
    BY DEF DisputesBacked
  <2>1. CASE k = r.k
    BY <1>5, <1>7, <2>1 DEF PendingDisputes
  <2>2. CASE k # r.k
    <3>1. contracts[k].status = "disputed"
      BY <1>1, <2>2 DEF TxInv, TypeOK
    <3>2. PICK q \in PendingDisputes(k) : \A t \in Sessions :
              Committing(t, q) => "status" \in DOMAIN inflight[t].contract
      BY <3>1 DEF TxInv, DisputesBacked
    <3>3. q \in Tickets /\ queue[q].status = "pending" /\ queue'[q] = queue[q]
      BY <1>5 DEF PendingDisputes
    <3> QED
      BY <1>1, <1>3, <3>2, <3>3, BackingStays
  <2> QED
    BY <2>1, <2>2
<1> QED
  BY <1>1, <1>3, <1>8, <1>9, CommitFrees DEF TxInv

\* A ruling commits: where the row it decides was what backed an escalation or
\* a dispute, it ends that escalation or dispute.
LEMMA CommitReviewStep ==
    ASSUME TxInv, NEW s \in Sessions, CommitReview(s)
    PROVE  TxInv' /\ Kept
<1> DEFINE r == inflight[s]
<1>1. /\ r.op = "review" /\ r.next = "commit"
      /\ inflight' = [inflight EXCEPT ![s] = Idle]
      /\ problems' = [problems EXCEPT ![r.p] = Updated(@, r.problem)]
      /\ contracts' = [contracts EXCEPT ![r.k] = Updated(@, r.contract)]
      /\ queue' = [queue EXCEPT ![r.q] = Updated(@, r.ticket)]
      /\ UNCHANGED <<progress, payments>>
  BY DEF CommitReview, Finish
<1>2. RequestOK(r, contracts, problems, queue)
  BY DEF TxInv, Requests
<1>3. PastProblem(s, r.q) /\ Committing(s, r.q)
  BY <1>1 DEF PastProblem, Committing, RulesOn
<1>4. /\ \A q : PastProblem(s, q) => q = r.q
      /\ r.problem = inflight[s].problem /\ r.contract = inflight[s].contract
  BY DEF PastProblem, RulesOn
<1> HIDE DEF r
<1>5. Kept /\ TypeOK' /\ Rows' /\ CompletedByBoth'
  BY <1>1, <1>2, CommitKeeps
<1>6. /\ r.q \in Tickets /\ r.p = queue[r.q].entity /\ r.k = problems[r.p].contract
      /\ ContractWrites("review", r.contract) /\ ProblemWrites("review", r.problem)
  BY <1>1, <1>2 DEF RequestOK
<1>7. \A q \in Tickets : q # r.q => queue'[q] = queue[q]
  BY <1>1 DEF TxInv, TypeOK
<1>8. EscalationsBacked'
  <2> SUFFICES ASSUME NEW p \in Problems, problems'[p].status = "escalated"
               PROVE  \E q \in PendingTickets(p)' : \A t \in Sessions :
                         PastProblem(t, q)' => "status" \in DOMAIN inflight'[t].problem
    BY DEF EscalationsBacked
  <2>1. problems[p].status = "escalated" /\ (p = r.p => "status" \notin DOMAIN r.problem)
    <3>1. /\ problems[p] \in ProblemRow
          /\ problems'[p] = IF p = r.p THEN Updated(problems[p], r.problem) ELSE problems[p]
      BY <1>1 DEF TxInv, TypeOK
    <3>2. ASSUME p = r.p
          PROVE  problems'[p].status = IF "status" \in DOMAIN r.problem
                                         THEN r.problem["status"] ELSE problems[p].status
      BY <1>6, <3>1, <3>2, ProblemUpdated
    <3> QED
      BY <1>6, <3>1, <3>2 DEF ProblemWrites
  <2>2. PICK q \in PendingTickets(p) : \A t \in Sessions :
            PastProblem(t, q) => "status" \in DOMAIN inflight[t].problem
    BY <2>1 DEF TxInv, EscalationsBacked
  <2>3. q \in Tickets /\ queue[q].status = "pending" /\ queue[q].entity = p
    BY DEF PendingTickets
  <2>4. q # r.q
    BY <1>3, <1>4, <1>6, <2>1, <2>2, <2>3
  <2> QED
    BY <1>1, <1>5, <1>7, <2>2, <2>3, <2>4, BackingStays
<1>9. DisputesBacked'
  <2> SUFFICES ASSUME NEW k \in Contracts, contracts'[k].status = "disputed"
               PROVE  \E q \in PendingDisputes(k)' : \A t \in Sessions :
                         Committing(t, q)' => "status" \in DOMAIN inflight'[t].contract
    BY DEF DisputesBacked
  <2>1. contracts[k].status = "disputed" /\ (k = r.k => "status" \notin DOMAIN r.contract)
    <3>1. /\ contracts[k] \in ContractRow
          /\ contracts'[k] = IF k = r.k THEN Updated(contracts[k], r.contract) ELSE contracts[k]
      BY <1>1 DEF TxInv, TypeOK
    <3>2. \A c \in ContractRow :
              Updated(c, r.contract).status = IF "status" \in DOMAIN r.contract
                                                THEN r.contract["status"] ELSE c.status
      BY <1>6, ContractUpdated
    <3> QED
      BY <1>6, <3>1, <3>2 DEF ContractWrites
  <2>2. PICK q \in PendingDisputes(k) : \A t \in Sessions :
            Committing(t, q) => "status" \in DOMAIN inflight[t].contract
    BY <2>1 DEF TxInv, DisputesBacked
  <2>3. q \in Tickets /\ queue[q].status = "pending" /\ problems[queue[q].entity].contract = k
    BY DEF PendingDisputes
  <2>4. q # r.q
    BY <1>3, <1>4, <1>6, <2>1, <2>2, <2>3
  <2> QED
    BY <1>1, <1>5, <1>7, <2>2, <2>3, <2>4, BackingStays
<1> QED
  BY <1>1, <1>5, <1>8, <1>9, CommitFrees DEF TxInv

\* Creating a contract or a problem.
LEMMA InsertStep ==
    ASSUME TxInv, Insert
    PROVE  TxInv' /\ Kept
<1>1. CASE \E employer, worker \in Users, k \in Contracts : Create(employer, worker, k)
  <2>1. PICK employer \in Users, worker \in Users, new \in Contracts :
           Create(employer, worker, new) /\ UNCHANGED inflight
    BY <1>1 DEF Insert
  <2>2. /\ contracts[new] = NoContract
        /\ contracts'[new] = NewContract(employer, worker)
        /\ contracts' \in [Contracts -> ContractRow]
        /\ \A k \in Contracts : k # new => contracts'[k] = contracts[k]
        /\ UNCHANGED <<progress, payments, problems, queue, inflight>>
    BY <2>1, InsertedRows DEF Create, TxInv, TypeOK, Rows
  <2>3. contracts'[new].status = "pending"
    BY <2>2 DEF NewContract, NoContract
  <2>4. Kept
    BY <2>2, <2>3 DEF Kept, Stamps, NoContract
  <2>5. TypeOK' /\ Rows' /\ CompletedByBoth'
    BY <2>2, <2>3 DEF TxInv, TypeOK, Rows, CompletedByBoth
  <2>6. Requests'
    BY <2>2, <2>4, RequestStays DEF TxInv, Requests
  <2>7. EscalationsBacked' /\ DisputesBacked'
    BY <2>2, <2>3 DEF TxInv, EscalationsBacked, DisputesBacked, PendingTickets,
                      PendingDisputes, PastProblem, Committing, RulesOn
  <2> QED
    BY <2>2, <2>4, <2>5, <2>6, <2>7 DEF TxInv
<1>2. CASE \E u \in Users, k \in Contracts, p \in Problems : AddProblem(u, k, p)
  <2>1. PICK u \in Users, owner \in Contracts, new \in Problems :
           AddProblem(u, owner, new) /\ UNCHANGED inflight
    BY <1>2 DEF Insert
  <2>2. /\ problems[new] = NoProblem
        /\ problems'[new] = NewProblem(owner)
        /\ problems' \in [Problems -> ProblemRow]
        /\ \A p \in Problems : p # new => problems'[p] = problems[p]
        /\ UNCHANGED <<contracts, progress, payments, queue, inflight>>
    BY <2>1, InsertedRows DEF AddProblem, TxInv, TypeOK, Rows
  <2>3. contracts[owner].status # "absent"
    BY <2>1, NoneAssumption DEF AddProblem, TxInv, Rows, IsParty, NoContract
  <2>4. problems'[new].status = "open" /\ problems'[new].contract = owner
    BY <2>2 DEF NewProblem, NoProblem
  <2>5. Kept
    BY <2>2, <2>4 DEF Kept, NoProblem
  <2>6. TypeOK' /\ Rows' /\ CompletedByBoth'
    BY <2>2, <2>3, <2>4 DEF TxInv, TypeOK, Rows, CompletedByBoth
  <2>7. Requests'
    BY <2>2, <2>5, RequestStays DEF TxInv, Requests
  <2>8. EscalationsBacked'
    BY <2>2, <2>4 DEF TxInv, EscalationsBacked, PendingTickets, PastProblem, RulesOn
  <2>9. DisputesBacked'
    <3>1. \A k \in Contracts : PendingDisputes(k) \subseteq PendingDisputes(k)'
      BY <2>2 DEF TxInv, Rows, PendingDisputes, NoProblem
    <3> QED
      BY <2>2, <3>1 DEF TxInv, DisputesBacked, Committing, RulesOn
  <2> QED
    BY <2>2, <2>5, <2>6, <2>7, <2>8, <2>9 DEF TxInv
<1> QED
  BY <1>1, <1>2 DEF Insert

-----------------------------------------------------------------------------
(* The theorems.                                                           *)

\* Every step keeps the invariant, and what the tables record.
LEMMA StepTx == TxInv /\ [TxNext]_txVars => TxInv' /\ (Kept \/ UNCHANGED txVars)
<1> SUFFICES ASSUME TxInv, [TxNext]_txVars
             PROVE  TxInv' /\ (Kept \/ UNCHANGED txVars)
  OBVIOUS
<1>1. CASE Insert
  BY <1>1, InsertStep
<1>2. ASSUME NEW s \in Sessions, StartOne(s)
      PROVE  TxInv' /\ Kept
  BY <1>2, StartOnContractStep, StartOnProblemStep, StartReviewStep DEF StartOne
<1>3. ASSUME NEW s \in Sessions,
             LoadToResolve(s) \/ LoadToEscalate(s) \/ LoadToRule(s) \/ LoadContract(s)
      PROVE  TxInv' /\ Kept
  BY <1>3, LoadProblemStep, LoadToRuleStep, LoadContractStep
<1>4. ASSUME NEW s \in Sessions,
             \/ CommitContract(s) \/ CommitResolve(s) \/ CommitReview(s)
             \/ \E q \in Tickets : CommitEscalate(s, q)
      PROVE  TxInv' /\ Kept
  BY <1>4, CommitContractStep, CommitResolveStep, CommitReviewStep, CommitEscalateStep
<1>5. ASSUME NEW s \in Sessions, Rollback(s)
      PROVE  TxInv' /\ Kept
  BY <1>5, RollbackStep
<1>6. CASE UNCHANGED txVars
  <2>1. TypeOK' /\ Rows' /\ Requests' /\ DOMAIN inflight' = Sessions
    BY <1>6 DEF txVars, TxInv, TypeOK, Rows, Requests
  <2>2. EscalationsBacked' /\ DisputesBacked' /\ CompletedByBoth'
    BY <1>6 DEF txVars, TxInv, EscalationsBacked, DisputesBacked, CompletedByBoth,
                PendingTickets, PendingDisputes, PastProblem, Committing, RulesOn
  <2> QED
    BY <1>6, <2>1, <2>2 DEF TxInv
<1> QED
  BY <1>1, <1>2, <1>3, <1>4, <1>5, <1>6 DEF TxNext

\* Empty tables and idle sessions satisfy the invariant.
LEMMA InitTx == TxInit => TxInv
<1> SUFFICES ASSUME TxInit PROVE TxInv
  OBVIOUS
<1>1. TypeOK
  BY InitType DEF TxInit
<1>2. Rows /\ EscalationsBacked /\ DisputesBacked /\ CompletedByBoth
  BY DEF TxInit, Init, Rows, EscalationsBacked, DisputesBacked, CompletedByBoth,
         NoContract, NoProblem, NoTicket
<1>3. Requests
  BY IdleOK DEF TxInit, Requests
<1> QED
  BY <1>1, <1>2, <1>3 DEF TxInv, TxInit

\* The invariant holds throughout.
LEMMA InductiveTx == TxSpec => []TxInv
BY InitTx, StepTx, PTL DEF TxSpec

\* However the requests interleave, the tables stay well typed and every
\* session's pending UPDATE fits the columns it writes.
THEOREM TxTypeCorrect == TxSpec => []TxTypeOK
<1>1. TxInv => TxTypeOK
  BY DEF TxInv, Requests, RequestOK, TxTypeOK, ContractWrites, ProblemWrites, TicketWrites
<1> QED
  BY <1>1, InductiveTx, PTL

\* An escalated problem always has an undecided queue row, whatever stale
\* resolutions, escalations and rulings commit around it.
THEOREM EscalationsNeverDropped == TxSpec => []EscalationsStayQueued
<1>1. TxInv => EscalationsStayQueued
  BY DEF TxInv, EscalationsBacked, EscalationsStayQueued
<1> QED
  BY <1>1, InductiveTx, PTL

\* A disputed contract always has an undecided queue row that leads to it.
THEOREM DisputesNeverStranded == TxSpec => []NoStrandedDispute
<1>1. TxInv => NoStrandedDispute
  BY DEF TxInv, DisputesBacked, NoStrandedDispute
<1> QED
  BY <1>1, InductiveTx, PTL

\* No race of confirmations, cancellations and rulings completes a contract
\* that only one party has confirmed.
THEOREM CompletionNeedsBothTx == TxSpec => []CompletedByBoth
<1>1. TxInv => CompletedByBoth
  BY DEF TxInv
<1> QED
  BY <1>1, InductiveTx, PTL

\* No commit undoes the record of what another request did: the unit of work
\* writes only the columns its handler changed.
THEOREM RecordsKept == TxSpec => NothingRecordedIsLost
<1>1. Kept =>
        /\ \A k \in Contracts :
             /\ contracts[k].worker_accepted => contracts'[k].worker_accepted
             /\ contracts[k].employer_confirmed => contracts'[k].employer_confirmed
             /\ contracts[k].worker_confirmed => contracts'[k].worker_confirmed
             /\ contracts[k].cancelled => contracts'[k].cancelled
        /\ \A p \in Problems :
             /\ problems[p].escalated => problems'[p].escalated
             /\ problems[p].resolution # None => problems'[p].resolution # None
  BY DEF Kept, Stamps
<1> QED
  BY <1>1, InductiveTx, StepTx, PTL DEF TxSpec, NothingRecordedIsLost

=============================================================================
