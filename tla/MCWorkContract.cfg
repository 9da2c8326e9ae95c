\* One contract (no handler touches the rows of two) with two problems, so
\* that one dispute can open, or end, while the other is pending; a ticket for
\* each; a payment logged by each party.  A concluded contract with every
\* problem settled is a state the system really rests in: no deadlock check.
CONSTANTS
    Users = {u1, u2, m}
    Moderators = {m}
    Contracts = {k1}
    Problems = {p1, p2}
    Payments = {y1, y2}
    Tickets = {q1, q2}
    Reasons = {reason}
    FaultRulings = {favor_employer, favor_worker}
    None = None
SPECIFICATION Spec
SYMMETRY IdSymmetry
INVARIANTS
    TypeOK
    DocketMatchesProblems
    RulingMatchesDecision
    ConfirmedByCounterparty
    CancellationAttributed
PROPERTIES
    ImplementsDocket
CHECK_DEADLOCK FALSE
