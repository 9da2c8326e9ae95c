\* Two requests in flight over one contract.
CONSTANTS
    Users = {u1, m}
    Moderators = {m}
    Contracts = {k1}
    Problems = {p1, p2}
    Payments = {}
    Tickets = {q1, q2}
    Reasons = {reason}
    FaultRulings = {favor_employer}
    None = None
    Sessions = {s1, s2}
SPECIFICATION TxSpec
CONSTRAINT ModeratorHires
SYMMETRY IdSymmetry
INVARIANTS
    TxTypeOK
    EscalationsStayQueued
    NoStrandedDispute
    CompletedByBoth
PROPERTIES
    NothingRecordedIsLost
CHECK_DEADLOCK FALSE
