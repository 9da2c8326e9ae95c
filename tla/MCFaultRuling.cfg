\* Two problems, escalated together and ruled on one after the other.
CONSTANTS
    Users = {u1, u2, m}
    Moderators = {m}
    Contracts = {k1}
    Problems = {p1, p2}
    Payments = {}
    Tickets = {q1, q2}
    Reasons = {reason}
    FaultRulings = {favor_employer, favor_worker}
    None = None
SPECIFICATION Spec
INVARIANT FaultRulingEndsContract
CHECK_DEADLOCK FALSE
