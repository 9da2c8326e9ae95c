\* The smallest instance on which a dismissed dispute activates a contract.
CONSTANTS
    Users = {u1, u2, m}
    Moderators = {m}
    Contracts = {k1}
    Problems = {p1}
    Payments = {}
    Tickets = {q1}
    Reasons = {reason}
    FaultRulings = {favor_employer, favor_worker}
    None = None
SPECIFICATION Spec
INVARIANT ActiveMeansAccepted
CHECK_DEADLOCK FALSE
