\* Two moderators, or one who clicks twice, in flight over one queue row.
CONSTANTS
    Users = {u1, m}
    Moderators = {m}
    Contracts = {k1}
    Problems = {p1}
    Payments = {}
    Tickets = {q1}
    Reasons = {reason}
    FaultRulings = {favor_employer}
    None = None
    Sessions = {s1, s2}
SPECIFICATION TxSpec
PROPERTY ReviewedOnce
CHECK_DEADLOCK FALSE
