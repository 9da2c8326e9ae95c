\* A cancellation in flight while the second party confirms completion.
CONSTANTS
    Users = {u1, m}
    Moderators = {m}
    Contracts = {k1}
    Problems = {}
    Payments = {}
    Tickets = {}
    Reasons = {reason}
    FaultRulings = {favor_employer}
    None = None
    Sessions = {s1, s2}
SPECIFICATION TxSpec
PROPERTY NoPeerCancelAfterCompletion
CHECK_DEADLOCK FALSE
