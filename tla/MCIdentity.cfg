CONSTANTS
    Users = {u1}
    Pairs = {p1, p2}
    Sessions = {s1, s2}
    MaxChanges = 2
    None = None
    Calls = {v1, v2}
    MaxCodes = 2
    MaxAttempts = 2
    Limit = 2
    Window = 2
    Callers = {c1, c2}
    Accounts = {a1, a2}
    Numbers = {n1, n2}
    NoPhone = NoPhone
SPECIFICATION MCSpec
INVARIANTS MCTypeOK StaleTokensAreRevoked OneLiveCode CodesWearOut BurstBound VerifiedWasProven
PROPERTIES SpentTokensAreReplays AccessConverges LimitLifts
CHECK_DEADLOCK FALSE
