CONSTANTS
    Listings = {l1, l2}
    Kinds = {"exchange", "product", "shop", "place"}
    Sessions = {s1, s2}
    QueueSize = 2
    AutoApproveScore = 1
    MaxRating = 1
    None = None
    Locations = {a1, a2, a3}
    Everywhere = Everywhere
    Reps = {r1, r2}
    Wards = {w1, w2}
    Positions = {p1, p2}
    Owners = {o1}
    Clerks = {s1, s2}
    Nowhere = Nowhere
    Jobs = {s1, s2}
SPECIFICATION MCSpec
INVARIANT IndexInSync
CHECK_DEADLOCK FALSE
