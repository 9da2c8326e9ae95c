----------------------------- MODULE RateLimiter -----------------------------
(***************************************************************************)
(* The fixed-window limiter of core/rate_limit.py, for one key in Redis.   *)
(* Time passes in ticks; the window is Window ticks long.                  *)
(***************************************************************************)
EXTENDS Naturals

CONSTANTS
    Limit,      \* hits allowed in a window
    Window      \* length of a window, in ticks

ASSUME LimiterAssumption == Limit \in Nat \ {0} /\ Window \in Nat \ {0}

VARIABLES
    bucket,     \* the Redis key: its count and the ticks it has left to live
    allowed     \* requests let through that are at most so many ticks old (history)

limiterVars == <<bucket, allowed>>

\* Bounds: a count above Limit + 1 behaves as Limit + 1, and nothing asks of more
\* than 2 * Limit requests how many they are.
Counts == 0..(Limit + 1)
NoKey == [count |-> 0, ttl |-> 0]

LimiterTypeOK ==
    /\ bucket \in [count : Counts, ttl : 0..Window]
    /\ allowed \in [0..(Window - 1) -> 0..(2 * Limit + 1)]

LimiterInit ==
    /\ bucket = NoKey
    /\ allowed = [a \in 0..(Window - 1) |-> 0]

Blocked == bucket.count > Limit

\* MUTANT: EXPIRE without NX, so every hit starts the window again
IncrExpireAlways(b) ==
    [count |-> IF b.count > Limit THEN b.count ELSE b.count + 1, ttl |-> Window]

\* INCR and EXPIRE NX in one MULTI: the first hit of a window arms it.
IncrExpire(b) ==
    [count |-> IF b.count > Limit THEN b.count ELSE b.count + 1,
     ttl |-> IF b.ttl = 0 THEN Window ELSE b.ttl]

\* MUTANT: >= Limit + 2, one hit too many
WithinLimitOffByOne(b) == b.count <= Limit + 1

WithinLimit(b) == b.count <= Limit

\* enforce_rate_limit: raises 429, or lets the request go on.
RefusedHit ==
    /\ bucket' = IncrExpire(bucket)
    /\ ~WithinLimit(bucket')
    /\ UNCHANGED allowed

AllowedHit ==
    /\ bucket' = IncrExpire(bucket)
    /\ WithinLimit(bucket')
    /\ allowed' = [a \in DOMAIN allowed |-> IF allowed[a] > 2 * Limit THEN allowed[a] ELSE allowed[a] + 1]

Tick ==
    /\ bucket' = IF bucket.ttl <= 1 THEN NoKey ELSE [bucket EXCEPT !.ttl = @ - 1]
    /\ allowed' = [a \in DOMAIN allowed |-> IF a = 0 THEN 0 ELSE allowed[a - 1]]
=============================================================================
