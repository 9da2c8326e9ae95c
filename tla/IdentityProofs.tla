---------------------------- MODULE IdentityProofs ----------------------------
(***************************************************************************)
(* Proofs about RateLimiter, OtpCodes and PhoneIdentity, for any limit,    *)
(* window, number of codes and guesses, and any accounts, numbers and      *)
(* requests in flight; and about MCIdentity, where they stand beside       *)
(* AccountSessions.                                                        *)
(***************************************************************************)
EXTENDS MCIdentity, AccountSessionsProofs, FiniteSetTheorems

-----------------------------------------------------------------------------
(* The limiter.                                                            *)

\* Hits let through in the window that is open.
Through == IF bucket.count > Limit THEN Limit ELSE bucket.count

\* Without a key there are no hits of this tick, and those of the last Window ticks
\* are of one window.  With one, a window opened Window - ttl ticks ago: the hits
\* since then are the key's, and at most one more window reaches into the span.
WindowsAccounted ==
    IF bucket.ttl = 0
    THEN /\ bucket.count = 0
         /\ allowed[0] = 0
         /\ \A a \in 0..(Window - 1) : allowed[a] <= Limit
    ELSE \A a \in 0..(Window - 1) :
            /\ allowed[a] <= Through + Limit
            /\ a + bucket.ttl <= Window => allowed[a] <= Through

LimiterInv == LimiterTypeOK /\ WindowsAccounted

LEMMA LimiterStarts == LimiterInit => LimiterInv
BY LimiterAssumption DEF LimiterInit, LimiterInv, LimiterTypeOK, WindowsAccounted, NoKey, Counts

\* A hit is counted in the key, and starts a window if there is none.
LEMMA HitKeepsLimiter ==
    ASSUME LimiterInv, AllowedHit \/ RefusedHit
    PROVE  LimiterInv'
<1> USE LimiterAssumption
<1> DEFINE n == IF bucket.count > Limit THEN bucket.count ELSE bucket.count + 1
           t == IF bucket.ttl = 0 THEN Window ELSE bucket.ttl
<1>1. /\ bucket.count \in 0..(Limit + 1) /\ bucket.ttl \in 0..Window
      /\ DOMAIN allowed = 0..(Window - 1)
      /\ \A a \in 0..(Window - 1) : allowed[a] \in 0..(2 * Limit + 1)
  BY DEF LimiterInv, LimiterTypeOK, Counts
<1>2. bucket' = [count |-> n, ttl |-> t]
  BY DEF AllowedHit, RefusedHit, IncrExpire
<1>3. bucket' \in [count : Counts, ttl : 0..Window] /\ bucket'.count = n /\ bucket'.ttl = t
  BY <1>1, <1>2 DEF Counts
<1>4. CASE RefusedHit
  <2>1. allowed' = allowed /\ n > Limit
    BY <1>1, <1>3, <1>4 DEF RefusedHit, WithinLimit
  <2>2. bucket.ttl # 0 /\ Through = Limit /\ Through' = Limit
    BY <1>1, <1>3, <2>1 DEF Through, LimiterInv, WindowsAccounted
  <2> QED
    BY <1>1, <1>3, <2>1, <2>2 DEF LimiterInv, LimiterTypeOK, WindowsAccounted
<1>5. CASE AllowedHit
  <2>1. n <= Limit /\ n = bucket.count + 1 /\ Through = bucket.count /\ Through' = bucket.count + 1
    BY <1>1, <1>3, <1>5 DEF AllowedHit, WithinLimit, Through
  <2>2. \A a \in 0..(Window - 1) : allowed[a] <= 2 * Limit
    BY <1>1, <2>1 DEF LimiterInv, WindowsAccounted
  <2>3. allowed' = [a \in 0..(Window - 1) |-> allowed[a] + 1]
    BY <1>1, <1>5, <2>2 DEF AllowedHit
  <2>4. LimiterTypeOK'
    BY <1>1, <1>3, <2>2, <2>3 DEF LimiterTypeOK
  <2>5. WindowsAccounted'
    <3>1. bucket'.ttl # 0 /\ bucket'.ttl = t
      BY <1>1, <1>3
    <3>2. ASSUME NEW a \in 0..(Window - 1)
          PROVE  /\ allowed[a] + 1 <= bucket.count + 1 + Limit
                 /\ a + t <= Window => allowed[a] + 1 <= bucket.count + 1
      <4>1. CASE bucket.ttl = 0
        BY <1>1, <4>1 DEF LimiterInv, WindowsAccounted
      <4>2. CASE bucket.ttl # 0
        BY <1>1, <2>1, <4>2 DEF LimiterInv, WindowsAccounted
      <4> QED
        BY <4>1, <4>2
    <3> HIDE DEF t
    <3> QED
      BY <2>1, <2>3, <3>1, <3>2 DEF WindowsAccounted
  <2> QED
    BY <2>4, <2>5 DEF LimiterInv
<1> QED
  BY <1>4, <1>5

\* A tick ages the hits, and the window that is open; it may end it.
LEMMA TickKeepsLimiter ==
    ASSUME LimiterInv, Tick
    PROVE  LimiterInv'
<1> USE LimiterAssumption
<1>1. /\ bucket \in [count : 0..(Limit + 1), ttl : 0..Window]
      /\ DOMAIN allowed = 0..(Window - 1)
      /\ \A a \in 0..(Window - 1) : allowed[a] \in 0..(2 * Limit + 1)
  BY DEF LimiterInv, LimiterTypeOK, Counts
<1>2. allowed' = [a \in 0..(Window - 1) |-> IF a = 0 THEN 0 ELSE allowed[a - 1]]
  BY <1>1 DEF Tick
<1>3. CASE bucket.ttl <= 1
  <2>1. bucket' = NoKey
    BY <1>3 DEF Tick
  <2>2. bucket'.ttl = 0 /\ bucket'.count = 0 /\ bucket' \in [count : Counts, ttl : 0..Window]
    BY <2>1 DEF NoKey, Counts
  <2>3. \A a \in 0..(Window - 1) : a # 0 => allowed[a - 1] <= Limit
    BY <1>1, <1>3 DEF LimiterInv, WindowsAccounted, Through
  <2> QED
    BY <1>1, <1>2, <2>2, <2>3 DEF LimiterInv, LimiterTypeOK, WindowsAccounted
<1>4. CASE bucket.ttl > 1
  <2>1. bucket' = [bucket EXCEPT !.ttl = bucket.ttl - 1]
    BY <1>1, <1>4 DEF Tick
  <2>2. /\ bucket'.ttl = bucket.ttl - 1 /\ bucket'.count = bucket.count
        /\ bucket' \in [count : Counts, ttl : 0..Window]
    BY <1>1, <1>4, <2>1 DEF Counts
  <2>3. Through' = Through /\ Through \in 0..Limit
    BY <1>1, <2>2 DEF Through
  <2>4. \A a \in 0..(Window - 1) : a # 0 =>
           /\ allowed[a - 1] <= Through + Limit
           /\ a + (bucket.ttl - 1) <= Window => allowed[a - 1] <= Through
    BY <1>1, <1>4, <2>3 DEF LimiterInv, WindowsAccounted
  <2> QED
    BY <1>1, <1>2, <1>4, <2>2, <2>3, <2>4 DEF LimiterInv, LimiterTypeOK, WindowsAccounted
<1> QED
  BY <1>1, <1>3, <1>4

\* What the invariant says of a whole span.
LEMMA LimiterBounds == LimiterInv => BurstBound
<1> SUFFICES ASSUME LimiterInv PROVE BurstBound
  OBVIOUS
<1>1. Window - 1 \in 0..(Window - 1)
  BY LimiterAssumption
<1>2. /\ bucket.count \in 0..(Limit + 1) /\ bucket.ttl \in 0..Window
      /\ allowed[Window - 1] \in 0..(2 * Limit + 1)
  BY <1>1 DEF LimiterInv, LimiterTypeOK, Counts
<1> QED
  BY <1>1, <1>2, LimiterAssumption DEF LimiterInv, WindowsAccounted, Through, BurstBound

-----------------------------------------------------------------------------
(* One-time codes: the inductive invariant.                                *)

\* What a request holds: a code its own transaction has begun, which no other row
\* has yet, or one that is in the table and cannot be deleted from under it.
CallsHoldCodes ==
    /\ \A c \in Codes : c > begun => codes[c] = NoCode
    /\ \A s \in Calls :
          /\ calls[s].pc # "idle" => calls[s].code \in 1..begun
          /\ calls[s].pc = "issue" => codes[calls[s].code] = NoCode
          /\ calls[s].pc \in {"send", "check"} => codes[calls[s].code].state # "absent"
          /\ calls[s].pc = "check" => calls[s].loaded < MaxAttempts
          /\ \A c \in calls[s].retire : codes[c].state # "absent"
          /\ \A t \in Calls :
                calls[s].pc = "issue" /\ calls[t].pc = "issue" /\ calls[s].code = calls[t].code => s = t

\* Until two requests for a code have been open together, the one that is open
\* retires whatever is live, and at most one code is.
RetiringSeesAll ==
    ~overlapped =>
        /\ \A s, t \in Calls : calls[s].pc = "issue" /\ calls[t].pc = "issue" => s = t
        /\ \A s \in Calls : calls[s].pc = "issue" => Unconsumed \subseteq calls[s].retire
        /\ \A c, d \in Unconsumed : c = d

\* A code two requests have not contended for has as many wrong guesses as its
\* attempt_count says; the one request that is checking it has loaded that count,
\* and the code has not been redeemed before.
Wear(c) ==
    ~codes[c].contended =>
        /\ codes[c].guesses = codes[c].attempts /\ codes[c].attempts <= MaxAttempts
        /\ codes[c].redeemed <= 1
        /\ codes[c].state = "live" => codes[c].redeemed = 0
        /\ \A s \in Calls :
              calls[s].pc = "check" /\ calls[s].code = c =>
                 /\ calls[s].loaded = codes[c].attempts /\ codes[c].redeemed = 0
                 /\ \A t \in Calls : calls[t].pc = "check" /\ calls[t].code = c => s = t

WearsOut == \A c \in Codes : Wear(c)

CodesTyped ==
    /\ codes \in [Codes -> CodeRow]
    /\ begun \in 0..MaxCodes
    /\ calls \in [Calls -> Call]
    /\ overlapped \in BOOLEAN

OtpInv == LimiterInv /\ CodesTyped /\ CallsHoldCodes /\ RetiringSeesAll /\ WearsOut

\* No code, no request.
LEMMA NoCodeRow ==
    /\ NoCode \in CodeRow /\ NoCall \in Call
    /\ NoCode.state = "absent" /\ NoCode.guesses = 0 /\ NoCode.attempts = 0
    /\ NoCode.redeemed = 0 /\ ~NoCode.contended /\ NoCode.expired = FALSE
    /\ NoCall.pc = "idle" /\ NoCall.code = 0 /\ NoCall.retire = {}
BY OtpAssumption DEF NoCode, CodeRow, NoCall, Call, Codes

LEMMA OtpStarts == OtpInit => OtpInv
<1> SUFFICES ASSUME OtpInit PROVE OtpInv
  OBVIOUS
<1> USE NoCodeRow, OtpAssumption DEF OtpInit
<1>1. LimiterInv
  BY LimiterStarts
<1>2. CodesTyped
  <2>1. 0 \in 0..MaxCodes
    OBVIOUS
  <2>2. codes \in [Codes -> CodeRow] /\ calls \in [Calls -> Call]
    OBVIOUS
  <2> QED
    BY <2>1, <2>2 DEF CodesTyped
<1>3. CallsHoldCodes
  BY DEF CallsHoldCodes
<1>4. RetiringSeesAll
  BY DEF RetiringSeesAll, Unconsumed
<1>5. WearsOut
  BY DEF WearsOut, Wear
<1> QED
  BY <1>1, <1>2, <1>3, <1>4, <1>5 DEF OtpInv

-----------------------------------------------------------------------------
(* One-time codes: steps.                                                  *)

\* The steps that use only the limiter.
LEMMA LimiterSteps ==
    ASSUME OtpInv, LimiterTick \/ \E s \in Calls : RefuseRequest(s)
    PROVE  OtpInv'
<1>1. LimiterInv' /\ UNCHANGED <<codes, begun, calls, overlapped>>
  BY HitKeepsLimiter, TickKeepsLimiter DEF OtpInv, LimiterTick, RefuseRequest
<1> QED
  BY <1>1 DEF OtpInv, CodesTyped, CallsHoldCodes, RetiringSeesAll, WearsOut, Wear, Unconsumed

\* A request takes the next place and notes the codes to retire.
LEMMA RequestBegins ==
    ASSUME OtpInv, NEW s \in Calls, BeginRequest(s)
    PROVE  OtpInv'
<1> USE OtpAssumption, NoCodeRow DEF OtpInv, CodesTyped
<1> DEFINE k == [NoCall EXCEPT !.pc = "issue", !.code = begun + 1, !.retire = Unconsumed]
<1>1. /\ k \in Call /\ k.pc = "issue" /\ k.code = begun + 1 /\ k.retire = Unconsumed
      /\ begun \in Nat /\ begun + 1 \in Codes
  <2>1. begun \in Nat /\ begun + 1 \in 0..MaxCodes /\ begun + 1 \in Codes
    BY DEF BeginRequest, Codes
  <2>2. Unconsumed \subseteq Codes /\ 0 \in 0..MaxAttempts
    BY DEF Unconsumed
  <2> QED
    BY <2>1, <2>2 DEF NoCall, Call
<1> HIDE DEF k
<1>2. calls' \in [Calls -> Call] /\ \A t \in Calls : calls'[t] = IF t = s THEN k ELSE calls[t]
  BY <1>1 DEF BeginRequest, k
<1>3. begun' = begun + 1 /\ codes' = codes /\ Unconsumed' = Unconsumed
  BY DEF BeginRequest, Unconsumed
<1>4. LimiterInv'
  BY HitKeepsLimiter DEF BeginRequest
<1>5. CodesTyped'
  BY <1>1, <1>2, <1>3 DEF BeginRequest, Codes
<1>6. CallsHoldCodes'
  <2>1. \A c \in Codes : c > begun' => codes'[c] = NoCode
    BY <1>1, <1>3 DEF CallsHoldCodes, Codes
  <2>2. codes[begun + 1] = NoCode
    BY <1>1 DEF CallsHoldCodes, Codes
  <2>3. \A c \in Unconsumed : codes[c].state # "absent"
    BY DEF Unconsumed
  <2>4. \A t \in Calls : calls[t].pc # "idle" => calls[t].code # begun + 1 /\ calls[t].code \in 1..(begun + 1)
    BY <1>1 DEF CallsHoldCodes
  <2> QED
    BY <1>1, <1>2, <1>3, <2>1, <2>2, <2>3, <2>4 DEF CallsHoldCodes
<1>7. RetiringSeesAll'
  BY <1>1, <1>2, <1>3 DEF BeginRequest, RetiringSeesAll
<1>8. WearsOut'
  BY <1>1, <1>2, <1>3 DEF WearsOut, Wear
<1> QED
  BY <1>4, <1>5, <1>6, <1>7, <1>8

\* The request commits: its code is live, and those it saw are consumed.
LEMMA RequestCommits ==
    ASSUME OtpInv, NEW s \in Calls, CommitRequest(s)
    PROVE  OtpInv'
<1> USE OtpAssumption, NoCodeRow DEF OtpInv, CodesTyped
<1> DEFINE new == calls[s].code
           k == [NoCall EXCEPT !.pc = "send", !.code = new]
           live == [NoCode EXCEPT !.state = "live"]
           retired(c) == [codes[c] EXCEPT !.state = "consumed"]
<1>1. /\ new \in Codes /\ new \in 1..begun /\ calls[s].pc = "issue" /\ codes[new] = NoCode
      /\ calls[s].retire \subseteq Codes /\ new \notin calls[s].retire
  BY DEF CommitRequest, CallsHoldCodes, Codes, Call
<1>2. k \in Call /\ k.pc = "send" /\ k.code = new /\ k.retire = {}
  BY <1>1 DEF NoCall, Call, Codes
<1>3. /\ live \in CodeRow /\ live.state = "live" /\ live.guesses = 0 /\ live.attempts = 0
      /\ live.redeemed = 0 /\ ~live.contended
  BY DEF NoCode, CodeRow
<1>4. ASSUME NEW c \in Codes
      PROVE  /\ retired(c) \in CodeRow /\ retired(c).state = "consumed"
             /\ retired(c).guesses = codes[c].guesses /\ retired(c).attempts = codes[c].attempts
             /\ retired(c).redeemed = codes[c].redeemed /\ retired(c).contended = codes[c].contended
  BY DEF CodeRow
<1>5. /\ calls' = [calls EXCEPT ![s] = k] /\ UNCHANGED <<bucket, allowed, begun, overlapped>>
      /\ \A c \in Codes : codes'[c] = IF c = new THEN live
                                      ELSE IF c \in calls[s].retire THEN retired(c) ELSE codes[c]
      /\ codes' = [c \in Codes |-> codes'[c]]
  <2>1. codes' = [c \in Codes |-> CASE c = new -> live
                                     [] c \in calls[s].retire -> retired(c)
                                     [] OTHER -> codes[c]]
    BY DEF CommitRequest
  <2> HIDE DEF live, retired
  <2>2. \A c \in Codes : codes'[c] = IF c = new THEN live
                                     ELSE IF c \in calls[s].retire THEN retired(c) ELSE codes[c]
    BY <1>1, <2>1
  <2> QED
    BY <2>1, <2>2 DEF CommitRequest
<1> HIDE DEF k, live, retired
<1>6. calls' \in [Calls -> Call] /\ \A t \in Calls : calls'[t] = IF t = s THEN k ELSE calls[t]
  BY <1>2, <1>5
<1>7. LimiterInv'
  BY <1>5 DEF LimiterInv, LimiterTypeOK, WindowsAccounted, Through
<1>8. CodesTyped'
  <2>1. \A c \in Codes : codes'[c] \in CodeRow
    BY <1>3, <1>4, <1>5
  <2> QED
    BY <1>5, <1>6, <2>1
<1>9. ASSUME NEW t \in Calls, t # s, calls[t].pc = "issue" PROVE codes'[calls[t].code] = NoCode
  <2>1. calls[t].code \in Codes /\ calls[t].code # new /\ codes[calls[t].code] = NoCode
    BY <1>1, <1>9 DEF CallsHoldCodes, Codes
  <2>2. calls[t].code \notin calls[s].retire
    BY <2>1 DEF CallsHoldCodes
  <2> QED
    BY <1>5, <2>1, <2>2
<1>10. CallsHoldCodes'
  <2>1. \A c \in Codes : c > begun' => codes'[c] = NoCode
    <3> SUFFICES ASSUME NEW c \in Codes, c > begun PROVE codes'[c] = NoCode
      BY <1>5
    <3>1. codes[c] = NoCode /\ c # new
      BY <1>1 DEF CallsHoldCodes
    <3>2. c \notin calls[s].retire
      BY <3>1 DEF CallsHoldCodes
    <3> QED
      BY <1>5, <3>1, <3>2
  <2>2. \A c \in Codes : codes[c].state # "absent" \/ c = new => codes'[c].state # "absent"
    BY <1>3, <1>4, <1>5
  <2>3. \A t \in Calls : calls[t].retire \subseteq Codes
    BY DEF Call
  <2>4. \A t \in Calls : calls[t].pc # "idle" => calls[t].code \in Codes
    BY DEF CallsHoldCodes, Codes
  <2> QED
    BY <1>1, <1>2, <1>5, <1>6, <1>9, <2>1, <2>2, <2>3, <2>4 DEF CallsHoldCodes
<1>11. RetiringSeesAll'
  <2>1. Unconsumed' = {new} \cup (Unconsumed \ calls[s].retire)
    BY <1>1, <1>3, <1>4, <1>5 DEF Unconsumed
  <2> QED
    BY <1>1, <1>2, <1>5, <1>6, <2>1 DEF RetiringSeesAll
<1>12. WearsOut'
  <2> SUFFICES ASSUME NEW c \in Codes PROVE Wear(c)'
    BY DEF WearsOut
  <2>1. CASE c = new
    <3>1. \A t \in Calls : ~(calls'[t].pc = "check" /\ calls'[t].code = new)
      BY <1>1, <1>2, <1>6 DEF CallsHoldCodes
    <3> QED
      BY <1>3, <1>5, <2>1, <3>1 DEF Wear
  <2>2. CASE c # new
    <3>1. Wear(c)
      BY DEF WearsOut
    <3> QED
      BY <1>2, <1>4, <1>5, <1>6, <2>2, <3>1 DEF Wear
  <2> QED
    BY <2>1, <2>2
<1> QED
  BY <1>7, <1>8, <1>10, <1>11, <1>12

\* A step that ends what one request holds and leaves the other rows alone.  The row
\* it writes stays in the table, comes to life in no way, and keeps to its count.
LEMMA RowWritten ==
    ASSUME OtpInv, NEW s \in Calls, NEW c \in Codes, NEW row \in CodeRow,
           calls[s].code = c, calls[s].pc \in {"send", "check"},
           codes' = [codes EXCEPT ![c] = row], calls' = [calls EXCEPT ![s] = NoCall],
           UNCHANGED <<bucket, allowed, begun, overlapped>>,
           row.state # "absent", row.state = "live" => codes[c].state = "live",
           row.contended = codes[c].contended,
           ~row.contended =>
              /\ row.guesses = row.attempts /\ row.attempts <= MaxAttempts
              /\ row.redeemed <= 1
              /\ row.state = "live" => row.redeemed = 0
              /\ \A t \in Calls \ {s} : calls[t].pc = "check" /\ calls[t].code = c =>
                    /\ row.attempts = calls[t].loaded /\ row.redeemed = 0
    PROVE  OtpInv'
<1> USE OtpAssumption, NoCodeRow DEF OtpInv, CodesTyped
<1>1. LimiterInv'
  BY DEF LimiterInv, LimiterTypeOK, WindowsAccounted, Through
<1>2. /\ \A d \in Codes : codes'[d] = IF d = c THEN row ELSE codes[d]
      /\ \A t \in Calls : calls'[t] = IF t = s THEN NoCall ELSE calls[t]
  OBVIOUS
<1>3. CodesTyped'
  OBVIOUS
<1>4. codes[c].state # "absent" /\ codes[c] # NoCode
  BY DEF CallsHoldCodes
<1>5. CallsHoldCodes'
  <2>1. \A d \in Codes : /\ codes[d] = NoCode => codes'[d] = NoCode
                         /\ codes[d].state # "absent" => codes'[d].state # "absent"
    BY <1>2, <1>4
  <2>2. \A t \in Calls : calls[t].retire \subseteq Codes
    BY DEF Call
  <2>3. \A t \in Calls : calls[t].pc # "idle" => calls[t].code \in Codes
    BY DEF CallsHoldCodes, Codes
  <2> QED
    BY <1>2, <2>1, <2>2, <2>3 DEF CallsHoldCodes
<1>6. RetiringSeesAll'
  <2>1. Unconsumed' \subseteq Unconsumed
    BY <1>2 DEF Unconsumed
  <2> QED
    BY <1>2, <2>1 DEF RetiringSeesAll
<1>7. WearsOut'
  <2> SUFFICES ASSUME NEW d \in Codes PROVE Wear(d)'
    BY DEF WearsOut
  <2>1. Wear(d)
    BY DEF WearsOut
  <2>2. CASE d = c
    BY <1>2, <2>1, <2>2 DEF Wear
  <2>3. CASE d # c
    BY <1>2, <2>1, <2>3 DEF Wear
  <2> QED
    BY <2>2, <2>3
<1> QED
  BY <1>1, <1>3, <1>5, <1>6, <1>7

\* The SMS is sent, a wrong guess is counted, or the right one redeems the code.
LEMMA HeldCodeSteps ==
    ASSUME OtpInv, NEW s \in Calls, SendSms(s) \/ WrongGuess(s) \/ Redeem(s),
           NEW c, c = calls[s].code
    PROVE  OtpInv'
<1> USE OtpAssumption
<1>1. /\ c \in Codes /\ codes[c] \in CodeRow /\ codes[c].state # "absent"
      /\ calls[s].pc \in {"send", "check"} /\ calls[s] \in Call /\ Wear(c)
      /\ codes \in [Codes -> CodeRow] /\ calls \in [Calls -> Call]
  BY DEF SendSms, WrongGuess, Redeem, OtpInv, CallsHoldCodes, CodesTyped, Codes, WearsOut
<1>2. CASE SendSms(s)
  <2> DEFINE row == [codes[c] EXCEPT !.known = TRUE]
  <2>1. /\ row \in CodeRow /\ row.state = codes[c].state /\ row.contended = codes[c].contended
        /\ row.guesses = codes[c].guesses /\ row.attempts = codes[c].attempts
        /\ row.redeemed = codes[c].redeemed
    BY <1>1 DEF CodeRow
  <2>2. /\ codes' = [codes EXCEPT ![c] = row] /\ calls' = [calls EXCEPT ![s] = NoCall]
        /\ UNCHANGED <<bucket, allowed, begun, overlapped>>
    BY <1>2, <1>1 DEF SendSms
  <2>3. ~row.contended =>
           /\ row.guesses = row.attempts /\ row.attempts <= MaxAttempts
           /\ row.redeemed <= 1
           /\ row.state = "live" => row.redeemed = 0
           /\ \A t \in Calls \ {s} : calls[t].pc = "check" /\ calls[t].code = c =>
                 /\ row.attempts = calls[t].loaded /\ row.redeemed = 0
    <3> HIDE DEF row
    <3> QED
      BY <1>1, <2>1 DEF Wear
  <2> HIDE DEF row
  <2> QED
    <3>1. row.state # "absent" /\ (row.state = "live" => codes[c].state = "live")
      BY <1>1, <2>1
    <3>2. row \in CodeRow /\ row.contended = codes[c].contended
      BY <2>1
    <3> QED
      BY <1>1, <2>2, <2>3, <3>1, <3>2, RowWritten
<1>3. CASE WrongGuess(s)
  <2> DEFINE g == IF codes[c].guesses > MaxAttempts THEN codes[c].guesses ELSE codes[c].guesses + 1
             n == calls[s].loaded + 1
             row == [codes[c] EXCEPT !.attempts = n, !.guesses = g]
  <2>1. /\ calls[s].pc = "check" /\ calls[s].loaded \in Nat /\ calls[s].loaded < MaxAttempts
        /\ codes[c].guesses \in 0..(MaxAttempts + 1) /\ codes[c].attempts \in 0..(MaxAttempts + 1)
    BY <1>1, <1>3 DEF WrongGuess, OtpInv, CallsHoldCodes, Call, CodeRow
  <2>2. n \in 0..(MaxAttempts + 1) /\ g \in 0..(MaxAttempts + 1) /\ n <= MaxAttempts
    BY <2>1
  <2>3. /\ codes' = [codes EXCEPT ![c] = row] /\ calls' = [calls EXCEPT ![s] = NoCall]
        /\ UNCHANGED <<bucket, allowed, begun, overlapped>>
    BY <1>3, <1>1 DEF WrongGuess
  <2>4. ~codes[c].contended =>
           /\ g = n /\ codes[c].redeemed = 0
           /\ \A t \in Calls \ {s} : ~(calls[t].pc = "check" /\ calls[t].code = c)
    BY <1>1, <2>1 DEF Wear
  <2> HIDE DEF g, n
  <2>5. /\ row \in CodeRow /\ row.state = codes[c].state /\ row.contended = codes[c].contended
        /\ row.guesses = g /\ row.attempts = n /\ row.redeemed = codes[c].redeemed
    BY <1>1, <2>2 DEF CodeRow
  <2> HIDE DEF row
  <2>6. ~row.contended =>
           /\ row.guesses = row.attempts /\ row.attempts <= MaxAttempts
           /\ row.redeemed <= 1
           /\ row.state = "live" => row.redeemed = 0
           /\ \A t \in Calls \ {s} : calls[t].pc = "check" /\ calls[t].code = c =>
                 /\ row.attempts = calls[t].loaded /\ row.redeemed = 0
    BY <2>2, <2>4, <2>5
  <2> QED
    <3>1. row.state # "absent" /\ (row.state = "live" => codes[c].state = "live")
      BY <1>1, <2>5
    <3>2. row \in CodeRow /\ row.contended = codes[c].contended
      BY <2>5
    <3> QED
      BY <1>1, <2>3, <2>6, <3>1, <3>2, RowWritten
<1>4. CASE Redeem(s)
  <2> DEFINE r == IF codes[c].redeemed = 2 THEN 2 ELSE codes[c].redeemed + 1
             row == [codes[c] EXCEPT !.state = "consumed", !.redeemed = r]
  <2>1. codes[c].redeemed \in 0..2 /\ r \in 0..2
    BY <1>1 DEF CodeRow
  <2>2. /\ codes' = [codes EXCEPT ![c] = row] /\ calls' = [calls EXCEPT ![s] = NoCall]
        /\ UNCHANGED <<bucket, allowed, begun, overlapped>>
    BY <1>4, <1>1 DEF Redeem
  <2>3. ~codes[c].contended =>
           /\ r = 1 /\ codes[c].guesses = codes[c].attempts /\ codes[c].attempts <= MaxAttempts
           /\ \A t \in Calls \ {s} : ~(calls[t].pc = "check" /\ calls[t].code = c)
    BY <1>1, <1>4 DEF Redeem, Wear
  <2> HIDE DEF r
  <2>4. /\ row \in CodeRow /\ row.state = "consumed" /\ row.contended = codes[c].contended
        /\ row.guesses = codes[c].guesses /\ row.attempts = codes[c].attempts
        /\ row.redeemed = r
    BY <1>1, <2>1 DEF CodeRow
  <2> HIDE DEF row
  <2>5. ~row.contended =>
           /\ row.guesses = row.attempts /\ row.attempts <= MaxAttempts
           /\ row.redeemed <= 1
           /\ row.state = "live" => row.redeemed = 0
           /\ \A t \in Calls \ {s} : calls[t].pc = "check" /\ calls[t].code = c =>
                 /\ row.attempts = calls[t].loaded /\ row.redeemed = 0
    BY <2>3, <2>4
  <2> QED
    BY <1>1, <2>2, <2>4, <2>5, RowWritten
<1> QED
  BY <1>2, <1>3, <1>4

\* A request that dies lets go of what it holds.
LEMMA OtpAbandoned ==
    ASSUME OtpInv, NEW s \in Calls, AbandonCall(s)
    PROVE  OtpInv'
<1> USE NoCodeRow DEF OtpInv, CodesTyped
<1>1. /\ \A t \in Calls : calls'[t] = IF t = s THEN NoCall ELSE calls[t]
      /\ UNCHANGED <<bucket, allowed, codes, begun, overlapped>>
  BY DEF AbandonCall
<1>2. LimiterInv' /\ CodesTyped' /\ Unconsumed' = Unconsumed
  BY <1>1 DEF AbandonCall, LimiterInv, LimiterTypeOK, WindowsAccounted, Through, Unconsumed
<1>3. CallsHoldCodes'
  BY <1>1 DEF CallsHoldCodes
<1>4. RetiringSeesAll'
  BY <1>1, <1>2 DEF RetiringSeesAll
<1>5. WearsOut'
  BY <1>1 DEF WearsOut, Wear
<1> QED
  BY <1>2, <1>3, <1>4, <1>5

\* Only the newest live code is loaded, and only below the limit of attempts.
LEMMA VerifyBegins ==
    ASSUME OtpInv, NEW s \in Calls, NEW c \in Codes, BeginVerify(s, c)
    PROVE  OtpInv'
<1> USE OtpAssumption, NoCodeRow DEF OtpInv, CodesTyped
<1> DEFINE busy == \E t \in Calls : calls[t].pc = "check" /\ calls[t].code = c
           k == [NoCall EXCEPT !.pc = "check", !.code = c, !.loaded = codes[c].attempts]
           row == [codes[c] EXCEPT !.contended = codes[c].contended \/ busy]
<1>1. codes[c] \in CodeRow /\ codes[c].state = "live" /\ codes[c].attempts < MaxAttempts /\ calls[s] = NoCall
  BY DEF BeginVerify, IsNewest, Unconsumed
<1>2. c \in 1..begun
  BY <1>1 DEF CallsHoldCodes, Codes
<1>3. /\ k \in Call /\ k.pc = "check" /\ k.code = c /\ k.loaded = codes[c].attempts /\ k.retire = {}
  <2>1. codes[c].attempts \in 0..MaxAttempts /\ c \in 0..MaxCodes
    BY <1>1 DEF CodeRow, Codes
  <2> QED
    BY <2>1 DEF NoCall, Call
<1>4. /\ row \in CodeRow /\ row.state = "live" /\ row.guesses = codes[c].guesses
      /\ row.attempts = codes[c].attempts /\ row.redeemed = codes[c].redeemed
      /\ row.contended = (codes[c].contended \/ busy)
  BY <1>1 DEF CodeRow
<1>5. /\ codes' = [codes EXCEPT ![c] = row] /\ calls' = [calls EXCEPT ![s] = k]
      /\ UNCHANGED <<bucket, allowed, begun, overlapped>>
  BY DEF BeginVerify
<1> HIDE DEF k, row, busy
<1>6. /\ \A d \in Codes : codes'[d] = IF d = c THEN row ELSE codes[d]
      /\ \A t \in Calls : calls'[t] = IF t = s THEN k ELSE calls[t]
  BY <1>5
<1>7. LimiterInv'
  BY <1>5 DEF LimiterInv, LimiterTypeOK, WindowsAccounted, Through
<1>8. CodesTyped'
  BY <1>3, <1>4, <1>5
<1>9. CallsHoldCodes'
  <2>1. \A d \in Codes : /\ codes[d] = NoCode => codes'[d] = NoCode
                         /\ codes[d].state # "absent" => codes'[d].state # "absent"
    BY <1>1, <1>4, <1>6
  <2>2. \A t \in Calls : calls[t].retire \subseteq Codes
    BY DEF Call
  <2>3. \A t \in Calls : calls[t].pc # "idle" => calls[t].code \in Codes
    BY DEF CallsHoldCodes, Codes
  <2> QED
    BY <1>1, <1>2, <1>3, <1>4, <1>5, <1>6, <2>1, <2>2, <2>3 DEF CallsHoldCodes
<1>10. RetiringSeesAll'
  <2>1. Unconsumed' = Unconsumed
    BY <1>1, <1>4, <1>6 DEF Unconsumed
  <2> QED
    BY <1>3, <1>5, <1>6, <2>1 DEF RetiringSeesAll
<1>11. WearsOut'
  <2> SUFFICES ASSUME NEW d \in Codes PROVE Wear(d)'
    BY DEF WearsOut
  <2>1. Wear(d)
    BY DEF WearsOut
  <2>2. CASE d = c
    <3> SUFFICES ASSUME ~row.contended PROVE Wear(c)'
      BY <1>6, <2>2 DEF Wear
    <3>1. /\ ~codes[c].contended /\ codes[c].redeemed = 0
          /\ \A t \in Calls : ~(calls[t].pc = "check" /\ calls[t].code = c)
      BY <1>1, <1>4, <2>1, <2>2 DEF Wear, busy
    <3>2. \A t \in Calls : calls'[t].pc = "check" /\ calls'[t].code = c => t = s
      BY <1>6, <3>1
    <3> QED
      BY <1>1, <1>3, <1>4, <1>6, <2>1, <2>2, <3>1, <3>2 DEF Wear
  <2>3. CASE d # c
    BY <1>3, <1>6, <2>1, <2>3 DEF Wear
  <2> QED
    BY <2>2, <2>3
<1> QED
  BY <1>7, <1>8, <1>9, <1>10, <1>11

\* A code expires where it stands.
LEMMA CodesExpire ==
    ASSUME OtpInv, NEW c \in Codes, CodeExpires(c)
    PROVE  OtpInv'
<1> USE OtpAssumption, NoCodeRow DEF OtpInv, CodesTyped
<1> DEFINE row == [codes[c] EXCEPT !.expired = TRUE]
<1>1. /\ row \in CodeRow /\ row.state = "live" /\ codes[c].state = "live"
      /\ row.guesses = codes[c].guesses /\ row.attempts = codes[c].attempts
      /\ row.redeemed = codes[c].redeemed /\ row.contended = codes[c].contended
  BY DEF CodeRow, CodeExpires
<1>2. codes' = [codes EXCEPT ![c] = row] /\ UNCHANGED <<bucket, allowed, begun, calls, overlapped>>
  BY DEF CodeExpires
<1> HIDE DEF row
<1>3. \A d \in Codes : codes'[d] = IF d = c THEN row ELSE codes[d]
  BY <1>2
<1>4. LimiterInv' /\ CodesTyped'
  BY <1>1, <1>2 DEF LimiterInv, LimiterTypeOK, WindowsAccounted, Through
<1>5. CallsHoldCodes'
  <2>1. \A d \in Codes : /\ codes[d] = NoCode => codes'[d] = NoCode
                         /\ codes[d].state # "absent" => codes'[d].state # "absent"
    BY <1>1, <1>3
  <2>2. \A t \in Calls : calls[t].retire \subseteq Codes
    BY DEF Call
  <2>3. \A t \in Calls : calls[t].pc # "idle" => calls[t].code \in Codes
    BY DEF CallsHoldCodes, Codes
  <2> QED
    BY <1>2, <2>1, <2>2, <2>3 DEF CallsHoldCodes
<1>6. RetiringSeesAll'
  <2>1. Unconsumed' = Unconsumed
    BY <1>1, <1>3 DEF Unconsumed
  <2> QED
    BY <1>2, <2>1 DEF RetiringSeesAll
<1>7. WearsOut'
  BY <1>1, <1>2, <1>3 DEF WearsOut, Wear
<1> QED
  BY <1>4, <1>5, <1>6, <1>7

\* The daily task deletes only rows no request holds or retires.
LEMMA StaleCodesPurged ==
    ASSUME OtpInv, PurgeStaleCodes
    PROVE  OtpInv'
<1> USE OtpAssumption, NoCodeRow DEF OtpInv, CodesTyped
<1> DEFINE stale == {c \in Codes : codes[c].state = "consumed" \/ codes[c].expired}
<1>1. /\ \A s \in Calls : calls[s].code \notin stale /\ calls[s].retire \cap stale = {}
      /\ codes' = [c \in Codes |-> IF c \in stale THEN NoCode ELSE codes[c]]
      /\ UNCHANGED <<bucket, allowed, begun, calls, overlapped>>
  BY DEF PurgeStaleCodes
<1> HIDE DEF stale
<1>2. LimiterInv' /\ CodesTyped'
  BY <1>1 DEF LimiterInv, LimiterTypeOK, WindowsAccounted, Through
<1>3. CallsHoldCodes'
  <2>1. \A c \in Codes : codes[c] = NoCode => codes'[c] = NoCode
    BY <1>1
  <2>2. \A s \in Calls : calls[s].retire \subseteq Codes
    BY DEF Call
  <2>3. \A s \in Calls : \A c \in calls[s].retire : codes'[c] = codes[c]
    BY <1>1, <2>2
  <2>4. \A s \in Calls : calls[s].pc # "idle" =>
           calls[s].code \in Codes /\ codes'[calls[s].code] = codes[calls[s].code]
    BY <1>1 DEF CallsHoldCodes, Codes
  <2> QED
    BY <1>1, <2>1, <2>2, <2>3, <2>4 DEF CallsHoldCodes
<1>4. RetiringSeesAll'
  <2>1. Unconsumed' \subseteq Unconsumed
    BY <1>1 DEF Unconsumed
  <2> QED
    BY <1>1, <2>1 DEF RetiringSeesAll
<1>5. WearsOut'
  BY <1>1 DEF WearsOut, Wear
<1> QED
  BY <1>2, <1>3, <1>4, <1>5

-----------------------------------------------------------------------------
(* One-time codes: theorems.                                               *)

LEMMA OtpStep == OtpInv /\ [OtpNext]_otpVars => OtpInv'
<1> SUFFICES ASSUME OtpInv, [OtpNext]_otpVars PROVE OtpInv'
  OBVIOUS
<1>1. CASE \E s \in Calls : RefuseRequest(s) \/ BeginRequest(s) \/ CommitRequest(s) \/ AbandonCall(s)
  BY <1>1, LimiterSteps, RequestBegins, RequestCommits, OtpAbandoned
<1>2. CASE \E s \in Calls : SendSms(s) \/ WrongGuess(s) \/ Redeem(s)
  <2>1. PICK s \in Calls : SendSms(s) \/ WrongGuess(s) \/ Redeem(s)
    BY <1>2
  <2> DEFINE c == calls[s].code
  <2>2. c = calls[s].code
    OBVIOUS
  <2> HIDE DEF c
  <2> QED
    BY <2>1, <2>2, HeldCodeSteps
<1>3. CASE \E s \in Calls, c \in Codes : BeginVerify(s, c)
  BY <1>3, VerifyBegins
<1>4. CASE (\E c \in Codes : CodeExpires(c)) \/ PurgeStaleCodes
  BY <1>4, CodesExpire, StaleCodesPurged
<1>5. CASE LimiterTick
  BY <1>5, LimiterSteps
<1>6. CASE UNCHANGED otpVars
  BY <1>6 DEF otpVars, OtpInv, LimiterInv, LimiterTypeOK, WindowsAccounted, Through, CodesTyped,
              CallsHoldCodes, RetiringSeesAll, WearsOut, Wear, Unconsumed
<1> QED
  BY <1>1, <1>2, <1>3, <1>4, <1>5, <1>6 DEF OtpNext

\* A set whose elements are all equal is empty or a singleton.
LEMMA AtMostOne ==
    ASSUME NEW S, \A x, y \in S : x = y
    PROVE  Cardinality(S) <= 1
<1>1. CASE S = {}
  BY <1>1, FS_EmptySet
<1>2. CASE S # {}
  <2>1. PICK x \in S : S = {x}
    BY <1>2
  <2> QED
    BY <2>1, FS_Singleton
<1> QED
  BY <1>1, <1>2

\* What the invariant gives.
LEMMA OtpBounds == OtpInv => OtpTypeOK /\ OneLiveCode /\ CodesWearOut /\ BurstBound
<1> SUFFICES ASSUME OtpInv PROVE OtpTypeOK /\ OneLiveCode /\ CodesWearOut /\ BurstBound
  OBVIOUS
<1>1. OtpTypeOK
  BY DEF OtpInv, CodesTyped, LimiterInv, OtpTypeOK
<1>2. OneLiveCode
  BY AtMostOne DEF OtpInv, RetiringSeesAll, OneLiveCode
<1>3. CodesWearOut
  BY DEF OtpInv, WearsOut, Wear, CodesWearOut
<1>4. BurstBound
  BY LimiterBounds DEF OtpInv
<1> QED
  BY <1>1, <1>2, <1>3, <1>4

\* The inductive invariant, of every behaviour of the codes.
LEMMA OtpAlways == OtpSpec => []OtpInv
BY OtpStarts, OtpStep, PTL DEF OtpSpec

\* otp_service.py, rate_limit.py: requests hold only codes there are, and no counter
\* leaves its range, for any limits and any number of requests in flight.
THEOREM CodesTypeCorrect == OtpSpec => []OtpTypeOK
BY OtpAlways, OtpBounds, PTL

\* otp_service.py:71: until two requests for a code have been open together, no two
\* codes are live at once.
THEOREM NewestCodeOnly == OtpSpec => []OneLiveCode
BY OtpAlways, OtpBounds, PTL

\* otp_service.py:3,116: a code no two guesses contended for is tried at most
\* OTP_MAX_ATTEMPTS times and redeemed once.
THEOREM CodesAreSpent == OtpSpec => []CodesWearOut
BY OtpAlways, OtpBounds, PTL

\* rate_limit.py:1: whatever the limit and the window, and whenever windows open, a
\* span as long as the window lets through at most twice the limit.
THEOREM BurstsAreBounded == OtpSpec => []BurstBound
BY OtpAlways, OtpBounds, PTL

-----------------------------------------------------------------------------
(* Accounts and their numbers.                                             *)

\* A request holds one row, of an account that is there; as long as no other has
\* committed to that account, the copy is the row.
HoldsAreCopies ==
    \A s \in Callers :
        /\ \A g, h \in holds[s] : g = h
        /\ \A h \in holds[s] :
              /\ accounts[h.account].present
              /\ h.pc = "login" => h.number = h.was.phone
              /\ ~h.stale => /\ h.was.phone = accounts[h.account].phone
                             /\ h.was.verified = accounts[h.account].verified

PhoneTyped ==
    /\ accounts \in [Accounts -> AccountRow]
    /\ holds \in [Callers -> SUBSET Hold]

PhoneInv == PhoneTyped /\ HoldsAreCopies /\ VerifiedWasProven

LEMMA PhoneStarts == PhoneInit => PhoneInv
<1> SUFFICES ASSUME PhoneInit PROVE PhoneInv
  OBVIOUS
<1>1. NoAccount \in AccountRow /\ ~NoAccount.present
  BY DEF NoAccount, AccountRow
<1> QED
  BY <1>1 DEF PhoneInit, PhoneInv, PhoneTyped, HoldsAreCopies, VerifiedWasProven, RequirePhoneVerified

\* A sign-up fills a row nobody holds.
LEMMA AccountsRegister ==
    ASSUME PhoneInv, NEW a \in Accounts, NEW n \in Numbers \cup {NoPhone},
           RegisterAccount(a, n) \/ (n \in Numbers /\ RegisterWithVerifiedPhone(a, n))
    PROVE  PhoneInv'
<1> USE DEF PhoneInv, PhoneTyped
<1>1. PICK row \in AccountRow : /\ accounts' = [accounts EXCEPT ![a] = row] /\ UNCHANGED holds
                                /\ row.verified => row.proven = row.phone
  <2> DEFINE unproven == [NoAccount EXCEPT !.present = TRUE, !.phone = n]
             proven == [NoAccount EXCEPT !.present = TRUE, !.phone = n, !.verified = TRUE, !.proven = n]
  <2>1. unproven \in AccountRow /\ ~unproven.verified
    BY DEF NoAccount, AccountRow
  <2>2. proven \in AccountRow /\ proven.proven = proven.phone
    BY DEF NoAccount, AccountRow
  <2> QED
    BY <2>1, <2>2 DEF RegisterAccount, RegisterWithVerifiedPhone
<1>2. \A s \in Callers : \A h \in holds[s] : h.account \in Accounts /\ h.account # a
  BY DEF HoldsAreCopies, Hold, RegisterAccount, RegisterWithVerifiedPhone
<1>3. \A b \in Accounts : accounts'[b] = IF b = a THEN row ELSE accounts[b]
  BY <1>1
<1>4. PhoneTyped'
  BY <1>1
<1>5. HoldsAreCopies'
  BY <1>1, <1>2, <1>3 DEF HoldsAreCopies
<1>6. VerifiedWasProven'
  BY <1>1, <1>3 DEF VerifiedWasProven, RequirePhoneVerified
<1> QED
  BY <1>4, <1>5, <1>6

\* A request loads the row of an account.
LEMMA RowsLoad ==
    ASSUME PhoneInv, NEW s \in Callers, NEW a \in Accounts, NEW n \in Numbers \cup {NoPhone},
           NEW pc \in {"login", "attach", "profile"}, Load(s, pc, a, n),
           pc = "login" => n = accounts[a].phone
    PROVE  PhoneInv'
<1> USE DEF PhoneInv, PhoneTyped
<1> DEFINE was == [phone |-> accounts[a].phone, verified |-> accounts[a].verified]
           h == [pc |-> pc, account |-> a, number |-> n, stale |-> FALSE, was |-> was]
<1>1. /\ was \in [phone : Numbers \cup {NoPhone}, verified : BOOLEAN]
      /\ was.phone = accounts[a].phone /\ was.verified = accounts[a].verified
  BY DEF AccountRow
<1>2. holds' = [holds EXCEPT ![s] = {h}] /\ UNCHANGED accounts /\ accounts[a].present
  BY DEF Load
<1> HIDE DEF was
<1>3. /\ h \in Hold /\ h.pc = pc /\ h.account = a /\ h.number = n /\ ~h.stale /\ h.was = was
  BY <1>1 DEF Hold
<1> HIDE DEF h
<1>4. \A t \in Callers : holds'[t] = IF t = s THEN {h} ELSE holds[t]
  BY <1>2
<1>5. PhoneTyped'
  BY <1>2, <1>3
<1>6. HoldsAreCopies'
  BY <1>1, <1>2, <1>3, <1>4 DEF HoldsAreCopies
<1> QED
  BY <1>2, <1>5, <1>6 DEF VerifiedWasProven, RequirePhoneVerified

\* A request commits what it holds; the copies others have of the account are stale.
LEMMA RowsCommit ==
    ASSUME PhoneInv, NEW s \in Callers, NEW h \in holds[s], NEW new \in AccountRow,
           Commit(s, h, new), new.present,
           ~h.stale /\ new.verified => new.proven = new.phone
    PROVE  PhoneInv'
<1> USE DEF PhoneInv, PhoneTyped
<1> DEFINE row == [new EXCEPT !.raced = h.stale]
           aged(g) == [g EXCEPT !.stale = g.stale \/ g.account = h.account]
<1>1. h \in Hold /\ h.account \in Accounts /\ h.stale \in BOOLEAN
  BY DEF Hold
<1>2. /\ row \in AccountRow /\ row.raced = h.stale /\ row.present = new.present
      /\ row.verified = new.verified /\ row.proven = new.proven /\ row.phone = new.phone
  BY <1>1 DEF AccountRow
<1>3. ASSUME NEW g \in Hold
      PROVE  /\ aged(g) \in Hold /\ aged(g).account = g.account /\ aged(g).pc = g.pc
             /\ aged(g).number = g.number /\ aged(g).was = g.was
             /\ aged(g).stale = (g.stale \/ g.account = h.account)
             /\ g.account \in Accounts
  BY DEF Hold
<1>4. /\ accounts' = [accounts EXCEPT ![h.account] = row]
      /\ holds' = [t \in Callers |-> IF t = s THEN {} ELSE {aged(g) : g \in holds[t]}]
  BY DEF Commit
<1> HIDE DEF row, aged
<1>5. \A b \in Accounts : accounts'[b] = IF b = h.account THEN row ELSE accounts[b]
  BY <1>1, <1>4
<1>6. \A t \in Callers : \A k \in holds'[t] : t # s /\ \E g \in holds[t] : g \in Hold /\ k = aged(g)
  BY <1>4
<1>7. PhoneTyped'
  <2>1. accounts' \in [Accounts -> AccountRow]
    BY <1>2, <1>4
  <2>2. \A t \in Callers : holds'[t] \subseteq Hold
    BY <1>3, <1>6
  <2> QED
    BY <1>4, <2>1, <2>2
<1>8. HoldsAreCopies'
  <2> SUFFICES ASSUME NEW t \in Callers, NEW k \in holds'[t]
               PROVE  /\ \A j \in holds'[t] : j = k
                      /\ accounts'[k.account].present
                      /\ k.pc = "login" => k.number = k.was.phone
                      /\ ~k.stale => /\ k.was.phone = accounts'[k.account].phone
                                     /\ k.was.verified = accounts'[k.account].verified
    BY DEF HoldsAreCopies
  <2>1. PICK g \in holds[t] : g \in Hold /\ k = aged(g)
    BY <1>6
  <2>2. \A j \in holds'[t] : j = k
    BY <1>6, <2>1 DEF HoldsAreCopies
  <2>3. accounts[g.account].present /\ (g.pc = "login" => g.number = g.was.phone)
    BY DEF HoldsAreCopies
  <2>4. ~g.stale => /\ g.was.phone = accounts[g.account].phone
                    /\ g.was.verified = accounts[g.account].verified
    BY DEF HoldsAreCopies
  <2>5. /\ k.account = g.account /\ k.account \in Accounts /\ k.pc = g.pc
        /\ k.number = g.number /\ k.was = g.was
        /\ k.stale = (g.stale \/ g.account = h.account)
    BY <1>3, <2>1
  <2>6. CASE g.account = h.account
    BY <1>2, <1>5, <2>2, <2>3, <2>5, <2>6
  <2>7. CASE g.account # h.account
    BY <1>5, <2>2, <2>3, <2>4, <2>5, <2>7
  <2> QED
    BY <2>6, <2>7
<1>9. VerifiedWasProven'
  BY <1>2, <1>5 DEF VerifiedWasProven, RequirePhoneVerified
<1> QED
  BY <1>7, <1>8, <1>9

\* The three commits write a number that was proven, or drop the flag.
LEMMA PhoneCommits ==
    ASSUME PhoneInv, NEW s \in Callers, CommitLogin(s) \/ CommitAttach(s) \/ CommitProfile(s)
    PROVE  PhoneInv'
<1> USE DEF PhoneInv, PhoneTyped
<1>1. ASSUME NEW h \in holds[s]
      PROVE  /\ h.account \in Accounts /\ h.number \in Numbers \cup {NoPhone}
             /\ h.was.phone \in Numbers \cup {NoPhone} /\ h.was.verified \in BOOLEAN
             /\ accounts[h.account] \in AccountRow /\ accounts[h.account].present
             /\ h.pc = "login" => h.number = h.was.phone
             /\ ~h.stale => /\ h.was.phone = accounts[h.account].phone
                            /\ h.was.verified = accounts[h.account].verified
  BY DEF Hold, HoldsAreCopies
<1>2. CASE CommitLogin(s)
  <2>1. PICK h \in holds[s] :
           /\ h.pc = "login"
           /\ Commit(s, h, [accounts[h.account] EXCEPT !.verified = TRUE, !.proven = h.number])
    BY <1>2 DEF CommitLogin
  <2> DEFINE new == [accounts[h.account] EXCEPT !.verified = TRUE, !.proven = h.number]
  <2>2. /\ new \in AccountRow /\ new.present = accounts[h.account].present /\ new.verified
        /\ new.proven = h.number /\ new.phone = accounts[h.account].phone
    BY <1>1 DEF AccountRow
  <2>3. Commit(s, h, new)
    BY <2>1
  <2> HIDE DEF new
  <2> QED
    BY <1>1, <2>1, <2>2, <2>3, RowsCommit
<1>3. CASE CommitAttach(s)
  <2>1. PICK h \in holds[s] :
           Commit(s, h, [accounts[h.account] EXCEPT
              !.phone = IF h.number = h.was.phone THEN @ ELSE h.number,
              !.verified = TRUE, !.proven = h.number])
    BY <1>3 DEF CommitAttach
  <2> DEFINE p == IF h.number = h.was.phone THEN accounts[h.account].phone ELSE h.number
             new == [accounts[h.account] EXCEPT !.phone = p, !.verified = TRUE, !.proven = h.number]
  <2>2. p \in Numbers \cup {NoPhone} /\ (~h.stale => p = h.number)
    BY <1>1 DEF AccountRow
  <2>3. Commit(s, h, new)
    BY <2>1
  <2> HIDE DEF p
  <2>4. /\ new \in AccountRow /\ new.present = accounts[h.account].present /\ new.verified
        /\ new.proven = h.number /\ new.phone = p
    BY <1>1, <2>2 DEF AccountRow
  <2> HIDE DEF new
  <2> QED
    BY <1>1, <2>2, <2>3, <2>4, RowsCommit
<1>4. CASE CommitProfile(s)
  <2>1. PICK h \in holds[s] :
           Commit(s, h, [accounts[h.account] EXCEPT
              !.phone = h.number, !.verified = IF h.was.verified THEN FALSE ELSE @])
    BY <1>4 DEF CommitProfile
  <2> DEFINE v == IF h.was.verified THEN FALSE ELSE accounts[h.account].verified
             new == [accounts[h.account] EXCEPT !.phone = h.number, !.verified = v]
  <2>2. v \in BOOLEAN /\ (~h.stale => ~v)
    BY <1>1 DEF AccountRow
  <2>3. Commit(s, h, new)
    BY <2>1
  <2> HIDE DEF v
  <2>4. new \in AccountRow /\ new.present = accounts[h.account].present /\ new.verified = v
    BY <1>1, <2>2 DEF AccountRow
  <2> HIDE DEF new
  <2> QED
    BY <1>1, <2>2, <2>3, <2>4, RowsCommit
<1> QED
  BY <1>2, <1>3, <1>4

LEMMA PhoneStep == PhoneInv /\ [PhoneNext]_phoneVars => PhoneInv'
<1> SUFFICES ASSUME PhoneInv, [PhoneNext]_phoneVars PROVE PhoneInv'
  OBVIOUS
<1>1. CASE \/ \E a \in Accounts, n \in Numbers : RegisterWithVerifiedPhone(a, n)
           \/ \E a \in Accounts, n \in Numbers \cup {NoPhone} : RegisterAccount(a, n)
  BY <1>1, AccountsRegister
<1>2. CASE \E s \in Callers, a \in Accounts, n \in Numbers : BeginLogin(s, a, n) \/ BeginAttach(s, a, n)
  BY <1>2, RowsLoad DEF BeginLogin, BeginAttach, Owners
<1>3. CASE \E s \in Callers, a \in Accounts, n \in Numbers \cup {NoPhone} : BeginProfile(s, a, n)
  BY <1>3, RowsLoad DEF BeginProfile
<1>4. CASE \E s \in Callers : CommitLogin(s) \/ CommitAttach(s) \/ CommitProfile(s)
  BY <1>4, PhoneCommits
<1>5. CASE \E s \in Callers : RollBack(s)
  <2>1. PICK s \in Callers : holds' = [holds EXCEPT ![s] = {}] /\ UNCHANGED accounts
    BY <1>5 DEF RollBack
  <2>2. \A t \in Callers : holds'[t] = IF t = s THEN {} ELSE holds[t]
    BY <2>1 DEF PhoneInv, PhoneTyped
  <2> QED
    BY <2>1, <2>2 DEF PhoneInv, PhoneTyped, HoldsAreCopies, VerifiedWasProven, RequirePhoneVerified
<1>6. CASE UNCHANGED phoneVars
  BY <1>6 DEF phoneVars, PhoneInv, PhoneTyped, HoldsAreCopies, VerifiedWasProven, RequirePhoneVerified
<1> QED
  BY <1>1, <1>2, <1>3, <1>4, <1>5, <1>6 DEF PhoneNext

LEMMA PhoneBounds == PhoneInv => PhoneTypeOK /\ VerifiedWasProven
<1> SUFFICES ASSUME PhoneInv PROVE PhoneTypeOK
  BY DEF PhoneInv
<1>1. \A s \in Callers : Cardinality(holds[s]) <= 1
  BY AtMostOne DEF PhoneInv, HoldsAreCopies
<1> QED
  BY <1>1 DEF PhoneInv, PhoneTyped, PhoneTypeOK

LEMMA PhoneAlways == PhoneSpec => []PhoneInv
BY PhoneStarts, PhoneStep, PTL DEF PhoneSpec

\* Accounts and requests in flight keep their form.
THEOREM PhonesTypeCorrect == PhoneSpec => []PhoneTypeOK
BY PhoneAlways, PhoneBounds, PTL

\* users/service.py:26-27, auth/service.py: the number behind phone_verified_at is one
\* whose code was redeemed for the account, unless the row was written from an old copy.
THEOREM VerifiedNumbersWereProven == PhoneSpec => []VerifiedWasProven
BY PhoneAlways, PhoneBounds, PTL

-----------------------------------------------------------------------------
(* Side by side, as the run checks them.                                   *)

\* A behaviour of the composition is one of each part: what is proved of a part holds
\* in the composition.
THEOREM IdentityIsItsParts == MCSpec => Spec /\ OtpSpec /\ PhoneSpec
<1>1. MCInit => Init /\ OtpInit /\ PhoneInit
  BY DEF MCInit
<1>2. [MCNext]_identityVars => [Next]_vars /\ [OtpNext]_otpVars /\ [PhoneNext]_phoneVars
  BY DEF MCNext, identityVars, vars, phoneVars, otpVars
<1> QED
  BY <1>1, <1>2, PTL DEF MCSpec, MCFairness, Spec, OtpSpec, PhoneSpec

\* Every state the run reaches, and every state of any other instance, has its type.
THEOREM IdentityTypeCorrect == MCSpec => []MCTypeOK
<1>1. TypeOK /\ OtpTypeOK /\ PhoneTypeOK => MCTypeOK
  BY DEF MCTypeOK
<1> QED
  BY <1>1, IdentityIsItsParts, SessionsTypeCorrect, CodesTypeCorrect, PhonesTypeCorrect, PTL
=============================================================================
