------------------------------ MODULE OtpCodes ------------------------------
(***************************************************************************)
(* One-time codes of modules/auth/otp_service.py, for one phone and one    *)
(* purpose: every query of the code filters on both.  Requests are limited *)
(* by RateLimiter on the key of the phone; the second limit, on the IP     *)
(* address, and the captcha only refuse more of them.                      *)
(***************************************************************************)
EXTENDS RateLimiter, FiniteSets

CONSTANTS
    Calls,       \* requests in flight
    MaxCodes,       \* bound: codes issued in a behaviour
    MaxAttempts     \* OTP_MAX_ATTEMPTS

ASSUME OtpAssumption == MaxCodes \in Nat /\ MaxAttempts \in Nat \ {0} /\ IsFiniteSet(Calls)

VARIABLES
    codes,      \* otp_codes, in the order their transactions began (created_at)
    begun,      \* transactions that have taken a place in that order
    calls,      \* what each request holds in memory
    overlapped  \* two requests for a code were open together (history)

otpVars == <<bucket, allowed, codes, begun, calls, overlapped>>

Codes == 1..MaxCodes

\* known: the SMS arrived.  guesses, redeemed: wrong codes tried on it and right
\* ones accepted; contended: two tries had both loaded the row (history).
CodeRow == [state : {"absent", "live", "consumed"}, attempts : 0..(MaxAttempts + 1),
            expired : BOOLEAN, known : BOOLEAN,
            guesses : 0..(MaxAttempts + 1), redeemed : 0..2, contended : BOOLEAN]

NoCode == [state |-> "absent", attempts |-> 0, expired |-> FALSE, known |-> FALSE,
           guesses |-> 0, redeemed |-> 0, contended |-> FALSE]

Call == [pc : {"idle", "issue", "send", "check"}, code : 0..MaxCodes,
         loaded : 0..MaxAttempts, retire : SUBSET Codes]
NoCall == [pc |-> "idle", code |-> 0, loaded |-> 0, retire |-> {}]

OtpTypeOK ==
    /\ LimiterTypeOK
    /\ codes \in [Codes -> CodeRow]
    /\ begun \in 0..MaxCodes
    /\ calls \in [Calls -> Call]
    /\ overlapped \in BOOLEAN

OtpInit ==
    /\ LimiterInit
    /\ codes = [c \in Codes |-> NoCode]
    /\ begun = 0
    /\ calls = [s \in Calls |-> NoCall]
    /\ overlapped = FALSE

Unconsumed == {c \in Codes : codes[c].state = "live"}

-----------------------------------------------------------------------------
(* Requesting a code.                                                        *)

\* The limit refuses, or a precondition on the purpose does once the hit counted.
RefuseRequest(s) ==
    /\ calls[s] = NoCall
    /\ RefusedHit \/ AllowedHit
    /\ UNCHANGED <<codes, begun, calls, overlapped>>

\* MUTANT: earlier codes are not retired
BeginRequestKeepEarlier(s) ==
    /\ calls[s] = NoCall
    /\ begun < MaxCodes
    /\ AllowedHit
    /\ begun' = begun + 1
    /\ calls' = [calls EXCEPT ![s] = [NoCall EXCEPT !.pc = "issue", !.code = begun + 1]]
    /\ overlapped' = (overlapped \/ \E t \in Calls : calls[t].pc = "issue")
    /\ UNCHANGED codes

\* The bulk UPDATE retires the rows its statement sees.
BeginRequest(s) ==
    /\ calls[s] = NoCall
    /\ begun < MaxCodes
    /\ AllowedHit
    /\ begun' = begun + 1
    /\ calls' = [calls EXCEPT ![s] = [NoCall EXCEPT !.pc = "issue", !.code = begun + 1,
                                                    !.retire = Unconsumed]]
    /\ overlapped' = (overlapped \/ \E t \in Calls : calls[t].pc = "issue")
    /\ UNCHANGED codes

CommitRequest(s) ==
    /\ calls[s].pc = "issue"
    /\ codes' = [c \in Codes |->
                    CASE c = calls[s].code -> [NoCode EXCEPT !.state = "live"]
                      [] c \in calls[s].retire -> [codes[c] EXCEPT !.state = "consumed"]
                      [] OTHER -> codes[c]]
    /\ calls' = [calls EXCEPT ![s] = [NoCall EXCEPT !.pc = "send", !.code = calls[s].code]]
    /\ UNCHANGED <<bucket, allowed, begun, overlapped>>

SendSms(s) ==
    /\ calls[s].pc = "send"
    /\ codes' = [codes EXCEPT ![calls[s].code].known = TRUE]
    /\ calls' = [calls EXCEPT ![s] = NoCall]
    /\ UNCHANGED <<bucket, allowed, begun, overlapped>>

\* The gateway raises, the client goes away or the process dies: a transaction
\* not committed is rolled back, and a code already committed stays unsent.
AbandonCall(s) ==
    /\ calls[s] # NoCall
    /\ calls' = [calls EXCEPT ![s] = NoCall]
    /\ UNCHANGED <<bucket, allowed, codes, begun, overlapped>>

-----------------------------------------------------------------------------
(* Verifying one.                                                            *)

IsNewest(c) == c \in Unconsumed /\ \A d \in Unconsumed : d <= c

\* MUTANT: the check against OTP_MAX_ATTEMPTS is gone
BeginVerifyUnchecked(s, c) ==
    /\ calls[s] = NoCall
    /\ IsNewest(c)
    /\ ~codes[c].expired
    /\ calls' = [calls EXCEPT ![s] = [NoCall EXCEPT !.pc = "check", !.code = c,
                                                    !.loaded = codes[c].attempts]]
    /\ UNCHANGED <<bucket, allowed, codes, begun, overlapped>>

\* order_by created_at desc, first(); expired or exhausted: refused
BeginVerify(s, c) ==
    /\ calls[s] = NoCall
    /\ IsNewest(c)
    /\ ~codes[c].expired
    /\ codes[c].attempts < MaxAttempts
    /\ calls' = [calls EXCEPT ![s] = [NoCall EXCEPT !.pc = "check", !.code = c,
                                                    !.loaded = codes[c].attempts]]
    /\ codes' = [codes EXCEPT ![c].contended =
                    @ \/ \E t \in Calls : calls[t].pc = "check" /\ calls[t].code = c]
    /\ UNCHANGED <<bucket, allowed, begun, overlapped>>

\* MUTANT: the 400 is raised before the commit
RaiseFirst(s) ==
    /\ calls[s].pc = "check"
    /\ codes' = [codes EXCEPT ![calls[s].code].guesses = IF @ > MaxAttempts THEN @ ELSE @ + 1]
    /\ calls' = [calls EXCEPT ![s] = NoCall]
    /\ UNCHANGED <<bucket, allowed, begun, overlapped>>

\* attempt_count is written from the value loaded, not from the row.
WrongGuess(s) ==
    /\ calls[s].pc = "check"
    /\ codes' = [codes EXCEPT ![calls[s].code].attempts = calls[s].loaded + 1,
                              ![calls[s].code].guesses = IF @ > MaxAttempts THEN @ ELSE @ + 1]
    /\ calls' = [calls EXCEPT ![s] = NoCall]
    /\ UNCHANGED <<bucket, allowed, begun, overlapped>>

\* MUTANT: consumed_at is never set
RedeemUnconsumed(s) ==
    /\ calls[s].pc = "check"
    /\ codes[calls[s].code].known
    /\ codes' = [codes EXCEPT ![calls[s].code].redeemed = IF @ = 2 THEN 2 ELSE @ + 1]
    /\ calls' = [calls EXCEPT ![s] = NoCall]
    /\ UNCHANGED <<bucket, allowed, begun, overlapped>>

Redeem(s) ==
    /\ calls[s].pc = "check"
    /\ codes[calls[s].code].known
    /\ codes' = [codes EXCEPT ![calls[s].code].state = "consumed",
                              ![calls[s].code].redeemed = IF @ = 2 THEN 2 ELSE @ + 1]
    /\ calls' = [calls EXCEPT ![s] = NoCall]
    /\ UNCHANGED <<bucket, allowed, begun, overlapped>>

-----------------------------------------------------------------------------
(* Time.                                                                     *)

CodeExpires(c) ==
    /\ codes[c].state = "live"
    /\ ~codes[c].expired
    /\ codes' = [codes EXCEPT ![c].expired = TRUE]
    /\ UNCHANGED <<bucket, allowed, begun, calls, overlapped>>

\* The daily task deletes what is a day old: no request still holds it, and the
\* DELETE waits for the row locks of a request that is retiring it.
PurgeStaleCodes ==
    LET stale == {c \in Codes : codes[c].state = "consumed" \/ codes[c].expired} IN
    /\ stale # {}
    /\ \A s \in Calls : calls[s].code \notin stale /\ calls[s].retire \cap stale = {}
    /\ codes' = [c \in Codes |-> IF c \in stale THEN NoCode ELSE codes[c]]
    /\ UNCHANGED <<bucket, allowed, begun, calls, overlapped>>

LimiterTick == Tick /\ UNCHANGED <<codes, begun, calls, overlapped>>

OtpNext ==
    \/ \E s \in Calls :
          \/ RefuseRequest(s) \/ BeginRequest(s) \/ CommitRequest(s) \/ SendSms(s)
          \/ WrongGuess(s) \/ Redeem(s) \/ AbandonCall(s)
    \/ \E s \in Calls, c \in Codes : BeginVerify(s, c)
    \/ \E c \in Codes : CodeExpires(c)
    \/ PurgeStaleCodes
    \/ LimiterTick

OtpSpec == OtpInit /\ [][OtpNext]_otpVars

-----------------------------------------------------------------------------
(* Properties.                                                               *)

\* otp_service.py:71 "Only the newest code per (phone, purpose) is valid": no two
\* codes are live at once unless two requests for one were open together.
OneLiveCode == ~overlapped => Cardinality(Unconsumed) <= 1

\* "attempt-counted" (otp_service.py:3) and used once (otp_service.py:116): a code
\* stands at most OTP_MAX_ATTEMPTS wrong guesses and signs in once, whatever
\* requests and expiries come between, unless two guesses had both loaded it
\* before either was counted.
CodesWearOut ==
    \A c \in Codes : codes[c].contended \/ (codes[c].guesses <= MaxAttempts /\ codes[c].redeemed <= 1)

\* The window is fixed, not sliding (rate_limit.py:1): any span as long as it
\* sees at most twice the limit go through.
BurstBound == allowed[Window - 1] <= 2 * Limit

\* A caller who is blocked gets through again, even one who goes on calling:
\* refused hits do not extend the window (rate_limit.py:26, EXPIRE NX).
LimitLifts == Blocked ~> ~Blocked
=============================================================================
