---------------------------- MODULE PhoneIdentity ----------------------------
(***************************************************************************)
(* What a redeemed code does to accounts (login_with_verified_phone,       *)
(* register_with_verified_phone, attach_verified_phone) next to the        *)
(* profile update that may change the number (users/service.py).           *)
(*                                                                         *)
(* Each handler loads a user row and later commits the columns it changed. *)
(***************************************************************************)
EXTENDS Naturals, FiniteSets

CONSTANTS
    Accounts,   \* user ids
    Numbers,    \* phone numbers; whoever redeems a code for one possesses it
    Callers,    \* requests in flight
    NoPhone

ASSUME PhoneAssumption == NoPhone \notin Numbers /\ IsFiniteSet(Accounts)

VARIABLES
    accounts,   \* users: phone and phone_verified_at
    holds       \* what each request has loaded and means to write

phoneVars == <<accounts, holds>>

\* proven: the number whose code was last redeemed for the account; raced: its
\* columns were last written by a request that had loaded an older row (history).
AccountRow == [present : BOOLEAN, phone : Numbers \cup {NoPhone}, verified : BOOLEAN,
               proven : Numbers \cup {NoPhone}, raced : BOOLEAN]
NoAccount == [present |-> FALSE, phone |-> NoPhone, verified |-> FALSE,
              proven |-> NoPhone, raced |-> FALSE]

\* was: the row as loaded; stale: another request committed to it since (history).
Hold == [pc : {"login", "attach", "profile"}, account : Accounts, number : Numbers \cup {NoPhone},
         was : [phone : Numbers \cup {NoPhone}, verified : BOOLEAN], stale : BOOLEAN]

PhoneTypeOK ==
    /\ accounts \in [Accounts -> AccountRow]
    /\ holds \in [Callers -> SUBSET Hold]
    /\ \A s \in Callers : Cardinality(holds[s]) <= 1

PhoneInit ==
    /\ accounts = [a \in Accounts |-> NoAccount]
    /\ holds = [s \in Callers |-> {}]

Owners(n) == {a \in Accounts : accounts[a].present /\ accounts[a].phone = n}

\* users.phone is unique: a commit that would break it fails.
Free(a, n) == n = NoPhone \/ Owners(n) \subseteq {a}

Load(s, pc, a, n) ==
    /\ holds[s] = {}
    /\ accounts[a].present
    /\ holds' = [holds EXCEPT ![s] =
                    {[pc |-> pc, account |-> a, number |-> n, stale |-> FALSE,
                      was |-> [phone |-> accounts[a].phone, verified |-> accounts[a].verified]]}]
    /\ UNCHANGED accounts

\* The commit of h by s: the row becomes new, and every other request that has
\* the account loaded now has an old copy of it.
Commit(s, h, new) ==
    /\ accounts' = [accounts EXCEPT ![h.account] = [new EXCEPT !.raced = h.stale]]
    /\ holds' = [t \in Callers |->
                    IF t = s THEN {}
                    ELSE {[g EXCEPT !.stale = @ \/ g.account = h.account] : g \in holds[t]}]

-----------------------------------------------------------------------------
(* A code for number n was redeemed.                                         *)

RegisterWithVerifiedPhone(a, n) ==
    /\ ~accounts[a].present
    /\ Owners(n) = {}
    /\ accounts' = [accounts EXCEPT ![a] = [NoAccount EXCEPT !.present = TRUE, !.phone = n,
                                                           !.verified = TRUE, !.proven = n]]
    /\ UNCHANGED holds

\* Password and social sign-up create accounts whose number nobody proved.
RegisterAccount(a, n) ==
    /\ ~accounts[a].present
    /\ n = NoPhone \/ Owners(n) = {}
    /\ accounts' = [accounts EXCEPT ![a] = [NoAccount EXCEPT !.present = TRUE, !.phone = n]]
    /\ UNCHANGED holds

BeginLogin(s, a, n) == a \in Owners(n) /\ ~accounts[a].verified /\ Load(s, "login", a, n)

CommitLogin(s) == \E h \in holds[s] :
    /\ h.pc = "login"
    /\ Commit(s, h, [accounts[h.account] EXCEPT !.verified = TRUE, !.proven = h.number])

BeginAttach(s, a, n) == Free(a, n) /\ Load(s, "attach", a, n)

\* The number is written only if it differs from the one loaded.
CommitAttach(s) == \E h \in holds[s] :
    /\ h.pc = "attach"
    /\ Free(h.account, h.number)
    /\ Commit(s, h, [accounts[h.account] EXCEPT
                        !.phone = IF h.number = h.was.phone THEN @ ELSE h.number,
                        !.verified = TRUE, !.proven = h.number])

-----------------------------------------------------------------------------
BeginProfile(s, a, n) ==
    /\ n # accounts[a].phone
    /\ Free(a, n)
    /\ Load(s, "profile", a, n)

\* MUTANT: the flag survives a change of number
CommitProfileKeepFlag(s) == \E h \in holds[s] :
    /\ h.pc = "profile"
    /\ Free(h.account, h.number)
    /\ Commit(s, h, [accounts[h.account] EXCEPT !.phone = h.number])

\* phone_verified_at := None reaches the UPDATE only if it was set when loaded.
CommitProfile(s) == \E h \in holds[s] :
    /\ h.pc = "profile"
    /\ Free(h.account, h.number)
    /\ Commit(s, h, [accounts[h.account] EXCEPT
                        !.phone = h.number, !.verified = IF h.was.verified THEN FALSE ELSE @])

\* The commit fails on the unique constraint, or the request dies.
RollBack(s) ==
    /\ holds[s] # {}
    /\ holds' = [holds EXCEPT ![s] = {}]
    /\ UNCHANGED accounts

PhoneNext ==
    \/ \E a \in Accounts, n \in Numbers : RegisterWithVerifiedPhone(a, n)
    \/ \E a \in Accounts, n \in Numbers \cup {NoPhone} : RegisterAccount(a, n)
    \/ \E s \in Callers, a \in Accounts, n \in Numbers : BeginLogin(s, a, n) \/ BeginAttach(s, a, n)
    \/ \E s \in Callers, a \in Accounts, n \in Numbers \cup {NoPhone} : BeginProfile(s, a, n)
    \/ \E s \in Callers : CommitLogin(s) \/ CommitAttach(s) \/ CommitProfile(s) \/ RollBack(s)

PhoneSpec == PhoneInit /\ [][PhoneNext]_phoneVars

\* The gate of every write to the marketplace asks the table, not the token.
RequirePhoneVerified(a) == accounts[a].present /\ accounts[a].verified

\* users/service.py:26-27 "A changed number is unverified until the OTP flow
\* confirms it again": the number of an account the gate lets through is one whose code
\* was redeemed for it, unless the row was last written from an older copy.
VerifiedWasProven ==
    \A a \in Accounts : RequirePhoneVerified(a) => accounts[a].raced \/ accounts[a].proven = accounts[a].phone
=============================================================================
