------------------------------ MODULE MCIdentity ------------------------------
(***************************************************************************)
(* AccountSessions, OtpCodes and PhoneIdentity for TLC.  A redeemed code   *)
(* is all the third takes from the second, and none reads the state of     *)
(* another: a behaviour exercises one of them, chosen by side, so TLC      *)
(* explores their sum and not their product.                               *)
(***************************************************************************)
EXTENDS AccountSessions, OtpCodes, PhoneIdentity

VARIABLE side
identityVars == <<vars, otpVars, phoneVars, side>>

MCInit == Init /\ OtpInit /\ PhoneInit /\ side \in {"sessions", "codes", "phones"}

MCNext ==
    /\ UNCHANGED side
    /\ \/ side = "sessions" /\ Next /\ UNCHANGED <<otpVars, phoneVars>>
       \/ side = "codes" /\ OtpNext /\ UNCHANGED <<vars, phoneVars>>
       \/ side = "phones" /\ PhoneNext /\ UNCHANGED <<vars, otpVars>>

\* AccountSessions' own; and time passes for the limiter, whatever the callers
\* do.  Neither is enabled in the initial state that another side keeps.
MCFairness == Fairness /\ WF_otpVars(LimiterTick)

MCSpec == MCInit /\ [][MCNext]_identityVars /\ MCFairness

\* The state of the three modules has its type.
MCTypeOK == TypeOK /\ OtpTypeOK /\ PhoneTypeOK
=============================================================================
