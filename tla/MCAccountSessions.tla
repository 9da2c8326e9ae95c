-------------------------- MODULE MCAccountSessions --------------------------
(* AccountSessions for TLC: the constants are in the .cfg files. *)
EXTENDS AccountSessions, TLC
=============================================================================
