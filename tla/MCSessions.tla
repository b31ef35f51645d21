----------------------------- MODULE MCSessions -----------------------------
(***************************************************************************)
(* Sessions with two requests at a time, two sessions and two accounts.    *)
(* The expiry of a session, the moment before and the moment after it are  *)
(* on the clock.                                                           *)
(***************************************************************************)
EXTENDS Sessions, TLC

Symmetric == Permutations(Accounts) \cup Permutations(Sessions) \cup Permutations(Requests)
=============================================================================
