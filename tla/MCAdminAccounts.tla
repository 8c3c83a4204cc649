-------------------------- MODULE MCAdminAccounts --------------------------
(***************************************************************************)
(* AdminAccounts for TLC: records and requests are interchangeable.        *)
(***************************************************************************)
EXTENDS AdminAccounts, TLC

Interchangeable == Permutations(Admins) \cup Permutations(Requests)
============================================================================
