------------------------- MODULE MCShuttlePayments -------------------------
(***************************************************************************)
(* ShuttlePayments for TLC: bookings, references and requests are model    *)
(* values, interchangeable in the safety runs.                             *)
(***************************************************************************)
EXTENDS ShuttlePayments, TLC

Interchangeable == Permutations(Refs) \cup Permutations(Requests)
============================================================================
