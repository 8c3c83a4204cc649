------------------------------ MODULE Process ------------------------------
(***************************************************************************)
(* What the models share.  The API is one Node process: every handler it   *)
(* runs is a request, and requests of all its services may be in flight    *)
(* together.                                                               *)
(***************************************************************************)
CONSTANTS
    Requests,  \* handler invocations that may be in flight together
    None       \* no document, no value, no request
=============================================================================
