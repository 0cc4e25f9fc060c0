----------------------------- MODULE MCRequests -----------------------------
(* Small instances of Requests for TLC.                                    *)
EXTENDS Requests
=============================================================================
