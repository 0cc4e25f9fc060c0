-------------------------- MODULE MCCachedListing ---------------------------
(* Small instances of CachedListing for TLC.                               *)
EXTENDS CachedListing
=============================================================================
