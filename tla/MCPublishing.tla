---------------------------- MODULE MCPublishing ----------------------------
(* Small instances of Publishing for TLC. *)
EXTENDS Publishing, TLC

CONSTANTS p1, p2, page, asset
=============================================================================
