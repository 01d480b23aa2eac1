---------------------------- MODULE MCUsageFeed ----------------------------
(* Instances of UsageFeed for TLC. *)
EXTENDS UsageFeed
=============================================================================
