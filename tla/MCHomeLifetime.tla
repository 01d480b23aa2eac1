--------------------------- MODULE MCHomeLifetime ---------------------------
(* Two dispatches and two faults of any kind. *)
EXTENDS HomeLifetime

CONSTANTS d1, d2

MCDispatches == {d1, d2}

=============================================================================
