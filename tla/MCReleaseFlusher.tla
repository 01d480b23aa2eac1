-------------------------- MODULE MCReleaseFlusher --------------------------
(* Instances of ReleaseFlusher for TLC. *)
EXTENDS ReleaseFlusher, TLC

\* Two configurations that pass validation; the second starts where a doubled
\* delay of the first may still be below its flush interval.
TwoTimings == {[flushInterval |-> 1, maxBackoff |-> 4],
               [flushInterval |-> 5, maxBackoff |-> 6]}
GroupSymmetry == Permutations(Groups)
OneTiming == {[flushInterval |-> 1, maxBackoff |-> 2]}
=============================================================================
