------------------------ MODULE MCExecutionRegistry ------------------------
(* Model-checking instance of ExecutionRegistry: see the .cfg files. *)
EXTENDS ExecutionRegistry, TLC

\* Goroutines of one kind, sinks and groups are interchangeable.
Symmetry ==
    Permutations(Groups) \cup Permutations(Sinks) \cup Permutations(Drainers)
        \cup Permutations(Closers) \cup Permutations(Waiters)
=============================================================================
