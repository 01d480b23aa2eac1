--------------------------- MODULE MCAuthCooldown ---------------------------
(* Instances of AuthCooldown for TLC. *)
EXTENDS AuthCooldown, TLC

ModelSymmetry == Permutations(Models)

\* quotaBackoffBase 2, quotaBackoffMax 6: the third window is the capped one.
ShortLadder == [n \in 0..2 |-> 2^(n + 1)]

Events(results, resets, configs, restores, updates, restarts) ==
  [result |-> results, reset |-> resets, config |-> configs,
   restore |-> restores, update |-> updates, restart |-> restarts]

StoreEvents == Events(2, 1, 0, 1, 1, 1)
OffEvents == Events(2, 0, 1, 1, 1, 1)
RestartEvents == Events(1, 0, 0, 0, 1, 1)
=============================================================================
