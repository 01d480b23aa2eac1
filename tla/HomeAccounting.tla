--------------------------- MODULE HomeAccounting ---------------------------
(***************************************************************************)
(* What the node promises Home, the control plane that limits how many     *)
(* executions may use a credential at a time: while the node is a member,  *)
(* Home counts every execution that runs on it.  Home may count more, for  *)
(* a grant that is still on its way or a release that is, but never less,  *)
(* or the limit it enforces would be exceeded.  HomeLifetime implements    *)
(* this specification.                                                     *)
(***************************************************************************)
EXTENDS Integers

VARIABLES
    held,     \* executions Home counts for the node
    running,  \* executions that run on the node
    online    \* the node has a subscription that Home acknowledged

vars == <<held, running, online>>

Init == held = 0 /\ running = 0 /\ online = FALSE

\* Home counts an execution before it tells the node.
Grant == held' = held + 1 /\ UNCHANGED <<running, online>>

\* An execution starts only on a grant that no other one uses.
Start ==
    /\ online => running < held
    /\ running' = running + 1
    /\ UNCHANGED <<held, online>>

Finish ==
    /\ running > 0
    /\ running' = running - 1
    /\ UNCHANGED <<held, online>>

\* Home stops counting executions that are over, several at a time.
Release ==
    /\ held' < held
    /\ held' \in Int
    /\ running <= held'
    /\ UNCHANGED <<running, online>>

\* Home gives up a node it has lost sight of, or starts a fresh membership.
Forget == ~online /\ held' = 0 /\ UNCHANGED <<running, online>>

\* The node comes back: it may have nothing running that Home does not count.
Join == running <= held /\ online' = TRUE /\ UNCHANGED <<held, running>>

Leave == online' = FALSE /\ UNCHANGED <<held, running>>

Next ==
    Grant \/ Start \/ Finish \/ Release \/ Forget \/ Join \/ Leave

Spec == Init /\ [][Next]_vars

=============================================================================
