---------------------------- MODULE MCScheduler ----------------------------
(* Instances of Scheduler for TLC. *)
EXTENDS Scheduler

CONSTANT ra

profile(p, w, d) == [priority |-> p, weight |-> w, disabled |-> d]
MCProfiles == {profile(2, 2, FALSE), profile(1, 0, TRUE)}
MCProviderOf == <<"x", "x", "y", "x">>
MCRequests == {[route |-> <<"x">>, tried |-> {1, 2}],
               [route |-> <<"x", "y">>, tried |-> {}]}
MCInitial == <<profile(2, 2, FALSE), profile(2, 1, FALSE), profile(2, 1, FALSE),
               profile(1, 1, FALSE)>>
=============================================================================
