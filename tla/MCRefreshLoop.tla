--------------------------- MODULE MCRefreshLoop ---------------------------
(* One window; times in polls of the loop.  Two scenes: one limit group and
   two requests of the dashboard, or two groups and no request. *)
EXTENDS RefreshLoop

OneWindow  == {"five_h"}
TwoLimits  == {"a", "b"}
NearResets == {1, 2}     \* the second falls into the grace time of the first

VARIABLE scene

MCInit == Init /\ scene \in {"requests", "owners"}

MCNext ==
    /\ Next /\ UNCHANGED scene
    /\ IF scene = "owners" THEN issued' = 0 ELSE data'.limit \in {NoLimit, "a"}

MCSpec == MCInit /\ [][MCNext]_<<vars, scene>>
=============================================================================
