--------------------------- MODULE MCWeeklyAlerts ---------------------------
(* Two thresholds that one drop may cross together or one after the other, or
   one threshold where there are more channels or weeks. *)
EXTENDS WeeklyAlerts

Both  == {"50", "20"}
Level == [t \in Both |-> IF t = "50" THEN 2 ELSE 1]

Low      == {"20"}
LowLevel == [t \in Low |-> 1]

(* The third week begins without a fault behind it or a channel that waits. *)
LastWeekIsCalm == week <= 2 \/ (faults = 0 /\ later = {})
=============================================================================
