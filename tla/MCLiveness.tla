----------------------------- MODULE MCLiveness -----------------------------
(* What must happen in the end: the reset checks of the monitor loop, the
   exchange with the app-server, the journaling of anomalies, the requests of
   the dashboard.  One of them at a time, the others stay as they were; so
   fairness is asked of the one in use only. *)
EXTENDS Integers

VARIABLES clock, data, sched, request, result, lock, held, loop, manual, http, issued, asked, crashes

monitor == <<clock, data, sched, request, result, lock, held, loop, manual, http, issued, asked,
             crashes>>

Loop == INSTANCE RefreshLoop WITH
    Windows <- {"five_h"}, Limits <- {"a"}, Resets <- {2, 4}, Grace <- 1, BusyWait <- 1,
    FailWait <- 2, Timeout <- 3, Interval <- 50, ActiveInterval <- 50, MaxTime <- 5,
    MaxRequests <- 0, MaxManual <- 1, MaxCrashes <- 1

-----------------------------------------------------------------------------
VARIABLES timer, alive, deaf, open, pipe, written, client, sent

limits == <<timer, alive, deaf, open, pipe, written, client, sent>>

Client == INSTANCE CodexClient WITH
    Replies <- {<<[id |-> 1, primary |-> "short", secondary |-> "weekly"]>>},
    Deadline <- 1, MaxLine <- 1, MaxWrites <- 2, clock <- timer

-----------------------------------------------------------------------------
VARIABLES db, pending, told, faults, log, found, deferred

anomalies == <<db, pending, told, faults, log, found, deferred>>

Read(p, r) == [owner |-> "codex",
               pct   |-> [w \in {"5h", "weekly"} |-> IF w = "5h" THEN p ELSE -1],
               reset |-> [w \in {"5h", "weekly"} |-> IF w = "5h" THEN r ELSE -1]]

Quotas == INSTANCE Anomalies WITH
    Owners <- {"codex"}, Alphabet <- {Read(p, r) : p \in {60, 70}, r \in {10, 11, 14}},
    Steps <- {1}, MinAdvance <- 2, ConfirmTolerance <- 0, GapLimit <- 2, MaxAhead <- 20,
    ShiftTolerance <- 2, OscillationDelta <- 1, MaxSamples <- 4, MaxTime <- 9, MaxFaults <- 2

-----------------------------------------------------------------------------
VARIABLES revisions, writing, observer, tokens, holder, look, req, futures, values, failures, named

cache == <<revisions, writing, observer, tokens, holder, look, req, futures, values, failures, named>>

Cache == INSTANCE AnalyticsCache WITH
    Requests <- {"r1", "r2"}, MaxEntries <- 1, MaxWrites <- 0, MaxReplacements <- 0,
    MaxFaults <- 1, files <- revisions, lock <- holder, pending <- futures, faults <- failures

-----------------------------------------------------------------------------
VARIABLE used

MCInit ==
    /\ used \in {"refresh", "limits", "anomalies", "cache"}
    /\ Loop!Init /\ Client!Init /\ Quotas!Init /\ Cache!Init
    /\ IF used = "limits" THEN deaf \in {{}, alive} ELSE alive = {"leader"} /\ deaf = {}

MCNext ==
    /\ \/ used = "refresh" /\ Loop!Next /\ UNCHANGED <<limits, anomalies, cache>>
       \/ used = "limits" /\ Client!Next /\ UNCHANGED <<monitor, anomalies, cache>>
       \/ used = "anomalies" /\ Quotas!Next /\ UNCHANGED <<monitor, limits, cache>>
       \/ used = "cache" /\ Cache!Next /\ UNCHANGED <<monitor, limits, anomalies>>
    /\ UNCHANGED used

RefreshFair ==
    /\ WF_monitor(used = "refresh" /\ Loop!LoopStep)
    /\ WF_monitor(used = "refresh" /\ Loop!Tick)
    /\ WF_monitor(used = "refresh" /\ Loop!OtherEnds)
    /\ SF_monitor(used = "refresh" /\ Loop!Collect)

LimitsFair ==
    /\ WF_limits(used = "limits" /\ Client!Tick)
    /\ WF_limits(used = "limits" /\ Client!Exchange)
    /\ WF_limits(used = "limits" /\ Client!Stop)

AnomaliesFair ==
    /\ WF_anomalies(used = "anomalies" /\ Quotas!ListPending)
    /\ WF_anomalies(used = "anomalies" /\ Quotas!Register)
    /\ WF_anomalies(used = "anomalies" /\ Quotas!mark_journaled)

CacheFair == \A r \in {"r1", "r2"} : WF_cache(used = "cache" /\ Cache!Request(r))

MCSpec ==
    /\ MCInit /\ [][MCNext]_<<used, monitor, limits, anomalies, cache>>
    /\ RefreshFair /\ LimitsFair /\ AnomaliesFair /\ CacheFair

(* Every announced reset is sampled after its grace time. *)
EveryResetIsChecked == used = "refresh" => Loop!EveryResetIsChecked

(* A collection ends whatever the app-server does (Ends). *)
CollectionEnds == used = "limits" => Client!Ends

(* Whatever fails, every anomaly reaches the alert journal. *)
EveryAnomalyIsTold == used = "anomalies" => Quotas!EveryAnomalyIsTold

(* Every request is answered, also one that waits for one that fails. *)
EveryRequestEnds == used = "cache" => Cache!EveryRequestEnds
=============================================================================
