----------------------------- MODULE MCArchive -----------------------------
(* What the archive keeps of the quotas, in three scenes.  One unit of time stands for a quarter of an hour:
   a row stands for two units once it is older than the recent span, and for
   four later. *)
EXTENDS Archive

Read(o, w, p, r) ==
    [owner |-> o, pct |-> [v \in Windows |-> IF v = w THEN p ELSE None],
     reset |-> [v \in Windows |-> IF v = w THEN r ELSE None]]
At(t, s) == [epoch |-> t, owner |-> s.owner, pct |-> s.pct, reset |-> s.reset]

TwoOwners == {"codex", "spark"}

(* Old rows of a week that was refilled, seen by one owner or by two. *)
OldHistories ==
    {{}} \cup {{At(1, Read("codex", "weekly", 60, 12)), At(2, between),
                At(3, Read("codex", "weekly", 100, 16))} :
        between \in {Read("codex", "5h", 60, 12), Read("spark", "weekly", 60, 12)}}

(* Weekly resets over old rows; 5-hour rows of two owners, which only full
   cycles keep; anomalies, which outlive the retention and are told there only. *)
Scenes == [
    weekly |-> [alphabet |-> {Read("codex", "weekly", x[1], x[2]) :
                    x \in {<<60, 10>>, <<100, 12>>, <<100, 16>>, <<100, None>>}},
                next |-> {"archive", "observe"},
                steps |-> {1, 6}, cycles |-> 3, faults |-> 1],
    owners |-> [alphabet |-> {Read(o, "5h", x[1], x[2]) : o \in TwoOwners,
                    x \in {<<60, 10>>, <<100, 20>>, <<60, None>>}},
                next |-> {"archive"},
                steps |-> {1, 6}, cycles |-> 4, faults |-> 0],
    owed   |-> [alphabet |-> {Read("codex", "5h", 60, 30), Read("codex", "5h", 80, 30),
                    Read("codex", "weekly", 60, 40), Read("codex", "5h", None, 30)},
                next |-> {"archive", "observe"},
                steps |-> {1, 10}, cycles |-> 3, faults |-> 2]]

AnyRead == UNION {Scenes[s].alphabet : s \in DOMAIN Scenes}

VARIABLE scene

-----------------------------------------------------------------------------
MCInit ==
    /\ scene \in DOMAIN Scenes /\ Init
    /\ scene = "weekly" \/ history = {}

Cycling ==
    \/ /\ run_cycle /\ cycles' <= Scenes[scene].cycles /\ stage' \in Scenes[scene].next
       /\ sample'.epoch - sample.epoch \in Scenes[scene].steps
       /\ \E a \in Scenes[scene].alphabet : sample' = At(sample'.epoch, a)
    \/ /\ Rest /\ faults' <= Scenes[scene].faults
       /\ scene # "owed" => \A a \in db'.anomalies : ~a.journaled

MCNext == Cycling /\ UNCHANGED scene

MCSpec == MCInit /\ [][MCNext]_<<scene, vars>>

(* Resets are what the samples prove: none from thinned rows once there is a
   baseline, none across two owners, and those of the live cycles are those
   that are derived anew. *)
ResetsAreProven ==
    TypeOK /\ NoSparseReset /\ LiveIsRebuilt /\ RecentFiveHourOfOneOwner

(* Compaction, restarts and a lost archive spare what is still needed:
   proven resets, anomalies that are owed, the active detector, and the rows
   the rolling history has. *)
NeededIsKept ==
    [][Keeps]_<<scene, vars>>
=============================================================================
