------------------------------ MODULE MCWeekly ------------------------------
(* After a weekly reset: what the samples are evidence of, in four scenes,
   and the hook that starts a window, under two settings.  One unit of time
   of the scenes is a quarter of an hour, so that a date moves by less than
   the tolerance, by as much, and by more; the hook counts in seconds. *)
EXTENDS Anomalies

TwoOwners == {"codex", "spark"}

Read(o, w, p, r) ==
    [owner |-> o, pct |-> [v \in Windows |-> IF v = w THEN p ELSE None],
     reset |-> [v \in Windows |-> IF v = w THEN r ELSE None]]

ReadBoth(p, r) == [owner |-> "codex", pct |-> [w \in Windows |-> p], reset |-> [w \in Windows |-> r]]

(* What a poll may read, how far apart and how often. *)
Scenes == [
    weekly |-> [alphabet |-> {Read("codex", "weekly", p, r) :
                                  p \in {None, 60, 100}, r \in {None, 3, 10, 12}},
                steps |-> {1, 3}, samples |-> 4],
    owners |-> [alphabet |-> {Read(o, "weekly", x[1], x[2]) : o \in Ids,
                                  x \in {<<None, 10>>, <<60, 10>>, <<100, 10>>, <<100, 14>>}},
                steps |-> {1}, samples |-> 5],
    both   |-> [alphabet |-> {ReadBoth(p, r) : p \in {60, 100}, r \in {10, 12, 14}},
                steps |-> {1}, samples |-> 4],
    fiveh  |-> [alphabet |-> {Read("codex", "5h", p, r) : p \in {60, 70, 100}, r \in {None, 2, 10, 12}},
                steps |-> {1}, samples |-> 4]]

AnyRead == UNION {Scenes[s].alphabet : s \in DOMAIN Scenes}

-----------------------------------------------------------------------------
VARIABLES now, receipts, run, runs, launched

hook == <<now, receipts, run, runs, launched>>

(* Runs of all lengths, killed and run again. *)
Budgeted == INSTANCE WeeklyStart_proofs WITH
    Owners <- {"a"}, MinAdvance <- 1800, ConfirmTolerance <- 60, GapLimit <- 3600,
    MaxAhead <- 691200, Occurrences <- {1}, MaxAttempts <- 3, Budget <- 160, Wait <- 20,
    Week <- 604800, Deadlines <- {10000}, StatusTimes <- {0, 5, 15}, Pauses <- {0, 40, 100},
    MaxRuns <- 3

(* One run, whose statuses show any deadlines of two owners. *)
Proving == INSTANCE WeeklyStart_proofs WITH
    Owners <- {"a", "b"}, MinAdvance <- 1800, ConfirmTolerance <- 60, GapLimit <- 3600,
    MaxAhead <- 691200, Occurrences <- {1}, MaxAttempts <- 3, Budget <- 180, Wait <- 1,
    Week <- 604800, Deadlines <- {10000, 10050, 12100}, StatusTimes <- {0, 1}, Pauses <- {0},
    MaxRuns <- 1

ASSUME Budgeted!WeeklyStartAssumption /\ Proving!WeeklyStartAssumption

-----------------------------------------------------------------------------
VARIABLE scene

MCInit ==
    /\ scene \in DOMAIN Scenes \cup {"budget", "proof"}
    /\ Init
    /\ IF scene = "proof" THEN Proving!Init ELSE Budgeted!Init

(* Anomalies reach the journal in one of the scenes. *)
Observing ==
    \/ \E t \in Scenes[scene].steps, a \in Scenes[scene].alphabet :
          /\ Len(log) < Scenes[scene].samples
          /\ Observe([epoch |-> Now + t, owner |-> a.owner, pct |-> a.pct, reset |-> a.reset])
    \/ scene = "fiveh" /\ journal_quota_anomalies

MCNext ==
    /\ \/ scene \in DOMAIN Scenes /\ Observing /\ UNCHANGED hook
       \/ scene = "budget" /\ Budgeted!Next /\ UNCHANGED vars
       \/ scene = "proof" /\ Proving!Next /\ UNCHANGED vars
    /\ UNCHANGED scene

MCSpec == MCInit /\ [][MCNext]_<<scene, vars, hook>>

(* What is taken for a weekly reset was one, of one owner, and what is taken
   for an anomaly was not. *)
EvidenceIsSound ==
    /\ TypeOK /\ ConfirmedByFreshSample /\ EvidenceOfOneOwner
    /\ DeferredIsSettled /\ AdjacentAcceptedIsNoAnomaly

(* The hook says that a window runs only when its statuses show it. *)
SuccessIsProven == scene = "proof" => Proving!SuccessIsProven

(* However often it runs, requests are charged before they are sent, and
   there is time left to look at what they did. *)
RequestsAreCharged ==
    scene = "budget" =>
        Budgeted!TypeOK /\ Budgeted!EveryRequestIsCharged /\ Budgeted!LookAfterRequest

(* ... and all of them end in one budget (RequestsEndInBudget). *)
OneBudgetForAll ==
    [][scene = "budget" => Budgeted!InBudget]_<<scene, vars, hook>>
=============================================================================
