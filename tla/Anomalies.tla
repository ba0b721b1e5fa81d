----------------------------- MODULE Anomalies -----------------------------
(***************************************************************************)
(* Quota anomalies from their detection to the alert journal: live polls    *)
(* observe the quotas (anomalies.py observe), and each poll registers the   *)
(* anomalies that are not journaled yet and marks them (monitor.sh,         *)
(* journal_quota_anomalies).  Registration may fail, the process may die.   *)
(***************************************************************************)
EXTENDS QuotaDetector, FiniteSets

CONSTANTS
    Alphabet,       \* what a poll may read, but for its time
    Steps,          \* the times between two samples
    MaxSamples, MaxTime, MaxFaults      \* bounds

ASSUME AnomaliesAssumption ==
    /\ Steps \subseteq Nat \ {0} /\ MaxSamples \in Nat /\ MaxTime \in Nat /\ MaxFaults \in Nat
    /\ \A a \in Alphabet : a.owner \in Ids /\ \A w \in Windows : a.reset[w] \in Int

VARIABLES
    db,         \* the archive
    pending,    \* the list read by journal_quota_anomalies
    told,       \* anomalies accepted by the alert journal
    faults,
    log,        \* history: the samples that were observed
    found,      \* history: all anomalies ever reported
    deferred    \* history: the movements that were deferred

vars == <<db, pending, told, faults, log, found, deferred>>

Key(a) == <<a.owner, a.window, a.kind, a.episode>>
Keys(S) == {Key(a) : a \in S}

Init ==
    /\ db = EmptyArchive
    /\ pending = <<>> /\ told = {} /\ faults = 0
    /\ log = <<>> /\ found = {} /\ deferred = {}

Now == IF log = <<>> THEN 0 ELSE log[Len(log)].epoch

(* A live poll reads the quotas and hands them to the detector. *)
Observe(s) ==
    /\ Len(log) < MaxSamples /\ s.epoch <= MaxTime /\ pending = <<>>
    /\ db' = process_snapshot(db, s)
    /\ log' = Append(log, s)
    /\ found' = found \cup Keys(db'.anomalies)
    /\ deferred' = deferred \cup
           {<<o, db'.detector[<<o, "weekly">>].deferred>> : o \in
               {o \in Ids : db'.detector[<<o, "weekly">>].deferred # <<>>}}
    /\ UNCHANGED <<pending, told, faults>>

-----------------------------------------------------------------------------
pending_anomalies == {a \in db.anomalies : ~a.journaled}

(* In the order of their detection. *)
ListPending ==
    /\ pending = <<>> /\ pending_anomalies # {}
    /\ pending' \in {q \in [1..Cardinality(pending_anomalies) -> pending_anomalies] :
                         \A i, j \in DOMAIN q : i < j => q[i] # q[j] /\ q[i].at <= q[j].at}
    /\ UNCHANGED <<db, told, faults, log, found, deferred>>

Marked(a) == [db EXCEPT !.anomalies = (@ \ {a}) \cup {[a EXCEPT !.journaled = TRUE]}]

(* Faulty: an anomaly is marked before it is registered. *)
MayMarkAny(a) == ~a.journaled

(* An alert of the same key is the same alert: to register again is no harm. *)
MayRegister(a) == ~a.journaled
MayMark(a) == ~a.journaled /\ Key(a) \in told

InArchive(a) == CHOOSE b \in db.anomalies : Key(b) = Key(a)

Register ==
    /\ pending # <<>> /\ MayRegister(InArchive(pending[1])) /\ Key(pending[1]) \notin told
    /\ told' = told \cup {Key(pending[1])}
    /\ UNCHANGED <<db, pending, faults, log, found, deferred>>

mark_journaled ==
    /\ pending # <<>> /\ MayMark(InArchive(pending[1]))
    /\ db' = Marked(InArchive(pending[1]))
    /\ pending' = Tail(pending)
    /\ UNCHANGED <<told, faults, log, found, deferred>>

(* A failure ends the round with the rest of the list; so does a death.    *)
RoundEnds ==
    /\ pending # <<>> /\ faults < MaxFaults
    /\ pending' = <<>> /\ faults' = faults + 1
    /\ UNCHANGED <<db, told, log, found, deferred>>

journal_quota_anomalies == ListPending \/ Register \/ mark_journaled \/ RoundEnds

Poll == \E t \in Steps, a \in Alphabet :
            Observe([epoch |-> Now + t, owner |-> a.owner, pct |-> a.pct, reset |-> a.reset])

Next == Poll \/ journal_quota_anomalies

Spec == Init /\ [][Next]_vars

(* Every poll goes through the list, and whoever failed comes back.        *)
Fairness == WF_vars(ListPending) /\ WF_vars(Register) /\ WF_vars(mark_journaled)

FairSpec == Spec /\ Fairness

-----------------------------------------------------------------------------
Kinds == {"quota_increase", "reset_shift", "reset_in_past", "reset_missing", "reset_oscillation"}

TypeOK ==
    /\ db.active \in Ids \cup {"nobody"}
    /\ \A a \in db.anomalies : a.owner \in Ids /\ a.window \in Windows /\ a.kind \in Kinds
    /\ \A a, b \in db.anomalies : Key(a) = Key(b) => a = b
    /\ \A e, f \in db.events : e.window = f.window /\ e.at = f.at => e = f
    /\ \A i \in DOMAIN pending : pending[i] \in db.anomalies
    /\ faults \in 0..MaxFaults

(* "Replaying the same observation is harmless": the latest sample, seen   *)
(* again, changes nothing.                                                 *)
ReplayIsHarmless == log # <<>> => process_snapshot(db, log[Len(log)]) = db

(* A full weekly cycle rests on three samples in a row of one owner: a full *)
(* one, the candidate with a deadline far enough beyond, and a fresh one    *)
(* that confirms the deadline; a replay, another owner, a gap or a missing  *)
(* value between them breaks it.                                           *)
ConfirmedByFreshSample ==
    \A p \in db.proofs : p.method = "full_observed" =>
        \E i \in 2..Len(log) - 1 :
            LET a == log[i - 1] b == log[i] c == log[i + 1] IN
            /\ b.epoch = p.at /\ c.epoch = p.seen
            /\ Complete(a) /\ Complete(b) /\ Complete(c) /\ a.owner = b.owner /\ b.owner = c.owner
            /\ a.pct["weekly"] = 100 /\ b.pct["weekly"] = 100
            /\ b.epoch - a.epoch <= GapLimit /\ c.epoch - b.epoch <= GapLimit
            /\ b.epoch < a.reset["weekly"] /\ b.reset["weekly"] - a.reset["weekly"] >= MinAdvance
            /\ Distance(b.reset["weekly"], c.reset["weekly"]) <= ConfirmTolerance

(* A deferred movement of the weekly window becomes a reset or an anomaly,  *)
(* and never both: until then it stays deferred.                           *)
DeferredIsSettled ==
    \A x \in deferred :
        LET o == x[1] m == x[2]
            waits   == db.detector[<<o, "weekly">>].deferred = m
            reset   == \E p \in db.proofs : p.method = "full_observed" /\ p.at = m[1]
            anomaly == \E a \in db.anomalies :
                           /\ a.owner = o /\ a.window = "weekly" /\ a.kind = "reset_shift"
                           /\ a.episode = <<m[2], m[3], m[1]>>
        IN /\ waits \/ reset \/ anomaly
           /\ ~(reset /\ anomaly) /\ ~(waits /\ (reset \/ anomaly))

(* A weekly reset is evidence of one owner: its two samples are complete    *)
(* and nothing of another or an unknown owner lies between them.           *)
EvidenceOfOneOwner ==
    \A p \in db.proofs : p.method # "full_observed" =>
        \E i, j \in DOMAIN log :
            /\ i < j /\ log[j].epoch = p.seen
            /\ Complete(log[i]) /\ Complete(log[j])
            /\ \A k \in i..j : log[k].owner = log[j].owner

(* "A movement accepted as a reset must never become an anomaly as well":   *)
(* what one sample shows is one or the other.                              *)
AcceptedIsNoAnomaly ==
    \A p \in db.proofs, a \in db.anomalies :
        ~(a.window = "weekly" /\ p.method # "full_observed" /\ a.at = p.seen)

(* ... and it holds when the sample before was complete and of that owner. *)
AdjacentAcceptedIsNoAnomaly ==
    \A p \in db.proofs, a \in db.anomalies, i \in 2..Len(log) :
        ~ /\ p.method # "full_observed" /\ log[i].epoch = p.seen
          /\ Complete(log[i - 1]) /\ log[i - 1].owner = log[i].owner
          /\ a.window = "weekly" /\ a.at = p.seen

(* Every anomaly ever reported is in the alert journal or still owed.      *)
OwedOrTold ==
    \A k \in found : k \in told \/ \E a \in pending_anomalies : Key(a) = k

(* Whatever fails and wherever the process dies, every anomaly is told.    *)
EveryAnomalyIsTold == <>[](found \subseteq told)
=============================================================================
