------------------------------ MODULE History ------------------------------
(***************************************************************************)
(* The rolling history and the current snapshot (history.py): history.json  *)
(* keeps what full cycles read, data.json shows the newest reading of any   *)
(* cycle.  Each file is replaced atomically, one after the other; the       *)
(* process may die in between, the clock may be set back, files may hold    *)
(* what an older or a newer version wrote, or be damaged.                   *)
(***************************************************************************)
EXTENDS Integers, FiniteSets

CONSTANTS
    Retention,      \* --retention-hours
    MaxEntries,     \* MAX_HISTORY_ENTRIES, or as many as fit in 16 MiB
    Times,          \* what the clock may show
    Readings,       \* what a cycle may read, but for its time
    OldEntries,     \* what an older version may have left
    MaxUpdates, MaxFaults       \* bounds

None == -1
Windows == {"5h", "weekly"}

HasPercentage(e) == \E w \in Windows : e.pct[w] # None

HistoryAssumption ==
    /\ Retention \in Nat \ {0} /\ MaxEntries \in Nat \ {0}
    /\ Times \subseteq Nat \ {0}
    /\ \A r \in Readings \cup OldEntries :
           r.pct \in [Windows -> Int] /\ r.forecast \in BOOLEAN /\ HasPercentage(r)
    /\ \A e \in OldEntries :
           e \in [epoch : Times, pct : {e.pct}, forecast : {e.forecast}, raw : BOOLEAN]
    /\ MaxUpdates \in Nat /\ MaxFaults \in Nat

(* raw: in the form of an older version. *)
Snapshots ==
    {[epoch |-> t, pct |-> r.pct, forecast |-> r.forecast, raw |-> FALSE] : t \in Times, r \in Readings}

(* "future" and "fractional" contents are refused, not repaired.           *)
Refused == {"future", "fractional"}

VARIABLES
    history,    \* what can be read of history.json; damaged: not all can
    data,       \* data.json
    backups,    \* copies of damaged histories
    stage,      \* "idle", "read", "backup", "history", "data"
    job,        \* the update: its mode, snapshot, and the entry for data.json
    updates, faults,
    accepted    \* history: snapshots whose update succeeded

vars == <<history, data, backups, stage, job, updates, faults, accepted>>

NoEntry == [epoch |-> 0]
NoJob   == [mode |-> "none", snapshot |-> NoEntry, shown |-> NoEntry]

normalize_entry(e) == [e EXCEPT !.raw = FALSE]

(* Of two readings of one moment a missing percentage does not count.      *)
merge_entries(p, c) ==
    [c EXCEPT !.pct = [w \in Windows |-> IF c.pct[w] = None THEN p.pct[w] ELSE c.pct[w]],
              !.forecast = p.forecast \/ c.forecast]

(* The entries of history.json have different times: deduplicate keeps it so. *)
Combined(H, c) ==
    LET same == {h \in H : h.epoch = c.epoch}
    IN {normalize_entry(h) : h \in H \ same} \cup
       (IF same = {} THEN {c} ELSE {merge_entries(normalize_entry(h), c) : h \in same})

Expired(e, now) == e.epoch < now - Retention
Newer(S, e) == {f \in S : f.epoch > e.epoch}

apply_defensive_limits(S) == {e \in S : Cardinality(Newer(S, e)) < MaxEntries}

Retained(H, c) == apply_defensive_limits({e \in Combined(H, c) : ~Expired(e, c.epoch)})

ShownAfter(S, c) ==
    LET same == {e \in S : e.epoch = c.epoch}
    IN IF same = {} THEN c ELSE CHOOSE e \in same : TRUE

-----------------------------------------------------------------------------
(* What the first update may find. *)
Init ==
    /\ history \in [kind : {"good"} \cup Refused, entries : {{}} \cup {{e} : e \in OldEntries},
                    damaged : {FALSE}]
    /\ \/ data = [kind |-> "absent", entry |-> NoEntry]
       \/ \E k \in Refused : data = [kind |-> k, entry |-> NoEntry]
       \/ \E e \in OldEntries : data = [kind |-> "good", entry |-> e]
    /\ backups = {} /\ stage = "idle" /\ job = NoJob /\ updates = 0 /\ faults = 0
    /\ accepted = {}

(* A full cycle updates both files, a live one data.json only. *)
Begin ==
    /\ stage = "idle" /\ updates < MaxUpdates
    /\ \E m \in {"full", "live"}, s \in Snapshots :
           job' = [mode |-> m, snapshot |-> s, shown |-> s]
    /\ stage' = "read" /\ updates' = updates + 1
    /\ UNCHANGED <<history, data, backups, faults, accepted>>

(* Faulty: what data.json holds is looked at only when it is replaced. *)
AcceptableHistory == job.mode = "full" => history.kind \notin Refused

Acceptable ==
    /\ data.kind \notin Refused
    /\ job.mode = "full" => history.kind \notin Refused

(* Both files are looked at before any is changed. *)
Read ==
    /\ stage = "read" /\ Acceptable
    /\ stage' = IF job.mode = "live" THEN "data" ELSE IF history.damaged THEN "backup" ELSE "history"
    /\ UNCHANGED <<history, data, backups, job, updates, faults, accepted>>

Refuse ==
    /\ stage = "read" /\ ~Acceptable
    /\ stage' = "idle" /\ job' = NoJob
    /\ UNCHANGED <<history, data, backups, updates, faults, accepted>>

backup_corrupt_history ==
    /\ stage = "backup"
    /\ backups' = backups \cup {history}
    /\ stage' = "history"
    /\ UNCHANGED <<history, data, job, updates, faults, accepted>>

WriteHistory ==
    LET kept == Retained(history.entries, job.snapshot) IN
    /\ stage = "history"
    /\ history' = [kind |-> "good", entries |-> kept, damaged |-> FALSE]
    /\ job' = [job EXCEPT !.shown = ShownAfter(kept, job.snapshot)]
    /\ stage' = "data"
    /\ UNCHANGED <<data, backups, updates, faults, accepted>>

(* Faulty: whoever comes last is shown. *)
IsCurrentAlways == TRUE

IsCurrent == data.kind # "good" \/ job.snapshot.epoch >= data.entry.epoch

(* What an older reading leaves there is brought into today's form.        *)
Kept == normalize_entry(data.entry)

(* A live reading carries no forecast: the one that is shown stays.        *)
WithForecast(e) ==
    IF job.mode = "live" /\ data.kind = "good" THEN [e EXCEPT !.forecast = @ \/ data.entry.forecast] ELSE e

WriteData ==
    /\ stage = "data"
    /\ data' = [kind |-> "good", entry |-> IF IsCurrent THEN WithForecast(job.shown) ELSE Kept]
    /\ accepted' = accepted \cup {job.snapshot}
    /\ stage' = "idle" /\ job' = NoJob
    /\ UNCHANGED <<history, backups, updates, faults>>

update_history == Read \/ Refuse \/ backup_corrupt_history \/ WriteHistory \/ WriteData

(* A write fails or the process dies: the file is what it was.             *)
Fails ==
    /\ stage # "idle" /\ faults < MaxFaults
    /\ stage' = "idle" /\ job' = NoJob /\ faults' = faults + 1
    /\ UNCHANGED <<history, data, backups, updates, accepted>>

(* Damage: some entries of history.json can no longer be read.             *)
Damaged ==
    /\ stage = "idle" /\ faults < MaxFaults /\ history.kind = "good"
    /\ \E left \in SUBSET history.entries :
           history' = [kind |-> "good", entries |-> left, damaged |-> TRUE]
    /\ faults' = faults + 1
    /\ UNCHANGED <<data, backups, stage, job, updates, accepted>>

Next == Begin \/ update_history \/ Fails \/ Damaged

Spec == Init /\ [][Next]_vars

-----------------------------------------------------------------------------
TypeOK ==
    /\ \A e \in history.entries : e.epoch \in Times /\ HasPercentage(e)
    /\ \A e, f \in history.entries : e.epoch = f.epoch => e = f
    /\ Cardinality(history.entries) <= MaxEntries
    /\ data.kind = "good" => data.entry.epoch \in Times /\ HasPercentage(data.entry)
    /\ stage # "idle" => job.snapshot \in Snapshots

(* What history.json held is there after an update, or too old, or beyond   *)
(* the limit; and of a damaged file the copy exists before it is replaced.  *)
NothingLost ==
    stage = "history" /\ history' # history =>
        /\ history.damaged => history \in backups
        /\ \A e \in history.entries :
               \/ \E f \in history'.entries : f.epoch = e.epoch
               \/ Expired(e, job.snapshot.epoch)
               \/ Cardinality(Newer(history'.entries, e)) >= MaxEntries

(* "An unknown future schema must not result in a half-applied update":     *)
(* what is refused stops the update before it has changed anything.        *)
NoHalfUpdate ==
    data.kind \in Refused \/ (history.kind \in Refused /\ job.mode = "full") =>
        stage = "idle" \/ UNCHANGED <<history, data, backups>>

(* A percentage known for a moment stays known while the moment is kept.   *)
KnownStaysKnown ==
    stage = "history" =>
        \A e \in history.entries, f \in history'.entries, w \in Windows :
            e.epoch = f.epoch /\ e.pct[w] # None => f.pct[w] # None

UpdatesLoseNothing == NothingLost /\ NoHalfUpdate /\ KnownStaysKnown

(* Once everything has ended data.json shows no reading older than any that *)
(* was accepted, whichever mode it came in and wherever a process died.    *)
NewestIsShown ==
    data.kind = "good" => \A a \in accepted : a.epoch <= data.entry.epoch

(* "Otherwise a raw limit_id could remain publicly readable forever": no    *)
(* update that succeeds leaves an older form in what it may write.         *)
NothingRawRemains ==
    accepted # {} => ~data.entry.raw
=============================================================================
