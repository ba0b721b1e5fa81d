------------------------------ MODULE Archive ------------------------------
(***************************************************************************)
(* The long-term archive (archive.py): every full cycle inserts its         *)
(* snapshot, lets the detector see it, compacts and derives the resets      *)
(* anew; live cycles only show the detector what they read.  A corrupt      *)
(* archive is put aside and built again from the rolling history.           *)
(***************************************************************************)
EXTENDS QuotaDetector, FiniteSets

CONSTANTS
    RecentSpan, MediumSpan,     \* ages from which rows are thinned
    MediumBucket, OldBucket,    \* what a row stands for from then on
    Retention,                  \* the age at which rows go, or 0
    HistorySpan,                \* HISTORY_RETENTION_HOURS
    Alphabet,                   \* what a cycle may read, but for its time
    Steps,                      \* the times between two cycles
    Histories, StartAt,         \* what the first version with an archive may find, and when
    MaxCycles, MaxFaults        \* bounds

(* What a cycle reads, and what is kept of it. *)
Reading == [owner : Ids, pct : [Windows -> Int], reset : [Windows -> Int]]
Row     == [epoch : Nat, owner : Ids, pct : [Windows -> Int], reset : [Windows -> Int]]

(* A history has one entry of a time (deduplicate of history.py). *)
ASSUME ArchiveAssumption ==
    /\ RecentSpan \in Nat \ {0} /\ MediumSpan \in Nat /\ RecentSpan <= MediumSpan
    /\ MediumBucket \in Nat \ {0} /\ OldBucket \in Nat \ {0}
    /\ Retention \in Nat /\ HistorySpan \in Nat
    /\ StartAt \in Nat /\ Alphabet \subseteq Reading
    /\ \A H \in Histories : /\ H \subseteq {r \in Row : r.epoch \in 1..StartAt}
                            /\ \A g, h \in H : g.epoch = h.epoch => g = h
    /\ Steps \subseteq Nat \ {0} /\ MaxCycles \in Nat /\ MaxFaults \in Nat

VARIABLES
    database,   \* "absent", "good" or "corrupt"
    db,         \* its content
    migrated,   \* metadata: history_json_migrated
    history,    \* the rolling history
    stage,      \* of the cycle: "idle", "archive", "store", "observe"
    sample,     \* what the cycle has read
    cycles, faults,
    inserted    \* history: the rows this archive ever held

vars == <<database, db, migrated, history, stage, sample, cycles, faults, inserted>>

CompleteRow(s, w) == s.pct[w] # None /\ s.reset[w] # None
HasPercentage(s)  == \E w \in Windows : s.pct[w] # None

-----------------------------------------------------------------------------
(* Rows. *)

insert_snapshot(d, s) ==
    [d EXCEPT !.snapshots = {t \in @ : t.epoch # s.epoch} \cup {s}]

Imported(d, rows) ==
    LET new == {h \in rows : HasPercentage(h)}
    IN [d EXCEPT !.snapshots = {t \in @ : \A h \in new : h.epoch # t.epoch} \cup new]

(* Of every bucket the last row stays. *)
Thinned(S, bucket) ==
    {s \in S : \A t \in S : t.epoch \div bucket = s.epoch \div bucket => t.epoch <= s.epoch}

Anchor(d) == LatestOf(d.snapshots).epoch
Cutoff(d) == IF Retention = 0 THEN 0 ELSE Anchor(d) - Retention

ThinnedRows(d) ==
    LET medium == {s \in d.snapshots : /\ s.epoch >= Anchor(d) - MediumSpan
                                       /\ s.epoch < Anchor(d) - RecentSpan}
        old    == Before(d.snapshots, Anchor(d) - MediumSpan)
    IN (d.snapshots \ (medium \cup old)) \cup Thinned(medium, MediumBucket) \cup Thinned(old, OldBucket)

(* Faulty: what is old goes, told or not. *)
MayForgetAny(a) == TRUE

MayForget(a) == a.journaled

IsStale(d, k) == d.detector[k].updated < Cutoff(d) /\ k[1] # d.active

compact(d) ==
    LET cutoff == Cutoff(d) IN [d EXCEPT
          !.snapshots = {s \in ThinnedRows(d) : s.epoch >= cutoff},
          !.proofs    = {p \in @ : p.at >= cutoff},
          !.events    = {e \in @ : e.window = "weekly" => e.at >= cutoff},
          !.anomalies = {a \in @ : ~(MayForget(a) /\ a.at < cutoff)},
          !.detector  = [k \in DOMAIN @ |-> IF IsStale(d, k) THEN StateDefault ELSE @[k]]]

-----------------------------------------------------------------------------
(* Resets derived from the rows R, in the order of time. *)

OwnedAlike(p, c) == p.owner # Unknown /\ p.owner = c.owner

Crossed(p, c, w) == p.reset[w] # None /\ p.epoch < p.reset[w] /\ p.reset[w] <= c.epoch

FullToFull(p, c) ==
    /\ p.pct["5h"] = 100 /\ c.pct["5h"] = 100
    /\ c.reset["5h"] # None /\ c.reset["5h"] >= p.reset["5h"] + MinAdvance

(* The deadline of the row before the i-th lies between the two. *)
CrossedAt(R, w, i) ==
    LET p == R[i - 1] c == R[i] IN
    /\ i > 1 /\ Near(p, c) /\ OwnedAlike(p, c)
    /\ p.pct[w] # None /\ c.pct[w] # None /\ Crossed(p, c, w)
    /\ IF w = "5h" THEN ~FullToFull(p, c) ELSE c.reset[w] > p.reset[w]

(* The complete row the i-th is compared with, as a set: partial rows of    *)
(* its owner may lie between, and no others.                               *)
BaseRow(R, w, i) ==
    LET whole == {j \in 1..i - 1 : CompleteRow(R[j], w)}
    IN {j \in whole : /\ \A k \in whole : k <= j
                      /\ \A k \in j + 1..i - 1 : OwnedAlike(R[j], R[k])}

(* Found with its baseline: by a partial row for 5h, a complete one for weekly. *)
CrossedSince(R, w, i, j) ==
    /\ j \in BaseRow(R, w, i) /\ OwnedAlike(R[j], R[i])
    /\ Crossed(R[j], R[i], w) /\ Near(R[j], R[i])
    /\ IF w = "5h" THEN ~CompleteRow(R[i], w)
                   ELSE CompleteRow(R[i], w) /\ R[i].reset[w] > R[j].reset[w]

Cycle(p, w) == <<p.reset[w], p.owner>>

ScheduledCycles(R, w, i) ==
    {Cycle(R[j - 1], w) : j \in {j \in DOMAIN R : CrossedAt(R, w, j)}}
    \cup {Cycle(R[j], w) : j \in {j \in DOMAIN R : \E k \in 1..i : CrossedSince(R, w, k, j)}}

RefilledAt(R, w, i) ==
    \E j \in BaseRow(R, w, i) :
        LET p == R[j] c == R[i] IN
        /\ CompleteRow(c, w) /\ OwnedAlike(p, c)
        /\ Cycle(p, w) \notin ScheduledCycles(R, w, i)
        /\ c.reset[w] >= p.reset[w] + MinAdvance
        /\ \/ IsRefill(p.pct[w], c.pct[w])
           \/ w = "5h" /\ p.pct[w] = 100 /\ c.pct[w] = 100
        /\ w = "5h" => Near(p, c)

Event(w, at, method) == [window |-> w, at |-> at, method |-> method]

(* INSERT OR IGNORE: of two events at one time the first stands. *)
OrIgnore(A, B) == A \cup {b \in B : \A a \in A : a.window # b.window \/ a.at # b.at}

DerivedEvents(R, w) ==
    LET planned  == {Event(w, R[i - 1].reset[w], "scheduled_crossing") :
                         i \in {i \in DOMAIN R : CrossedAt(R, w, i)}}
        refilled == {Event(w, R[i].epoch, IF w = "5h" THEN "observed_refill" ELSE "random_observed") :
                         i \in {i \in DOMAIN R : RefilledAt(R, w, i)}}
        late     == {Event(w, R[j].reset[w], "scheduled_crossing") :
                         j \in {j \in DOMAIN R : \E i \in DOMAIN R : CrossedSince(R, w, i, j)}}
    IN OrIgnore(OrIgnore(planned, refilled), late)

ProvenEvents(d) ==
    LET full == {Event("weekly", p.at, p.method) : p \in {p \in d.proofs : p.method = "full_observed"}}
        seen == {p \in d.proofs : /\ p.method # "full_observed"
                                  /\ \A q \in d.proofs : q.at = p.at /\ q.method # "full_observed"
                                                             => p.seen <= q.seen}
    IN OrIgnore(full, {Event("weekly", p.at, p.method) : p \in seen})

(* Faulty: the rows count as evidence for ever. *)
LegacyForever(d) == d.snapshots

(* Rows count as weekly evidence until the detector has a baseline. *)
Legacy(d) == {s \in d.snapshots : d.start = None \/ s.epoch < d.start}

(* ORDER BY scraped_at_epoch: the i-th row has i - 1 before it. *)
InOrder(S) == [i \in 1..Cardinality(S) |-> CHOOSE s \in S : Cardinality(Before(S, s.epoch)) = i - 1]

rebuild_reset_events(d) ==
    [d EXCEPT !.events = OrIgnore(ProvenEvents(d), DerivedEvents(InOrder(Legacy(d)), "weekly"))
                         \cup DerivedEvents(InOrder(d.snapshots), "5h")]

-----------------------------------------------------------------------------
Init ==
    /\ database = "absent" /\ db = EmptyArchive /\ migrated = FALSE
    /\ history \in Histories
    /\ stage = "idle" /\ sample = [epoch |-> StartAt] /\ cycles = 0 /\ faults = 0
    /\ inserted = {}

(* A cycle reads the quotas; a live one leaves archive and history alone. *)
Scrape(s, next) ==
    /\ stage = "idle" /\ cycles < MaxCycles
    /\ stage' = next /\ sample' = s /\ cycles' = cycles + 1
    /\ UNCHANGED <<database, db, migrated, history, faults, inserted>>

run_cycle ==
    \E t \in Steps, a \in Alphabet, next \in {"archive", "observe"} :
        Scrape([epoch |-> sample.epoch + t, owner |-> a.owner, pct |-> a.pct, reset |-> a.reset], next)

ToImport == IF migrated THEN {} ELSE history

ingest ==
    LET filled == insert_snapshot(Imported(db, ToImport), sample)
    IN /\ stage = "archive" /\ database # "corrupt" /\ HasPercentage(sample)
       /\ db' = rebuild_reset_events(compact(process_snapshot(filled, sample)))
       /\ database' = "good" /\ migrated' = TRUE /\ stage' = "store"
       /\ inserted' = inserted \cup filled.snapshots
       /\ UNCHANGED <<history, sample, cycles, faults>>

(* A corrupt archive and its sidecars are moved away before it is rebuilt. *)
backup_corrupt_database ==
    /\ stage = "archive" /\ database = "corrupt"
    /\ database' = "absent" /\ db' = EmptyArchive /\ migrated' = FALSE /\ inserted' = {}
    /\ UNCHANGED <<history, stage, sample, cycles, faults>>

(* Refused, or any error: the transaction is undone, the cycle goes on. *)
ArchiveFails ==
    /\ stage = "archive"
    /\ \/ ~HasPercentage(sample) /\ UNCHANGED faults
       \/ faults < MaxFaults /\ faults' = faults + 1
    /\ stage' = "store"
    /\ UNCHANGED <<database, db, migrated, history, sample, cycles, inserted>>

update_history ==
    /\ stage = "store" /\ HasPercentage(sample)
    /\ history' = {h \in history \cup {sample} : h.epoch >= sample.epoch - HistorySpan}
    /\ stage' = "observe"
    /\ UNCHANGED <<database, db, migrated, sample, cycles, faults, inserted>>

HistoryFails ==
    /\ stage = "store"
    /\ \/ ~HasPercentage(sample) /\ UNCHANGED faults
       \/ faults < MaxFaults /\ faults' = faults + 1
    /\ stage' = "observe"
    /\ UNCHANGED <<database, db, migrated, history, sample, cycles, inserted>>

observe ==
    /\ stage = "observe" /\ database # "corrupt"
    /\ db' = process_snapshot(db, sample)
    /\ database' = "good" /\ stage' = "idle"
    /\ UNCHANGED <<migrated, history, sample, cycles, faults, inserted>>

ObserveFails ==
    /\ stage = "observe"
    /\ \/ database = "corrupt" /\ UNCHANGED faults
       \/ faults < MaxFaults /\ faults' = faults + 1
    /\ stage' = "idle"
    /\ UNCHANGED <<database, db, migrated, history, sample, cycles, inserted>>

(* The process dies wherever the cycle is. *)
Dies ==
    /\ stage # "idle" /\ faults < MaxFaults
    /\ stage' = "idle" /\ faults' = faults + 1
    /\ UNCHANGED <<database, db, migrated, history, sample, cycles, inserted>>

(* The disk damages the archive. *)
Corrupts ==
    /\ stage = "idle" /\ database = "good" /\ faults < MaxFaults
    /\ database' = "corrupt" /\ faults' = faults + 1
    /\ UNCHANGED <<db, migrated, history, stage, sample, cycles, inserted>>

(* The alert journal has taken an anomaly. *)
mark_journaled ==
    /\ stage = "idle" /\ database = "good"
    /\ \E a \in db.anomalies :
           /\ ~a.journaled
           /\ db' = [db EXCEPT !.anomalies = (@ \ {a}) \cup {[a EXCEPT !.journaled = TRUE]}]
    /\ UNCHANGED <<database, migrated, history, stage, sample, cycles, faults, inserted>>

archive_snapshot == ingest \/ backup_corrupt_database \/ ArchiveFails

Rest ==
    \/ archive_snapshot
    \/ update_history \/ HistoryFails
    \/ observe \/ ObserveFails
    \/ Dies \/ Corrupts \/ mark_journaled

Next == run_cycle \/ Rest

Spec == Init /\ [][Next]_vars

-----------------------------------------------------------------------------
TypeOK ==
    /\ database \in {"absent", "good", "corrupt"}
    /\ stage \in {"idle", "archive", "store", "observe"}
    /\ database = "absent" => db = EmptyArchive /\ ~migrated
    /\ \A s, t \in db.snapshots : s.epoch = t.epoch => s = t
    /\ \A e, f \in db.events : e.window = f.window /\ e.at = f.at => e = f

Proven(e) == \E p \in db.proofs : e.window = "weekly" /\ p.at = e.at

(* "Sparse snapshots cannot override those decisions": from the detector's  *)
(* first baseline on every weekly reset has a proof of its own, however     *)
(* the rows were thinned.                                                  *)
NoSparseReset ==
    db.start # None =>
        \A e \in db.events :
            e.window = "weekly" /\ e.method # "scheduled_crossing" /\ e.at >= db.start => Proven(e)

(* What the live cycles recorded is what deriving the resets anew would     *)
(* give: the two paths never disagree about a weekly reset.                *)
LiveIsRebuilt ==
    migrated => LET weekly(d) == {e \in d.events : e.window = "weekly"}
                IN weekly(rebuild_reset_events(db)) = weekly(db)

(* A proven weekly reset stays, whatever is compacted, restarted or derived *)
(* anew, until its age is beyond the retention or the archive is lost.     *)
ProvenStay ==
    \A e \in db.events :
        Proven(e) /\ database' # "absent" /\ (db'.snapshots = {} \/ e.at >= Cutoff(db'))
            => \E f \in db'.events : f.window = "weekly" /\ f.at = e.at

(* An anomaly the alert journal has not taken is kept beyond any retention. *)
OwedStay ==
    \A a \in db.anomalies :
        ~a.journaled /\ database' # "absent" =>
            \E b \in db'.anomalies : /\ b.owner = a.owner /\ b.window = a.window
                                     /\ b.kind = a.kind /\ b.episode = a.episode

(* A detector that is asked again has what it knew: the active group's is   *)
(* kept beyond any retention.                                              *)
ActiveStays ==
    \A w \in Windows :
        db.active \in Ids /\ db.detector[<<db.active, w>>].known
        /\ database' # "absent" /\ db'.active = db.active
            => db'.detector[<<db.active, w>>].known

(* An archive built anew holds whatever the rolling history still had.     *)
HistoryComesBack ==
    stage = "archive" /\ database = "absent" /\ database' = "good" =>
        \A h \in history :
            HasPercentage(h) /\ h.epoch >= Anchor(db') - RecentSpan /\ h.epoch >= Cutoff(db')
                => h \in db'.snapshots

Keeps == ProvenStay /\ OwedStay /\ ActiveStays /\ HistoryComesBack

(* A refill of the 5-hour quota is read off two complete rows of one owner, *)
(* with no row of another between them ...                                 *)
OfOneOwner(e) ==
    \E p, c \in inserted :
        /\ c.epoch = e.at /\ p.epoch < c.epoch
        /\ CompleteRow(p, "5h") /\ CompleteRow(c, "5h") /\ OwnedAlike(p, c)
        /\ \A t \in inserted : t.epoch > p.epoch /\ t.epoch < c.epoch => t.owner = c.owner

(* ... and it holds for as long as the rows are not thinned.               *)
RecentFiveHourOfOneOwner ==
    \A e \in db.events :
        e.method = "observed_refill" /\ e.at - GapLimit >= Anchor(db) - RecentSpan => OfOneOwner(e)
=============================================================================
