----------------------------- MODULE MCStorage -----------------------------
(* The archive as a file: processes that open it, its backups, the requests
   that read it.  One of the three at a time; the others stay as they were. *)
EXTENDS Storage

(* An absent archive, an empty file, old ones, a current one that has lost an
   index, one written before the identifier contract, one of the future. *)
Found(v, tables, indexes, wal, marker, ids) ==
    [exists |-> TRUE, version |-> v, tables |-> tables, indexes |-> indexes, wal |-> wal,
     marker |-> marker, ids |-> ids]

AllOriginals ==
    {[Found(0, FALSE, FALSE, FALSE, FALSE, {}) EXCEPT !.exists = FALSE],
     Found(0, FALSE, FALSE, FALSE, FALSE, {}), Found(0, TRUE, FALSE, FALSE, FALSE, {0}),
     Found(3, TRUE, TRUE, TRUE, FALSE, {0}), Found(5, TRUE, FALSE, TRUE, TRUE, {1}),
     Found(5, TRUE, TRUE, TRUE, FALSE, {0}), Found(6, TRUE, TRUE, FALSE, TRUE, {1})}

TwoWriters == {"monitor", "tokens"}
OneReader  == {"analytics"}
TwoRequests == {"r1", "r2"}

-----------------------------------------------------------------------------
CONSTANTS Runs, Keep, Foreign, MaxTime, MaxFiles

VARIABLES files, temporary, lock, run, clock, died, published

Backups == INSTANCE Backup WITH crashes <- died

(* The archive itself and a damaged file lie beside the backups, both old
   enough to be pruned first. *)
TwoRuns    == {"timer", "operator"}
TwoForeign == {[name |-> 8, stamp |-> 0, good |-> FALSE, source |-> FALSE],
               [name |-> 9, stamp |-> 0, good |-> TRUE, source |-> TRUE]}

ASSUME BackupsAssumption == Backups!BackupAssumption

-----------------------------------------------------------------------------
CONSTANTS Requests, MaxEntries, MaxWrites, MaxReplacements, MaxFaults

VARIABLES revisions, writing, observer, tokens, holder, look, req, pending, values, faults, named

Cache == INSTANCE AnalyticsCache WITH files <- revisions, lock <- holder

ASSUME CachesAssumption == Cache!CacheAssumption

-----------------------------------------------------------------------------
VARIABLE used

backup == <<files, temporary, lock, run, clock, died, published>>
cache == <<revisions, writing, observer, tokens, holder, look, req, pending, values, faults, named>>

MCInit ==
    /\ used \in {"opening", "backup", "cache"}
    /\ Init /\ Backups!Init /\ Cache!Init
    /\ used = "opening" \/ ~db.exists

MCNext ==
    /\ \/ used = "opening" /\ Next /\ UNCHANGED <<backup, cache>>
       \/ used = "backup" /\ Backups!Next /\ UNCHANGED <<vars, cache>>
       \/ used = "cache" /\ Cache!Next /\ UNCHANGED <<vars, backup>>
    /\ UNCHANGED used

MCSpec == MCInit /\ [][MCNext]_<<used, vars, backup, cache>>

(* What bears the name of a backup is a coherent archive; files that are none
   are left alone; the newest survives its own pruning. *)
BackupsAreSafe ==
    Backups!TypeOK /\ Backups!PublishedIsGood /\ Backups!ForeignKept /\ Backups!OwnKept

(* No step loses a good backup and leaves fewer than are to be retained
   (prune_backups; EnoughKept of the backups). *)
EnoughBackups == [][Backups!EnoughLeft]_<<used, vars, backup, cache>>

(* A request is served what its own snapshot holds: names tell contents
   apart, what is served was computed from the content that was named, and of
   all who miss the same value at a time one computes it. *)
ServedIsCurrent ==
    Cache!TypeOK /\ Cache!NamesTellApart /\ Cache!ServedIsPinned /\ Cache!OneComputes
=============================================================================
