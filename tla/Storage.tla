------------------------------- MODULE Storage -------------------------------
(***************************************************************************)
(* Opening the SQLite archive (storage.py): every writer inspects it, backs *)
(* it up beside itself when something durable is about to change, turns on *)
(* WAL and migrates schema and limit identifiers in one transaction.       *)
(* Several processes open it at once, any step may fail, any process may   *)
(* die; readers open it without changing it.                               *)
(*                                                                         *)
(* An identifier is modelled by how often it has been hashed.  Hashing is  *)
(* not idempotent here: what looks hashed may be a name of the server.     *)
(***************************************************************************)
EXTENDS Naturals

CONSTANTS
    Writers, Readers,
    Originals,      \* the archives found at first
    MaxBackups, MaxCrashes      \* bounds

Current == 5        \* SCHEMA_VERSION_NUMBER
Legacy  == {1, 2, 3, 4}
Archive == [exists : BOOLEAN, version : 0..Current + 1, tables : BOOLEAN, indexes : BOOLEAN,
            wal : BOOLEAN, marker : BOOLEAN, ids : SUBSET (0..2)]

ASSUME StorageAssumption ==
    /\ MaxBackups \in Nat /\ MaxCrashes \in Nat
    /\ Originals \subseteq Archive
    /\ \A a \in Originals :
           /\ a.ids \subseteq IF a.marker THEN {1} ELSE {0}
           /\ a.marker => a.version >= Current
           /\ a.version = Current => a.tables

VARIABLES
    db,
    original,   \* history: the archive found at first
    backups,    \* *.pre-migration.*: complete or not, of what
    writer,     \* the locals of connect_database
    reader,     \* ... and of its read-only form, with the identifiers it shows
    crashes

vars == <<db, original, backups, writer, reader, crashes>>

Away == [at |-> "away", backup |-> 0, stale |-> FALSE]

Init ==
    /\ db \in Originals /\ original = db
    /\ backups = {}
    /\ writer = [p \in Writers |-> Away]
    /\ reader = [p \in Readers |-> [at |-> "away", stale |-> FALSE, ids |-> {}]]
    /\ crashes = 0

Go(p, at) == writer' = [writer EXCEPT ![p].at = at]
Abort(p)  == writer' = [writer EXCEPT ![p] = Away]

-----------------------------------------------------------------------------
(* Faulty: a version of the future is left to create_schema to refuse. *)
RecognizedAll == TRUE

(* _schema_state: a known version, or an old or empty file without one. *)
Recognized == db.version \in Legacy \cup {Current} \/ db.version = 0

MigrationRequired == ~db.marker

MutationRequired ==
    \/ db.version \in Legacy \/ (db.version = 0 /\ db.tables)
    \/ db.version = Current /\ ~db.indexes
    \/ MigrationRequired
    \/ ~db.wal

Inspect(p) ==
    /\ writer[p].at = "away"
    /\ Recognized
    /\ writer' = [writer EXCEPT ![p] =
           [at |-> IF db.exists /\ MutationRequired THEN "backup" ELSE "wal",
            backup |-> 0, stale |-> MigrationRequired]]
    /\ UNCHANGED <<db, original, backups, reader, crashes>>

FreeName(n) == \A b \in backups : b.name # n

(* backup_database: a name is reserved, the copy is made and verified. *)
Reserve(p) ==
    /\ writer[p].at = "backup"
    /\ \E n \in 1..MaxBackups :
           /\ FreeName(n)
           /\ backups' = backups \cup {[name |-> n, complete |-> FALSE, of |-> db]}
           /\ writer' = [writer EXCEPT ![p].at = "copy", ![p].backup = n]
    /\ UNCHANGED <<db, original, reader, crashes>>

CopyVerified(p) ==
    /\ writer[p].at = "copy"
    /\ backups' = {IF b.name = writer[p].backup THEN [b EXCEPT !.complete = TRUE, !.of = db]
                                                   ELSE b : b \in backups}
    /\ Go(p, "wal")
    /\ UNCHANGED <<db, original, reader, crashes>>

(* Faulty: the migration goes on although its backup failed. *)
AfterFailedBackupGoesOn == "wal"

AfterFailedBackup == "away"

BackupFails(p) ==
    /\ writer[p].at \in {"backup", "copy"}
    /\ backups' = {b \in backups : b.name # writer[p].backup}
    /\ Go(p, AfterFailedBackup)
    /\ UNCHANGED <<db, original, reader, crashes>>

EnableWal(p) ==
    /\ writer[p].at = "wal"
    /\ db' = [db EXCEPT !.exists = TRUE, !.wal = TRUE]
    /\ Go(p, "schema")
    /\ UNCHANGED <<original, backups, reader, crashes>>

Hashed(ids) == {i + 1 : i \in ids}

(* Faulty: the identifiers are migrated on what was read before the lock. *)
ContractStale(p) == writer[p].stale

(* _ensure_limit_id_contract reads the marker again in the transaction. *)
Contract(p) == MigrationRequired

(* create_schema, in one transaction. *)
Migrate(p) ==
    /\ writer[p].at = "schema" /\ db.version \in 0..Current
    /\ db' = [db EXCEPT !.version = Current, !.tables = TRUE, !.indexes = TRUE,
                        !.ids = IF Contract(p) THEN Hashed(@) ELSE @, !.marker = TRUE]
    /\ Go(p, "open")
    /\ UNCHANGED <<original, backups, reader, crashes>>

(* WAL or the transaction fails, or is refused, and leaves the rest as it is. *)
Fails(p) ==
    /\ writer[p].at \in {"wal", "schema"}
    /\ Abort(p)
    /\ UNCHANGED <<db, original, backups, reader, crashes>>

(* Collection stores identifiers hashed at the boundary of the Codex client. *)
Store(p) ==
    /\ writer[p].at = "open"
    /\ db' = [db EXCEPT !.ids = @ \cup {1}]
    /\ Abort(p)
    /\ UNCHANGED <<original, backups, reader, crashes>>

Crash(p) ==
    /\ writer[p].at # "away" /\ crashes < MaxCrashes
    /\ crashes' = crashes + 1
    /\ Abort(p)
    /\ UNCHANGED <<db, original, backups, reader>>

-----------------------------------------------------------------------------
(* The read-only form. *)

Look(p) ==
    /\ reader[p].at = "away" /\ db.exists /\ db.version = Current
    /\ reader' = [reader EXCEPT ![p] = [at |-> IF MigrationRequired THEN "copy" ELSE "shows",
                                        stale |-> MigrationRequired, ids |-> db.ids]]
    /\ UNCHANGED <<db, original, backups, writer, crashes>>

(* Faulty: the copy is migrated on what the archive said before. *)
CopyContractStale(p) == reader[p].stale

CopyContract(p) == MigrationRequired

(* A legacy archive is shown through a migrated copy in memory. *)
ShowCopy(p) ==
    /\ reader[p].at = "copy"
    /\ reader' = [reader EXCEPT ![p].at = "shows",
                                ![p].ids = IF CopyContract(p) THEN Hashed(db.ids) ELSE db.ids]
    /\ UNCHANGED <<db, original, backups, writer, crashes>>

Leave(p) ==
    /\ reader[p].at = "shows"
    /\ reader' = [reader EXCEPT ![p] = [at |-> "away", stale |-> FALSE, ids |-> {}]]
    /\ UNCHANGED <<db, original, backups, writer, crashes>>

Write(p) == \/ Inspect(p) \/ Reserve(p) \/ CopyVerified(p) \/ BackupFails(p)
            \/ EnableWal(p) \/ Migrate(p) \/ Fails(p) \/ Store(p) \/ Crash(p)
View(p)  == Look(p) \/ ShowCopy(p) \/ Leave(p)

Next == (\E p \in Writers : Write(p)) \/ (\E p \in Readers : View(p))

Spec == Init /\ [][Next]_vars

-----------------------------------------------------------------------------
BackupFile   == [name : 1..MaxBackups, complete : BOOLEAN, of : Archive]
WriterLocals == [at : {"away", "backup", "copy", "wal", "schema", "open"},
                 backup : 0..MaxBackups, stale : BOOLEAN]
ReaderLocals == [at : {"away", "copy", "shows"}, stale : BOOLEAN, ids : SUBSET (0..2)]

TypeOK ==
    /\ db \in Archive /\ original \in Archive
    /\ backups \subseteq BackupFile
    /\ \A b, c \in backups : b.name = c.name => b = c
    /\ writer \in [Writers -> WriterLocals]
    /\ reader \in [Readers -> ReaderLocals]

(* Every identifier is hashed exactly once, and the archive says so,       *)
(* however many processes migrate it at once and wherever they die.        *)
HashedOnce ==
    /\ db.ids \subseteq IF db.marker THEN {1} ELSE {0}
    /\ db.marker => db.version >= Current

(* No reader shows an identifier of the server, or one hashed twice.       *)
ShownOpaque == \A p \in Readers : reader[p].at = "shows" => reader[p].ids \subseteq {1}

(* Once a migration has touched an archive, a complete backup holds it as  *)
(* it was found (connect_database: the backup precedes WAL and schema).    *)
BackedUp ==
    (original.exists /\ [db EXCEPT !.ids = {}] # [original EXCEPT !.ids = {}])
        => \E b \in backups : b.complete /\ b.of = original

(* An archive of a future version is never changed. *)
FutureUntouched == [][db.version > Current => db' = db]_vars
=============================================================================
