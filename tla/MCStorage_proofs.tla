-------------------------- MODULE MCStorage_proofs --------------------------
(***************************************************************************)
(* Proofs about Storage, for all sets of processes and all archives found  *)
(* at first: identifiers are hashed exactly once, readers show only hashed *)
(* ones, a complete backup precedes every durable change, and an archive   *)
(* of the future is left alone.  Then the backups, for all files found in   *)
(* the directory; and the requests that read the archive through the       *)
(* shared cache, for all sets of requests and bounds.                      *)
(***************************************************************************)
EXTENDS MCStorage, FiniteSetTheorems, SequenceTheorems, WellFoundedInduction, TLAPS

-----------------------------------------------------------------------------
(* The inductive invariants. *)

HashInv ==
    /\ HashedOnce
    /\ \A p \in Writers : writer[p].at = "open" => db.marker

FutureInv == db.version > Current => \A p \in Writers : writer[p].at = "away"

(* A backup being made is there, incomplete, and of one writer only.       *)
NamesInv ==
    /\ \A p \in Writers :
           /\ writer[p].at = "backup" => writer[p].backup = 0
           /\ writer[p].at = "copy" =>
                  \E b \in backups : b.name = writer[p].backup /\ ~b.complete
    /\ \A p, q \in Writers : p # q /\ writer[p].at = "copy" /\ writer[q].at = "copy"
                                 => writer[p].backup # writer[q].backup

MutationRequiredBy(a) ==
    \/ a.version \in Legacy \/ (a.version = 0 /\ a.tables)
    \/ a.version = Current /\ ~a.indexes
    \/ ~a.marker
    \/ ~a.wal

(* The archive that was found may be changed.                              *)
Safe ==
    \/ ~original.exists
    \/ ~MutationRequiredBy(original)
    \/ \E b \in backups : b.complete /\ b.of = original

SafeInv ==
    ~Safe => /\ db = original
             /\ \A p \in Writers : writer[p].at \in {"away", "backup", "copy"}

(* What needs no change is not changed, but for its identifiers.           *)
KeptInv ==
    original.exists /\ ~MutationRequiredBy(original)
        => [db EXCEPT !.ids = {}] = [original EXCEPT !.ids = {}]

FoundInv ==
    /\ (original.marker => original.version >= Current)
    /\ (original.version = Current => original.tables)

IInv == TypeOK /\ HashInv /\ FutureInv /\ NamesInv /\ SafeInv /\ KeptInv /\ FoundInv /\ ShownOpaque

USE DEF Current, Legacy, WriterLocals, ReaderLocals, BackupFile

(* The types after a step that changes the locals of one writer only.      *)
LEMMA TypesKept ==
    ASSUME TypeOK, NEW p \in Writers, NEW r \in WriterLocals, writer' = [writer EXCEPT ![p] = r],
           db' \in Archive, backups' \subseteq BackupFile,
           \A b, c \in backups' : b.name = c.name => b = c,
           UNCHANGED <<original, reader>>
    PROVE  TypeOK'
<1> USE DEF TypeOK
<1> HIDE DEF WriterLocals, ReaderLocals, BackupFile, Archive
<1>1. writer' \in [Writers -> WriterLocals]
  OBVIOUS
<1> QED BY <1>1

LEMMA TypesAt ==
    ASSUME TypeOK, NEW p \in Writers,
           NEW at \in {"away", "backup", "copy", "wal", "schema", "open"}, Go(p, at),
           db' \in Archive, backups' \subseteq BackupFile,
           \A b, c \in backups' : b.name = c.name => b = c,
           UNCHANGED <<original, reader>>
    PROVE  TypeOK'
<1> DEFINE r == [writer[p] EXCEPT !.at = at]
<1> HIDE DEF Archive, BackupFile, ReaderLocals
<1>1. r \in WriterLocals
  BY DEF TypeOK
<1>2. writer' = [writer EXCEPT ![p] = r]
  BY DEF Go, TypeOK
<1> HIDE DEF r, WriterLocals
<1> QED BY <1>1, <1>2, TypesKept

LEMMA InitInv == Init => IInv
<1> SUFFICES ASSUME Init PROVE IInv
  OBVIOUS
<1> USE StorageAssumption DEF Init
<1>1. TypeOK
  BY DEF TypeOK, Away
<1>2. HashInv /\ FutureInv /\ NamesInv /\ FoundInv /\ ShownOpaque
  BY DEF HashInv, HashedOnce, FutureInv, NamesInv, FoundInv, ShownOpaque, Away
<1>3. SafeInv /\ KeptInv
  BY DEF SafeInv, KeptInv, Away
<1> QED BY <1>1, <1>2, <1>3 DEF IInv

-----------------------------------------------------------------------------
(* One lemma for each step: the types, then the invariants it can disturb. *)

LEMMA InspectInv == ASSUME IInv, NEW p \in Writers, Inspect(p) PROVE IInv'
<1> USE DEF IInv, Inspect, Recognized
<1>1. TypeOK'
  <2> DEFINE r == [at |-> IF db.exists /\ MutationRequired THEN "backup" ELSE "wal",
                   backup |-> 0, stale |-> MigrationRequired]
  <2>1. MigrationRequired \in BOOLEAN
    BY DEF MigrationRequired
  <2>2. MaxBackups \in Nat
    BY StorageAssumption
  <2>3. r \in WriterLocals
    BY <2>1, <2>2
  <2>4. writer' = [writer EXCEPT ![p] = r]
    OBVIOUS
  <2> HIDE DEF r
  <2> QED BY <2>3, <2>4, TypesKept DEF TypeOK
<1>2. HashInv' /\ FutureInv' /\ FoundInv' /\ ShownOpaque'
  BY DEF TypeOK, HashInv, HashedOnce, FutureInv, FoundInv, ShownOpaque
<1>3. NamesInv'
  BY DEF TypeOK, NamesInv
<1>4. MutationRequired <=> MutationRequiredBy(db)
  BY DEF MutationRequired, MutationRequiredBy, MigrationRequired
<1>5. Safe' <=> Safe
  BY DEF Safe, MutationRequiredBy
<1>6. SafeInv'
  <2>1. CASE Safe
    BY <2>1, <1>5 DEF SafeInv
  <2>2. CASE ~Safe
    <3>1. db.exists /\ MutationRequired
      BY <2>2, <1>4 DEF SafeInv, Safe
    <3> QED BY <3>1, <2>2, <1>5 DEF SafeInv, TypeOK
  <2> QED BY <2>1, <2>2
<1>7. KeptInv'
  BY DEF KeptInv, MutationRequiredBy
<1> QED BY <1>1, <1>2, <1>3, <1>6, <1>7

LEMMA ReserveInv == ASSUME IInv, NEW p \in Writers, Reserve(p) PROVE IInv'
<1> USE DEF IInv, Reserve, FreeName
<1>1. TypeOK'
  <2>1. PICK n \in 1..MaxBackups :
            /\ \A b \in backups : b.name # n
            /\ backups' = backups \cup {[name |-> n, complete |-> FALSE, of |-> db]}
            /\ writer' = [writer EXCEPT ![p].at = "copy", ![p].backup = n]
    OBVIOUS
  <2> DEFINE r == [writer[p] EXCEPT !.at = "copy", !.backup = n]
             new == [name |-> n, complete |-> FALSE, of |-> db]
  <2>2. MaxBackups \in Nat
    BY StorageAssumption
  <2>3. r \in WriterLocals
    <3>1. writer[p] \in WriterLocals /\ n \in 0..MaxBackups
      BY <2>2 DEF TypeOK
    <3> HIDE DEF IInv, Reserve
    <3> QED BY <3>1
  <2>4. writer' = [writer EXCEPT ![p] = r]
    BY <2>1 DEF TypeOK
  <2>5. new \in BackupFile /\ new.name = n /\ backups' = backups \cup {new}
    BY <2>1 DEF TypeOK
  <2>6. /\ db' \in Archive /\ UNCHANGED <<original, reader>> /\ TypeOK
        /\ backups \subseteq BackupFile /\ (\A b, c \in backups : b.name = c.name => b = c)
    BY DEF TypeOK
  <2> HIDE DEF IInv, WriterLocals, ReaderLocals, BackupFile, r, new
  <2>7. backups' \subseteq BackupFile /\ \A b, c \in backups' : b.name = c.name => b = c
    BY <2>1, <2>5, <2>6
  <2> QED BY <2>3, <2>4, <2>6, <2>7, TypesKept
<1>2. HashInv' /\ FutureInv' /\ FoundInv' /\ ShownOpaque'
  BY DEF TypeOK, HashInv, HashedOnce, FutureInv, FoundInv, ShownOpaque
<1>3. NamesInv'
  BY DEF TypeOK, NamesInv
<1>4. Safe => Safe'
  BY DEF Safe, MutationRequiredBy
<1>5. SafeInv'
  BY <1>4 DEF SafeInv, TypeOK
<1>6. KeptInv'
  BY DEF KeptInv, MutationRequiredBy
<1> QED BY <1>1, <1>2, <1>3, <1>5, <1>6

LEMMA CopyVerifiedInv == ASSUME IInv, NEW p \in Writers, CopyVerified(p) PROVE IInv'
<1> USE DEF IInv, CopyVerified, Go
<1> DEFINE Done(b) == IF b.name = writer[p].backup THEN [b EXCEPT !.complete = TRUE, !.of = db]
                                                   ELSE b
<1>0. backups' = {Done(b) : b \in backups}
  OBVIOUS
<1>1. TypeOK'
  <2>1. \A b \in backups : Done(b) \in BackupFile /\ Done(b).name = b.name
    <3> SUFFICES ASSUME NEW b \in backups PROVE Done(b) \in BackupFile /\ Done(b).name = b.name
      OBVIOUS
    <3> HIDE DEF Archive
    <3>1. b \in BackupFile /\ db \in Archive
      BY DEF TypeOK
    <3> QED BY <3>1
  <2>2. \A b, c \in backups : b.name = c.name => b = c
    BY DEF TypeOK
  <2>3. db' \in Archive /\ UNCHANGED <<original, reader>> /\ TypeOK
    BY DEF TypeOK
  <2> HIDE DEF IInv, WriterLocals, ReaderLocals, BackupFile, Done
  <2>4. backups' \subseteq BackupFile
    BY <1>0, <2>1
  <2>5. \A b, c \in backups' : b.name = c.name => b = c
    <3> SUFFICES ASSUME NEW b \in backups, NEW c \in backups, Done(b).name = Done(c).name
                 PROVE  Done(b) = Done(c)
      BY <1>0
    <3>1. b.name = c.name
      BY <2>1
    <3>2. b = c
      BY <2>2, <3>1
    <3> QED BY <3>2
  <2> QED BY <2>3, <2>4, <2>5, TypesAt
<1>2. HashInv' /\ FutureInv' /\ FoundInv' /\ ShownOpaque'
  BY DEF TypeOK, HashInv, HashedOnce, FutureInv, FoundInv, ShownOpaque
<1>3. NamesInv'
  <2>1. \A q \in Writers : q # p => writer'[q] = writer[q]
    BY DEF TypeOK
  <2>2. writer'[p].at = "wal"
    BY DEF TypeOK
  <2>3. \A q \in Writers : writer'[q].at = "copy" =>
            \E b \in backups' : b.name = writer'[q].backup /\ ~b.complete
    <3> SUFFICES ASSUME NEW q \in Writers, writer'[q].at = "copy"
                 PROVE  \E b \in backups' : b.name = writer'[q].backup /\ ~b.complete
      OBVIOUS
    <3>1. q # p /\ writer[q].at = "copy" /\ writer[q].backup # writer[p].backup
      BY <2>1, <2>2 DEF NamesInv
    <3>2. PICK b \in backups : b.name = writer[q].backup /\ ~b.complete
      BY <3>1 DEF NamesInv
    <3>3. Done(b) = b
      BY <3>1, <3>2
    <3> QED BY <1>0, <2>1, <3>1, <3>2, <3>3
  <2>4. \A q \in Writers : writer'[q].at = "backup" => writer'[q].backup = 0
    BY <2>1, <2>2 DEF NamesInv
  <2>5. \A q, r \in Writers : q # r /\ writer'[q].at = "copy" /\ writer'[r].at = "copy"
                                 => writer'[q].backup # writer'[r].backup
    <3> SUFFICES ASSUME NEW q \in Writers, NEW r \in Writers, q # r,
                        writer'[q].at = "copy", writer'[r].at = "copy"
                 PROVE  writer'[q].backup # writer'[r].backup
      OBVIOUS
    <3>1. q # p /\ r # p
      BY <2>2
    <3>2. writer'[q] = writer[q] /\ writer'[r] = writer[r]
      BY <2>1, <3>1
    <3> QED BY <3>2 DEF NamesInv
  <2> QED BY <2>3, <2>4, <2>5 DEF NamesInv
<1>4. Safe => Safe'
  <2> SUFFICES ASSUME NEW b \in backups, b.complete, b.of = original
               PROVE  \E c \in backups' : c.complete /\ c.of = original'
    BY DEF Safe, MutationRequiredBy
  <2>1. PICK c \in backups : c.name = writer[p].backup /\ ~c.complete
    BY DEF NamesInv
  <2>2. b.name # writer[p].backup
    BY <2>1 DEF TypeOK
  <2>3. Done(b) = b
    BY <2>2
  <2> QED BY <1>0, <2>3
<1>5. ~Safe => Safe'
  <2> SUFFICES ASSUME ~Safe PROVE Safe'
    OBVIOUS
  <2>1. db = original
    BY DEF SafeInv
  <2>2. PICK c \in backups : c.name = writer[p].backup /\ ~c.complete
    BY DEF NamesInv
  <2>3. Done(c) \in backups' /\ Done(c).complete /\ Done(c).of = db
    BY <1>0, <2>2 DEF TypeOK
  <2> HIDE DEF Done
  <2> QED BY <2>1, <2>3 DEF Safe
<1>6. SafeInv'
  BY <1>4, <1>5 DEF SafeInv
<1>7. KeptInv'
  BY DEF KeptInv, MutationRequiredBy
<1> QED BY <1>1, <1>2, <1>3, <1>6, <1>7

LEMMA BackupFailsInv == ASSUME IInv, NEW p \in Writers, BackupFails(p) PROVE IInv'
<1> USE DEF IInv, BackupFails, Go, AfterFailedBackup
<1>1. TypeOK'
  <2>1. backups' \subseteq BackupFile /\ \A b, c \in backups' : b.name = c.name => b = c
    BY DEF TypeOK
  <2>2. db' \in Archive /\ UNCHANGED <<original, reader>> /\ TypeOK
    BY DEF TypeOK
  <2> HIDE DEF IInv, WriterLocals, ReaderLocals, BackupFile
  <2> QED BY <2>1, <2>2, TypesAt
<1>2. HashInv' /\ FutureInv' /\ FoundInv' /\ ShownOpaque'
  BY DEF TypeOK, HashInv, HashedOnce, FutureInv, FoundInv, ShownOpaque
<1>3. NamesInv'
  BY DEF TypeOK, NamesInv
<1>4. Safe => Safe'
  <2> SUFFICES ASSUME NEW b \in backups, b.complete, b.of = original
               PROVE  b \in backups'
    BY DEF Safe, MutationRequiredBy
  <2>1. CASE writer[p].at = "backup"
    BY <2>1 DEF NamesInv, TypeOK
  <2>2. CASE writer[p].at = "copy"
    <3>1. PICK c \in backups : c.name = writer[p].backup /\ ~c.complete
      BY <2>2 DEF NamesInv
    <3>2. b.name # writer[p].backup
      BY <3>1 DEF TypeOK
    <3> QED BY <3>2
  <2> QED BY <2>1, <2>2
<1>5. SafeInv'
  BY <1>4 DEF SafeInv, TypeOK
<1>6. KeptInv'
  BY DEF KeptInv, MutationRequiredBy
<1> QED BY <1>1, <1>2, <1>3, <1>5, <1>6

(* A writer past its backup may change the archive.                        *)
LEMMA BeyondBackup ==
    ASSUME IInv, NEW p \in Writers, writer[p].at \in {"wal", "schema", "open"}
    PROVE  Safe /\ db.version <= Current
<1>1. Safe
  BY DEF IInv, SafeInv
<1>2. db.version <= Current
  BY DEF IInv, FutureInv, TypeOK, Archive
<1> QED BY <1>1, <1>2

LEMMA EnableWalInv == ASSUME IInv, NEW p \in Writers, EnableWal(p) PROVE IInv'
<1> USE DEF IInv, EnableWal, Go
<1>0. Safe /\ db.version <= Current
  BY BeyondBackup
<1>1. TypeOK'
  <2>1. db' \in Archive
    BY DEF TypeOK, Archive
  <2>2. /\ backups' \subseteq BackupFile /\ (\A b, c \in backups' : b.name = c.name => b = c)
        /\ UNCHANGED <<original, reader>> /\ TypeOK
    BY DEF TypeOK
  <2> HIDE DEF IInv, WriterLocals, ReaderLocals, BackupFile
  <2> QED BY <2>1, <2>2, TypesAt
<1>2. HashInv' /\ FutureInv' /\ FoundInv' /\ ShownOpaque'
  BY <1>0 DEF TypeOK, Archive, HashInv, HashedOnce, FutureInv, FoundInv, ShownOpaque
<1>3. NamesInv'
  BY DEF TypeOK, NamesInv
<1>4. SafeInv'
  BY <1>0 DEF SafeInv, Safe, MutationRequiredBy
<1>5. KeptInv'
  <2> SUFFICES ASSUME original.exists, ~MutationRequiredBy(original)
               PROVE  [db' EXCEPT !.ids = {}] = [original EXCEPT !.ids = {}]
    BY DEF KeptInv, MutationRequiredBy
  <2>1. [db EXCEPT !.ids = {}] = [original EXCEPT !.ids = {}]
    BY DEF KeptInv
  <2>2. db \in Archive /\ original \in Archive /\ original.wal = TRUE /\ original.exists = TRUE
    BY DEF MutationRequiredBy, TypeOK, Archive
  <2>3. db.exists = TRUE /\ db.wal = TRUE
    <3> HIDE DEF IInv, EnableWal
    <3>1. /\ [db EXCEPT !.ids = {}].exists = db.exists
          /\ [db EXCEPT !.ids = {}].wal = db.wal
      BY <2>2 DEF Archive
    <3>2. /\ [original EXCEPT !.ids = {}].exists = original.exists
          /\ [original EXCEPT !.ids = {}].wal = original.wal
      BY <2>2 DEF Archive
    <3> QED BY <2>1, <2>2, <3>1, <3>2
  <2>4. db' = db
    <3>1. db' = [db EXCEPT !.exists = TRUE, !.wal = TRUE]
      OBVIOUS
    <3> HIDE DEF IInv, EnableWal
    <3> QED BY <2>2, <2>3, <3>1 DEF Archive
  <2> QED BY <2>1, <2>4
<1> QED BY <1>1, <1>2, <1>3, <1>4, <1>5

LEMMA MigrateInv == ASSUME IInv, NEW p \in Writers, Migrate(p) PROVE IInv'
<1> USE DEF IInv, Migrate, Go, Contract, MigrationRequired
<1>0. Safe /\ db.version <= Current
  BY BeyondBackup
<1>a. Hashed({}) = {} /\ Hashed({0}) = {1}
  BY DEF Hashed
<1>b. db'.ids \subseteq {1} /\ db'.marker /\ db'.version = Current
  <2>1. CASE db.marker
    BY <2>1 DEF TypeOK, Archive, HashInv, HashedOnce
  <2>2. CASE ~db.marker
    <3>1. db.ids = {} \/ db.ids = {0}
      BY <2>2 DEF HashInv, HashedOnce
    <3> QED BY <2>2, <3>1, <1>a DEF TypeOK, Archive
  <2> QED BY <2>1, <2>2
<1>1. TypeOK'
  <2>1. db' \in Archive
    <3> DEFINE ids == IF Contract(p) THEN Hashed(db.ids) ELSE db.ids
    <3>1. db' = [db EXCEPT !.version = Current, !.tables = TRUE, !.indexes = TRUE,
                           !.ids = ids, !.marker = TRUE]
      OBVIOUS
    <3>2. db'.ids = ids
      BY <3>1 DEF TypeOK, Archive
    <3>3. ids \subseteq {1}
      BY <1>b, <3>2
    <3>4. ids \in SUBSET (0..2)
      BY <3>3
    <3>5. db \in Archive
      BY DEF TypeOK
    <3> HIDE DEF ids, IInv, Migrate, Contract
    <3>6. db' = [exists |-> db.exists, version |-> Current, tables |-> TRUE, indexes |-> TRUE,
                 wal |-> db.wal, marker |-> TRUE, ids |-> ids]
      BY <3>1, <3>5 DEF Archive
    <3>7. db.exists \in BOOLEAN /\ db.wal \in BOOLEAN /\ Current \in 0..Current + 1
      BY <3>5 DEF Archive
    <3> QED BY <3>4, <3>6, <3>7 DEF Archive
  <2>2. /\ backups' \subseteq BackupFile /\ (\A b, c \in backups' : b.name = c.name => b = c)
        /\ UNCHANGED <<original, reader>> /\ TypeOK
    BY DEF TypeOK
  <2> HIDE DEF IInv, WriterLocals, ReaderLocals, BackupFile
  <2> QED BY <2>1, <2>2, TypesAt
<1>2. HashInv' /\ FutureInv' /\ FoundInv' /\ ShownOpaque'
  BY <1>b DEF HashInv, HashedOnce, FutureInv, FoundInv, ShownOpaque
<1>3. NamesInv'
  BY DEF TypeOK, NamesInv
<1>4. SafeInv'
  BY <1>0 DEF SafeInv, Safe, MutationRequiredBy
<1>5. KeptInv'
  <2> SUFFICES ASSUME original.exists, ~MutationRequiredBy(original)
               PROVE  [db' EXCEPT !.ids = {}] = [original EXCEPT !.ids = {}]
    BY DEF KeptInv, MutationRequiredBy
  <2>1. [db EXCEPT !.ids = {}] = [original EXCEPT !.ids = {}]
    BY DEF KeptInv
  <2>2. /\ db.exists = original.exists /\ db.version = original.version /\ db.tables = original.tables
        /\ db.indexes = original.indexes /\ db.wal = original.wal /\ db.marker = original.marker
    BY <2>1 DEF TypeOK, Archive
  <2>3. original.marker /\ original.version = Current /\ original.indexes /\ original.tables
    BY <2>2, <1>0 DEF MutationRequiredBy, FoundInv, TypeOK, Archive
  <2>4. [db' EXCEPT !.ids = {}] = [db EXCEPT !.ids = {}]
    BY <2>2, <2>3 DEF TypeOK, Archive
  <2> QED BY <2>1, <2>4
<1> QED BY <1>1, <1>2, <1>3, <1>4, <1>5

LEMMA StoreInv == ASSUME IInv, NEW p \in Writers, Store(p) PROVE IInv'
<1> USE DEF IInv, Store, Abort, Away
<1>0. Safe /\ db.version <= Current /\ db.marker
  BY BeyondBackup DEF HashInv
<1>1. TypeOK'
  <2>1. MaxBackups \in Nat
    BY StorageAssumption
  <2>2. [at |-> "away", backup |-> 0, stale |-> FALSE] \in WriterLocals
    BY <2>1
  <2>3. db' \in Archive
    BY DEF TypeOK, Archive
  <2> QED BY <2>2, <2>3, TypesKept DEF TypeOK
<1>2. HashInv' /\ FutureInv' /\ FoundInv' /\ ShownOpaque'
  BY <1>0 DEF TypeOK, Archive, HashInv, HashedOnce, FutureInv, FoundInv, ShownOpaque
<1>3. NamesInv'
  BY DEF TypeOK, NamesInv
<1>4. SafeInv'
  BY <1>0 DEF SafeInv, Safe, MutationRequiredBy
<1>5. KeptInv'
  BY DEF KeptInv, MutationRequiredBy, TypeOK, Archive
<1> QED BY <1>1, <1>2, <1>3, <1>4, <1>5

(* A step that only sends a writer away.                                   *)
LEMMA AbortInv ==
    ASSUME IInv, NEW p \in Writers, Abort(p),
           UNCHANGED <<db, original, backups, reader>>
    PROVE  IInv'
<1> USE DEF IInv, Abort, Away
<1>1. TypeOK'
  <2>1. MaxBackups \in Nat
    BY StorageAssumption
  <2>2. [at |-> "away", backup |-> 0, stale |-> FALSE] \in WriterLocals
    BY <2>1
  <2>3. db' \in Archive
    BY DEF TypeOK, Archive
  <2> QED BY <2>2, <2>3, TypesKept DEF TypeOK
<1>2. HashInv' /\ FutureInv' /\ FoundInv' /\ ShownOpaque'
  BY DEF TypeOK, HashInv, HashedOnce, FutureInv, FoundInv, ShownOpaque
<1>3. NamesInv'
  BY DEF TypeOK, NamesInv
<1>4. SafeInv' /\ KeptInv'
  BY DEF SafeInv, Safe, KeptInv, MutationRequiredBy, TypeOK
<1> QED BY <1>1, <1>2, <1>3, <1>4

LEMMA ViewInv == ASSUME IInv, NEW p \in Readers, View(p) PROVE IInv'
<1> USE DEF IInv
<1>1. UNCHANGED <<db, original, backups, writer>>
  BY DEF View, Look, ShowCopy, Leave
<1>2. HashInv' /\ FutureInv' /\ NamesInv' /\ SafeInv' /\ KeptInv' /\ FoundInv'
  BY <1>1 DEF HashInv, HashedOnce, FutureInv, NamesInv, SafeInv, Safe, KeptInv, FoundInv,
              MutationRequiredBy
<1>3. db.ids \subseteq IF db.marker THEN {1} ELSE {0}
  BY DEF HashInv, HashedOnce
<1>4. Hashed({}) = {} /\ Hashed({0}) = {1}
  BY DEF Hashed
<1>5. TypeOK' /\ ShownOpaque'
  <2>1. CASE Look(p)
    BY <2>1, <1>3 DEF Look, TypeOK, Archive, ShownOpaque, MigrationRequired
  <2>2. CASE ShowCopy(p)
    <3> DEFINE ids == IF CopyContract(p) THEN Hashed(db.ids) ELSE db.ids
    <3>1. db.ids = {} \/ db.ids = {0} \/ db.marker
      BY <1>3
    <3>2. ids \subseteq {1}
      BY <3>1, <1>3, <1>4 DEF CopyContract, MigrationRequired
    <3>3. reader' = [reader EXCEPT ![p].at = "shows", ![p].ids = ids]
      BY <2>2 DEF ShowCopy
    <3> HIDE DEF ids
    <3>4. reader'[p].at = "shows" /\ reader'[p].ids = ids /\ reader'[p].stale = reader[p].stale
      BY <3>3 DEF TypeOK
    <3>5. reader' \in [Readers -> ReaderLocals]
      <4> DEFINE r == [reader[p] EXCEPT !.at = "shows", !.ids = ids]
      <4>1. ids \in SUBSET (0..2)
        BY <3>2
      <4>2. r \in ReaderLocals
        BY <4>1 DEF TypeOK
      <4>3. reader' = [reader EXCEPT ![p] = r]
        BY <3>3 DEF TypeOK
      <4> HIDE DEF r, ReaderLocals
      <4> QED BY <4>2, <4>3 DEF TypeOK
    <3>6. TypeOK'
      BY <3>5, <1>1 DEF TypeOK
    <3>7. ShownOpaque'
      BY <3>2, <3>3, <3>4 DEF ShownOpaque, TypeOK
    <3> QED BY <3>6, <3>7
  <2>3. CASE Leave(p)
    BY <2>3, <1>1 DEF Leave, TypeOK, ShownOpaque
  <2> QED BY <2>1, <2>2, <2>3 DEF View
<1> QED BY <1>2, <1>5

LEMMA StepInv == IInv /\ [Next]_vars => IInv'
<1> SUFFICES ASSUME IInv, [Next]_vars PROVE IInv'
  OBVIOUS
<1>1. ASSUME NEW p \in Writers, Write(p) PROVE IInv'
  <2>1. CASE Inspect(p)       BY <2>1, InspectInv
  <2>2. CASE Reserve(p)       BY <2>2, ReserveInv
  <2>3. CASE CopyVerified(p)  BY <2>3, CopyVerifiedInv
  <2>4. CASE BackupFails(p)   BY <2>4, BackupFailsInv
  <2>5. CASE EnableWal(p)     BY <2>5, EnableWalInv
  <2>6. CASE Migrate(p)       BY <2>6, MigrateInv
  <2>7. CASE Fails(p)         BY <2>7, AbortInv DEF Fails
  <2>8. CASE Store(p)         BY <2>8, StoreInv
  <2>9. CASE Crash(p)         BY <2>9, AbortInv DEF Crash
  <2> QED BY <1>1, <2>1, <2>2, <2>3, <2>4, <2>5, <2>6, <2>7, <2>8, <2>9 DEF Write
<1>2. ASSUME NEW p \in Readers, View(p) PROVE IInv'
  BY <1>2, ViewInv
<1>3. CASE UNCHANGED vars
  BY <1>3 DEF vars, IInv, TypeOK, HashInv, HashedOnce, FutureInv, NamesInv, SafeInv, Safe, KeptInv,
              FoundInv, ShownOpaque, MutationRequiredBy
<1> QED BY <1>1, <1>2, <1>3 DEF Next

LEMMA SpecInv == Spec => []IInv
  BY InitInv, StepInv, PTL DEF Spec

-----------------------------------------------------------------------------
(* The variables have their types (connect_database).                      *)
THEOREM TypeCorrect == Spec => []TypeOK
<1>1. IInv => TypeOK
  BY DEF IInv
<1> QED BY <1>1, SpecInv, PTL

(* However many processes open a legacy archive at once, and wherever they *)
(* die, every identifier is hashed exactly once (_ensure_limit_id_contract *)
(* reads the marker again inside the transaction of create_schema).        *)
THEOREM HashedExactlyOnce == Spec => []HashedOnce
<1>1. IInv => HashedOnce
  BY DEF IInv, HashInv
<1> QED BY <1>1, SpecInv, PTL

(* No reader ever shows an identifier that is not hashed exactly once.     *)
THEOREM ReadersShowOpaque == Spec => []ShownOpaque
<1>1. IInv => ShownOpaque
  BY DEF IInv
<1> QED BY <1>1, SpecInv, PTL

(* Whatever durable change is made to an archive that was found, a complete *)
(* backup holds it as it was found.                                        *)
THEOREM BackupPrecedesChange == Spec => []BackedUp
<1>1. IInv => BackedUp
  BY DEF IInv, BackedUp, SafeInv, Safe, KeptInv
<1> QED BY <1>1, SpecInv, PTL

(* An archive of a newer release is never changed.                         *)
THEOREM FutureIsLeftAlone == Spec => FutureUntouched
<1>1. IInv /\ [Next]_vars => [db.version > Current => db' = db]_vars
  BY DEF IInv, FutureInv, vars, Next, Write, View, Inspect, Reserve, CopyVerified, BackupFails,
         EnableWal, Migrate, Fails, Store, Crash, Look, ShowCopy, Leave
<1> QED BY <1>1, SpecInv, PTL DEF Spec, FutureUntouched

-----------------------------------------------------------------------------
(* The backups, for every set of who may run one, every number to keep and all
   files found in the directory. *)

HIDE DEF Current, Legacy, WriterLocals, ReaderLocals, BackupFile

BackupStages == {"away", "copy", "verify", "publish", "unlink", "list", "prune"}

BackupLocals == [at : BackupStages, name : Nat, prune : SUBSET Backups!Files]

BackupsTyped ==
    /\ files \subseteq Backups!Files /\ temporary \subseteq Backups!Files
    /\ published \subseteq Backups!Files
    /\ IsFiniteSet(files)
    /\ lock \in {"free"} \cup Runs /\ clock \in 0..MaxTime
    /\ run \in [Runs -> BackupLocals]

(* What the locals x of a run r say of the lock l, the files fs and the       *)
(* temporary files ts: it alone is at work; its temporary file is the only    *)
(* one of its name, and good once it has been verified; its backup is there   *)
(* until it ends; what it is to prune are other backups, and enough are left  *)
(* without them.                                                              *)
RunOK(r, x, l, fs, ts) ==
    /\ x.at # "away" => l = r /\ x.name \in Backups!Names
    /\ x.at # "prune" => x.prune = {}
    /\ x.at \in {"copy", "verify", "publish", "unlink"} =>
         \E f \in ts : /\ f.name = x.name /\ ~f.source
                       /\ x.at = "publish" => f.good
                       /\ \A g \in ts : g.name = x.name => g = f
    /\ x.at \in {"unlink", "list", "prune"} => \E f \in Backups!Good(fs) : f.name = x.name
    /\ x.at \in {"list", "prune"} => \A f \in ts : f.name # x.name
    /\ \A f \in x.prune : f \in Backups!Good(fs) /\ f.name # x.name
    /\ x.prune # {} => Keep <= Cardinality(Backups!Good(fs) \ x.prune)

RunsOK == \A r \in Runs : RunOK(r, run[r], lock, files, temporary)

BackupsInv == BackupsTyped /\ RunsOK /\ Backups!PublishedIsGood /\ Backups!ForeignKept

-----------------------------------------------------------------------------
(* A step of one run. *)

(* The module's instance has its own names for the counting of sets. *)
LEMMA SameCounting ==
    \A S : /\ Backups!IsFiniteSet(S) <=> IsFiniteSet(S)
           /\ Backups!Cardinality(S) = Cardinality(S)
BY DEF Backups!IsFiniteSet, IsFiniteSet, Backups!Cardinality, Cardinality

LEMMA NotFree == Backups!BackupAssumption => "free" \notin Runs
BY DEF Backups!BackupAssumption

(* The others have nothing to say: they do not hold the lock. *)
LEMMA OneRuns ==
    ASSUME Backups!BackupAssumption, BackupsInv, NEW r \in Runs, NEW x \in BackupLocals,
           run' = [run EXCEPT ![r] = x], lock \in {"free", r}, lock' \in {"free", r},
           RunOK(r, x, lock', files', temporary')
    PROVE  RunsOK' /\ run' \in [Runs -> BackupLocals]
<1>1. run \in [Runs -> BackupLocals] /\ run'[r] = x
      /\ \A q \in Runs \ {r} : run'[q] = run[q]
  BY DEF BackupsInv, BackupsTyped
<1>2. ASSUME NEW q \in Runs \ {r}
      PROVE  RunOK(q, run'[q], lock', files', temporary')
  <2>1. lock # q
    BY NotFree
  <2>2. run[q].at = "away" /\ run[q].prune = {}
    BY <2>1 DEF BackupsInv, RunsOK, RunOK
  <2> QED BY <1>1, <2>2 DEF RunOK
<1>3. run' \in [Runs -> BackupLocals]
  BY <1>1
<1> QED BY <1>1, <1>2, <1>3 DEF RunsOK

LEMMA RunHere ==
    ASSUME BackupsInv, NEW r \in Runs
    PROVE  /\ run[r] \in BackupLocals /\ RunOK(r, run[r], lock, files, temporary)
           /\ run[r].at # "away" => lock = r
           /\ Backups!Released(r) \in {"free"} \cup Runs
BY DEF BackupsInv, BackupsTyped, RunsOK, RunOK, Backups!Released

(* The temporary file of a run. *)
LEMMA MineIs ==
    ASSUME BackupsInv, NEW r \in Runs, run[r].at \in {"copy", "verify", "publish", "unlink"}
    PROVE  /\ Backups!Mine(r) \in temporary /\ Backups!Mine(r) \in Backups!Files
           /\ Backups!Mine(r).name = run[r].name /\ ~Backups!Mine(r).source
           /\ run[r].at = "publish" => Backups!Mine(r).good
           /\ \A g \in temporary : g.name = run[r].name => g = Backups!Mine(r)
<1>1. PICK f \in temporary : /\ f.name = run[r].name /\ ~f.source
                             /\ run[r].at = "publish" => f.good
                             /\ \A g \in temporary : g.name = run[r].name => g = f
  BY RunHere DEF RunOK
<1>2. Backups!Mine(r) \in temporary /\ Backups!Mine(r).name = run[r].name
  BY <1>1 DEF Backups!Mine
<1>3. Backups!Mine(r) = f
  BY <1>1, <1>2
<1> QED BY <1>1, <1>2, <1>3 DEF BackupsInv, BackupsTyped

LEMMA AwayIs == Backups!Away \in BackupLocals /\ Backups!Away.at = "away" /\ Backups!Away.prune = {}
BY DEF Backups!Away, BackupLocals, BackupStages

(* Whoever goes away, with or without an error, leaves the files as they are. *)
LEMMA GoneInv ==
    ASSUME Backups!BackupAssumption, BackupsInv, NEW r \in Runs, run[r].at # "away",
           run' = [run EXCEPT ![r] = Backups!Away], lock' = Backups!Released(r),
           UNCHANGED <<files, clock, published>>, temporary' \subseteq temporary
    PROVE  BackupsInv'
<1>1. lock = r /\ lock' = "free"
  BY RunHere DEF Backups!Released
<1>2. RunOK(r, Backups!Away, lock', files', temporary')
  BY AwayIs DEF RunOK
<1>3. RunsOK' /\ run' \in [Runs -> BackupLocals]
  BY <1>1, <1>2, AwayIs, OneRuns
<1> QED BY <1>1, <1>3 DEF BackupsInv, BackupsTyped, Backups!PublishedIsGood, Backups!ForeignKept

LEMMA SetClockInv == ASSUME BackupsInv, Backups!SetClock PROVE BackupsInv'
BY DEF Backups!SetClock, BackupsInv, BackupsTyped, RunsOK, Backups!PublishedIsGood,
       Backups!ForeignKept

LEMMA BeginInv ==
    ASSUME Backups!BackupAssumption, BackupsInv, NEW r \in Runs, Backups!Begin(r)
    PROVE  BackupsInv'
<1>1. PICK n \in Backups!Names :
         /\ \A f \in files \cup temporary \cup published : f.name # n
         /\ run' = [run EXCEPT ![r] = [Backups!Away EXCEPT !.at = "copy", !.name = n]]
         /\ temporary' = temporary \cup {Backups!FileOf(n, clock, FALSE, FALSE)}
  BY DEF Backups!Begin
<1> DEFINE x == [Backups!Away EXCEPT !.at = "copy", !.name = n]
           f == Backups!FileOf(n, clock, FALSE, FALSE)
<1>2. /\ x \in BackupLocals /\ x.at = "copy" /\ x.name = n /\ x.prune = {}
      /\ f \in Backups!Files /\ f.name = n /\ ~f.source
  <2>1. n \in Nat /\ clock \in 0..MaxTime
    BY DEF Backups!Names, Backups!BackupAssumption, BackupsInv, BackupsTyped
  <2>2. x \in BackupLocals /\ x.at = "copy" /\ x.name = n /\ x.prune = {}
    BY <2>1 DEF Backups!Away, BackupLocals, BackupStages
  <2>3. f \in Backups!Files /\ f.name = n /\ ~f.source
    BY <2>1 DEF Backups!FileOf, Backups!Files
  <2> QED BY <2>2, <2>3
<1>3. lock = "free" /\ lock' = r
  BY DEF Backups!Begin, Backups!Locked
<1> HIDE DEF x, f
<1>4. RunOK(r, x, lock', files', temporary')
  BY <1>1, <1>2, <1>3 DEF RunOK, f
<1>5. RunsOK' /\ run' \in [Runs -> BackupLocals]
  BY <1>1, <1>2, <1>3, <1>4, OneRuns DEF x
<1> QED BY <1>1, <1>2, <1>3, <1>5 DEF Backups!Begin, BackupsInv, BackupsTyped,
                                      Backups!PublishedIsGood, Backups!ForeignKept, f

LEMMA CopyInv ==
    ASSUME Backups!BackupAssumption, BackupsInv, NEW r \in Runs, NEW good \in BOOLEAN,
           Backups!Copy(r, good)
    PROVE  BackupsInv'
<1> DEFINE x == [run[r] EXCEPT !.at = "verify"]
           f == Backups!FileOf(run[r].name, clock, good, FALSE)
<1>1. /\ run[r] \in BackupLocals /\ run[r].at = "copy" /\ lock = r /\ lock' = r
      /\ run[r].name \in Backups!Names /\ run[r].prune = {}
  BY RunHere DEF Backups!Copy, RunOK
<1>2. /\ x \in BackupLocals /\ x.at = "verify" /\ x.name = run[r].name /\ x.prune = {}
      /\ f \in Backups!Files /\ f.name = run[r].name /\ ~f.source
      /\ run' = [run EXCEPT ![r] = x]
  BY <1>1 DEF BackupLocals, BackupStages, Backups!FileOf, Backups!Files, BackupsInv,
              BackupsTyped, Backups!Copy, Backups!Go
<1> HIDE DEF x, f
<1>3. temporary' = Backups!OthersTemporary(r) \cup {f}
  BY DEF Backups!Copy, f
<1>4. RunOK(r, x, lock', files', temporary')
  BY <1>1, <1>2, <1>3 DEF RunOK, Backups!OthersTemporary
<1>5. RunsOK' /\ run' \in [Runs -> BackupLocals]
  BY <1>1, <1>2, <1>4, OneRuns
<1> QED BY <1>2, <1>3, <1>5 DEF Backups!Copy, Backups!OthersTemporary, BackupsInv,
                                BackupsTyped, Backups!PublishedIsGood, Backups!ForeignKept

LEMMA VerifyInv ==
    ASSUME Backups!BackupAssumption, BackupsInv, NEW r \in Runs, Backups!Verify(r)
    PROVE  BackupsInv'
<1> DEFINE x == [run[r] EXCEPT !.at = "publish"]
<1>1. /\ run[r] \in BackupLocals /\ run[r].at = "verify" /\ lock = r /\ lock' = r
      /\ run[r].name \in Backups!Names /\ run[r].prune = {}
  BY RunHere DEF Backups!Verify, RunOK
<1>2. /\ x \in BackupLocals /\ x.at = "publish" /\ x.name = run[r].name /\ x.prune = {}
      /\ run' = [run EXCEPT ![r] = x]
  BY <1>1 DEF BackupLocals, BackupStages, Backups!Verify, Backups!Go
<1> HIDE DEF x
<1>3. Backups!Mine(r).good /\ temporary' = temporary /\ files' = files
  BY DEF Backups!Verify, Backups!Verified
<1>4. RunOK(r, x, lock', files', temporary')
  BY <1>1, <1>2, <1>3, MineIs DEF RunOK
<1>5. RunsOK' /\ run' \in [Runs -> BackupLocals]
  BY <1>1, <1>2, <1>4, OneRuns
<1> QED BY <1>5 DEF Backups!Verify, BackupsInv, BackupsTyped, Backups!PublishedIsGood,
                    Backups!ForeignKept

LEMMA PublishKept ==
    ASSUME Backups!BackupAssumption, BackupsInv, NEW r \in Runs, Backups!Publish(r)
    PROVE  BackupsInv'
<1> DEFINE x == [run[r] EXCEPT !.at = "unlink"]
<1>1. /\ run[r] \in BackupLocals /\ run[r].at = "publish" /\ lock = r /\ lock' = r
      /\ run[r].name \in Backups!Names /\ run[r].prune = {}
  BY RunHere DEF Backups!Publish, RunOK
<1>2. /\ x \in BackupLocals /\ x.at = "unlink" /\ x.name = run[r].name /\ x.prune = {}
      /\ run' = [run EXCEPT ![r] = x]
  BY <1>1 DEF BackupLocals, BackupStages, Backups!Publish, Backups!Go
<1> HIDE DEF x
<1>3. /\ Backups!Mine(r) \in Backups!Files /\ Backups!Mine(r).good
      /\ ~Backups!Mine(r).source /\ Backups!Mine(r).name = run[r].name
      /\ Backups!Mine(r) \in temporary
      /\ \A g \in temporary : g.name = run[r].name => g = Backups!Mine(r)
  BY <1>1, MineIs
<1>4. files' = files \cup {Backups!Mine(r)} /\ temporary' = temporary
      /\ published' = published \cup {Backups!Mine(r)}
  BY DEF Backups!Publish
<1>5. Backups!Mine(r) \in Backups!Good(files')
  BY <1>3, <1>4 DEF Backups!Good
<1>6. RunOK(r, x, lock', files', temporary')
  BY <1>1, <1>2, <1>3, <1>4, <1>5 DEF RunOK
<1>7. RunsOK' /\ run' \in [Runs -> BackupLocals]
  BY <1>1, <1>2, <1>6, OneRuns
<1>8. IsFiniteSet(files')
  BY <1>4, FS_AddElement DEF BackupsInv, BackupsTyped
<1> QED BY <1>3, <1>4, <1>7, <1>8 DEF Backups!Publish, BackupsInv, BackupsTyped,
                                      Backups!PublishedIsGood, Backups!ForeignKept

LEMMA UnlinkInv ==
    ASSUME Backups!BackupAssumption, BackupsInv, NEW r \in Runs, Backups!Unlink(r)
    PROVE  BackupsInv'
<1> DEFINE x == [run[r] EXCEPT !.at = "list"]
<1>1. /\ run[r] \in BackupLocals /\ run[r].at = "unlink" /\ lock = r /\ lock' = r
      /\ run[r].name \in Backups!Names /\ run[r].prune = {}
      /\ \E f \in Backups!Good(files) : f.name = run[r].name
  BY RunHere DEF Backups!Unlink, RunOK
<1>2. /\ x \in BackupLocals /\ x.at = "list" /\ x.name = run[r].name /\ x.prune = {}
      /\ run' = [run EXCEPT ![r] = x]
  BY <1>1 DEF BackupLocals, BackupStages, Backups!Unlink, Backups!Go
<1> HIDE DEF x
<1>3. temporary' = Backups!OthersTemporary(r) /\ files' = files
  BY DEF Backups!Unlink
<1>4. RunOK(r, x, lock', files', temporary')
  BY <1>1, <1>2, <1>3 DEF RunOK, Backups!OthersTemporary
<1>5. RunsOK' /\ run' \in [Runs -> BackupLocals]
  BY <1>1, <1>2, <1>4, OneRuns
<1> QED BY <1>3, <1>5 DEF Backups!Unlink, Backups!OthersTemporary, BackupsInv, BackupsTyped,
                          Backups!PublishedIsGood, Backups!ForeignKept

-----------------------------------------------------------------------------
(* What pruning leaves. *)

LEMMA OlderIsStrict ==
    ASSUME NEW f \in Backups!Files, NEW g \in Backups!Files, NEW h \in Backups!Files,
           Backups!BackupAssumption
    PROVE  /\ ~Backups!Older(f, f)
           /\ Backups!Older(f, g) /\ Backups!Older(g, h) => Backups!Older(f, h)
<1>1. /\ f.stamp \in Int /\ g.stamp \in Int /\ h.stamp \in Int
      /\ f.name \in Nat /\ g.name \in Nat /\ h.name \in Nat
  BY DEF Backups!Files, Backups!BackupAssumption
<1> QED BY <1>1 DEF Backups!Older

(* Take the file to be pruned with the fewest younger ones beside it: all of
   these are kept, and they are Keep - 1 at least; the new backup makes Keep. *)
LEMMA PruningLeavesEnough ==
    ASSUME Backups!BackupAssumption, NEW r \in Runs, files \subseteq Backups!Files,
           IsFiniteSet(files),
           NEW own \in Backups!Candidates, own.name = run[r].name,
           Backups!Candidates \ Backups!Kept(r, Backups!Candidates) # {}
    PROVE  Keep <= Cardinality(Backups!Good(files) \
                               (Backups!Candidates \ Backups!Kept(r, Backups!Candidates)))
<1> DEFINE C == Backups!Candidates
           others == {f \in C : f.name # run[r].name}
           P == C \ Backups!Kept(r, C)
           Y(f) == {g \in others : Backups!Older(f, g)}
           c(f) == Cardinality(Y(f))
           rest == Backups!Good(files) \ P
<1>1. /\ C \subseteq Backups!Good(files) /\ Backups!Good(files) \subseteq files
      /\ Backups!Good(files) \subseteq Backups!Files
      /\ others \subseteq C /\ Keep \in Nat \ {0}
  BY DEF Backups!Candidates, Backups!Good, Backups!BackupAssumption
<1>2. IsFiniteSet(others) /\ IsFiniteSet(rest)
  BY <1>1, FS_Subset
<1>3. \A f : IsFiniteSet(Y(f)) /\ c(f) \in Nat
  <2> TAKE f
  <2>1. Y(f) \in SUBSET others
    OBVIOUS
  <2> HIDE DEF Y, others
  <2>2. IsFiniteSet(Y(f))
    BY <1>2, <2>1, FS_Subset
  <2> QED BY <2>2, FS_CardinalityType
<1>4. \A f \in P : f \in others /\ f \in Backups!Files /\ ~(c(f) < Keep - 1)
  BY <1>1, SameCounting DEF Backups!Kept
<1>5. \A f \in others : f \in P \/ f \in Backups!Kept(r, C)
  OBVIOUS
<1> DEFINE T == {c(f) : f \in P}
<1>6. PICK f \in P : \A g \in P : ~(c(g) < c(f))
  <2> HIDE DEF c, P
  <2>1. T \subseteq Nat /\ T # {}
    BY <1>3 DEF P
  <2> HIDE DEF T
  <2>2. PICK n \in T : \A m \in T : ~(<<m, n>> \in OpToRel(<, Nat))
    BY <2>1, NatLessThanWellFounded, WFMin, Zenon
  <2>3. \A m \in T : ~(m < n)
    BY <2>1, <2>2 DEF OpToRel
  <2> QED BY <2>2, <2>3 DEF T
<1>7. Y(f) \cap P = {}
  <2> SUFFICES ASSUME NEW g \in Y(f), g \in P PROVE FALSE
    OBVIOUS
  <2>1. /\ f \in Backups!Files /\ g \in Backups!Files /\ Backups!Older(f, g)
        /\ g \notin Y(g) /\ Y(g) \subseteq Y(f)
    <3>1. /\ f \in Backups!Files /\ g \in Backups!Files /\ Backups!Older(f, g)
          /\ others \subseteq Backups!Files
      BY <1>1, <1>4
    <3> QED BY <3>1, OlderIsStrict
  <2> HIDE DEF Y, P, others
  <2>2. c(g) <= c(f) /\ (c(g) = c(f) => Y(g) = Y(f))
    BY <1>3, <2>1, FS_Subset
  <2>3. c(g) < c(f)
    BY <1>3, <2>1, <2>2
  <2> QED BY <1>6, <2>3
<1>8. Y(f) \cup {own} \subseteq rest /\ own \notin Y(f)
  <2>1. own \notin P /\ own \in C
    BY DEF Backups!Kept
  <2>2. Y(f) \subseteq C
    OBVIOUS
  <2> QED BY <1>1, <1>7, <2>1, <2>2
<1>9. ~(c(f) < Keep - 1) /\ c(f) \in Nat /\ IsFiniteSet(Y(f))
  BY <1>3, <1>4
<1> HIDE DEF Y, P, C, others, rest
<1>10. Cardinality(Y(f) \cup {own}) = c(f) + 1 /\ IsFiniteSet(Y(f) \cup {own})
  BY <1>8, <1>9, FS_AddElement
<1>11. Cardinality(Y(f) \cup {own}) <= Cardinality(rest) /\ Cardinality(rest) \in Nat
  BY <1>2, <1>8, FS_Subset, FS_CardinalityType
<1>12. Keep <= Cardinality(rest)
  <2> HIDE DEF c
  <2> QED BY <1>1, <1>9, <1>10, <1>11
<1> QED BY <1>12 DEF rest, P, C

LEMMA ListInv ==
    ASSUME Backups!BackupAssumption, BackupsInv, NEW r \in Runs, Backups!List(r)
    PROVE  BackupsInv'
<1> DEFINE P == Backups!Candidates \ Backups!Kept(r, Backups!Candidates)
           x == [run[r] EXCEPT !.at = "prune", !.prune = P]
<1>1. /\ run[r] \in BackupLocals /\ run[r].at = "list" /\ lock = r /\ lock' = r
      /\ run[r].name \in Backups!Names
      /\ \A f \in temporary : f.name # run[r].name
  BY RunHere DEF Backups!List, RunOK
<1>2. PICK own \in Backups!Good(files) : own.name = run[r].name
  BY <1>1, RunHere DEF RunOK
<1>3. /\ \A f \in P : f \in Backups!Good(files) /\ f.name # run[r].name
      /\ P \subseteq Backups!Files /\ files \subseteq Backups!Files /\ IsFiniteSet(files)
      /\ own \in Backups!Candidates
  BY <1>1, <1>2 DEF Backups!Candidates, Backups!Kept, Backups!Good, BackupsInv, BackupsTyped
<1>4. P # {} => Keep <= Cardinality(Backups!Good(files) \ P)
  BY <1>2, <1>3, PruningLeavesEnough
<1> HIDE DEF P
<1>5. /\ x \in BackupLocals /\ x.at = "prune" /\ x.name = run[r].name /\ x.prune = P
  BY <1>1, <1>3 DEF BackupLocals, BackupStages
<1>6. run' = [run EXCEPT ![r] = x] /\ UNCHANGED <<files, temporary, lock, clock, published>>
  BY <1>1 DEF Backups!List, P, BackupsInv, BackupsTyped, BackupLocals
<1> HIDE DEF x
<1>7. RunOK(r, x, lock', files', temporary')
  BY <1>1, <1>2, <1>3, <1>4, <1>5, <1>6 DEF RunOK
<1>8. RunsOK' /\ run' \in [Runs -> BackupLocals]
  BY <1>1, <1>5, <1>6, <1>7, OneRuns
<1> QED BY <1>6, <1>8 DEF BackupsInv, BackupsTyped, Backups!PublishedIsGood, Backups!ForeignKept

(* One file goes, or cannot be removed: what is not to be pruned is there. *)
LEMMA PruneInv ==
    ASSUME Backups!BackupAssumption, BackupsInv, NEW r \in Runs, Backups!Prune(r)
    PROVE  /\ BackupsInv' /\ Backups!Good(files) \ run[r].prune \subseteq Backups!Good(files')
           /\ Keep <= Cardinality(Backups!Good(files'))
<1>1. /\ run[r] \in BackupLocals /\ run[r].at = "prune" /\ lock = r /\ lock' = r
      /\ run[r].name \in Backups!Names /\ \A f \in temporary : f.name # run[r].name
      /\ \A f \in run[r].prune : f \in Backups!Good(files) /\ f.name # run[r].name
  BY RunHere DEF Backups!Prune, RunOK
<1>2. PICK own \in Backups!Good(files) : own.name = run[r].name
  BY <1>1, RunHere DEF RunOK
<1>3. PICK f \in run[r].prune : /\ run' = [run EXCEPT ![r].prune = @ \ {f}]
                                /\ files' \in {files, files \ {f}}
  BY DEF Backups!Prune
<1> DEFINE x == [run[r] EXCEPT !.prune = @ \ {f}]
           rest == Backups!Good(files) \ run[r].prune
<1>4. /\ x \in BackupLocals /\ x.at = "prune" /\ x.name = run[r].name
      /\ x.prune = run[r].prune \ {f} /\ run' = [run EXCEPT ![r] = x]
  BY <1>1, <1>3 DEF BackupLocals, BackupStages
<1>5. Keep <= Cardinality(rest) /\ Keep \in Nat
  BY <1>3, RunHere DEF RunOK, Backups!BackupAssumption
<1>6. /\ files' \subseteq files /\ IsFiniteSet(files') /\ IsFiniteSet(Backups!Good(files'))
      /\ IsFiniteSet(Backups!Good(files') \ x.prune)
  <2>1. files' \subseteq files /\ IsFiniteSet(files)
    BY <1>3 DEF BackupsInv, BackupsTyped
  <2>2. IsFiniteSet(files')
    BY <2>1, FS_Subset
  <2>3. Backups!Good(files') \in SUBSET files' /\ Backups!Good(files') \ x.prune \in SUBSET files'
    BY DEF Backups!Good
  <2> QED BY <2>1, <2>2, <2>3, FS_Subset
<1>7. /\ rest \subseteq Backups!Good(files') /\ rest \subseteq Backups!Good(files') \ x.prune
      /\ own \in Backups!Good(files')
      /\ \A g \in x.prune : g \in Backups!Good(files')
  BY <1>1, <1>2, <1>3, <1>4 DEF Backups!Good
<1> HIDE DEF x, rest
<1>8. /\ Keep <= Cardinality(Backups!Good(files'))
      /\ Keep <= Cardinality(Backups!Good(files') \ x.prune)
  <2>1. /\ Cardinality(rest) <= Cardinality(Backups!Good(files'))
        /\ Cardinality(rest) <= Cardinality(Backups!Good(files') \ x.prune)
    BY <1>6, <1>7, FS_Subset
  <2>2. /\ Cardinality(rest) \in Nat /\ Cardinality(Backups!Good(files')) \in Nat
        /\ Cardinality(Backups!Good(files') \ x.prune) \in Nat
    BY <1>6, <1>7, FS_Subset, FS_CardinalityType
  <2> QED BY <1>5, <2>1, <2>2
<1>9. UNCHANGED <<temporary, lock, clock, published>>
  BY DEF Backups!Prune
<1>10. RunOK(r, x, lock', files', temporary')
  BY <1>1, <1>2, <1>4, <1>7, <1>8, <1>9 DEF RunOK
<1>11. RunsOK' /\ run' \in [Runs -> BackupLocals]
  BY <1>1, <1>4, <1>10, OneRuns
<1>12. Backups!PublishedIsGood' /\ Backups!ForeignKept'
  BY <1>1, <1>3 DEF BackupsInv, Backups!PublishedIsGood, Backups!ForeignKept, Backups!Good
<1>13. BackupsInv'
  BY <1>6, <1>9, <1>11, <1>12 DEF BackupsInv, BackupsTyped
<1> QED BY <1>7, <1>8, <1>13 DEF rest

-----------------------------------------------------------------------------
(* Every step. *)

LEMMA BackupsStarted == Backups!BackupAssumption /\ Backups!Init => BackupsInv
<1> SUFFICES ASSUME Backups!BackupAssumption, Backups!Init PROVE BackupsInv
  OBVIOUS
<1>1. BackupsTyped
  BY AwayIs, SameCounting DEF Backups!Init, BackupsTyped, Backups!BackupAssumption
<1>2. RunsOK
  BY AwayIs DEF Backups!Init, RunsOK, RunOK
<1> QED BY <1>1, <1>2 DEF Backups!Init, BackupsInv, Backups!PublishedIsGood, Backups!ForeignKept

(* A step that changes files leaves enough good ones, or takes none away. *)
LEMMA BackupStepKept ==
    ASSUME Backups!BackupAssumption, BackupsInv, [Backups!Next]_(Backups!vars)
    PROVE  /\ BackupsInv'
           /\ \/ Backups!Good(files) \subseteq Backups!Good(files')
              \/ Keep <= Cardinality(Backups!Good(files'))
<1> DEFINE Goal == /\ BackupsInv'
                   /\ \/ Backups!Good(files) \subseteq Backups!Good(files')
                      \/ Keep <= Cardinality(Backups!Good(files'))
<1>1. CASE UNCHANGED Backups!vars
  BY <1>1 DEF Backups!vars, BackupsInv, BackupsTyped, RunsOK, Backups!PublishedIsGood,
              Backups!ForeignKept
<1>2. CASE Backups!SetClock
  BY <1>2, SetClockInv DEF Backups!SetClock
<1>3. ASSUME NEW r \in Runs, Backups!create_backup(r) PROVE Goal
  <2>1. CASE Backups!Begin(r)
    BY <2>1, BeginInv DEF Backups!Begin
  <2>2. ASSUME NEW good \in BOOLEAN, Backups!Copy(r, good) PROVE Goal
    BY <2>2, CopyInv DEF Backups!Copy
  <2>3. CASE Backups!Verify(r)
    BY <2>3, VerifyInv DEF Backups!Verify
  <2>4. CASE Backups!Publish(r)
    BY <2>4, PublishKept DEF Backups!Publish, Backups!Good
  <2>5. CASE Backups!Unlink(r)
    BY <2>5, UnlinkInv DEF Backups!Unlink
  <2>6. CASE Backups!List(r)
    BY <2>6, ListInv DEF Backups!List
  <2>7. CASE Backups!Prune(r)
    BY <2>7, PruneInv
  <2>8. CASE Backups!Finish(r)
    BY <2>8, GoneInv DEF Backups!Finish
  <2>9. CASE Backups!Fail(r)
    <3>1. temporary' \subseteq temporary
      BY <2>9 DEF Backups!Fail, Backups!OthersTemporary
    <3> QED BY <2>9, <3>1, GoneInv DEF Backups!Fail
  <2>10. CASE Backups!Crash(r)
    BY <2>10, GoneInv DEF Backups!Crash
  <2> HIDE DEF Goal
  <2> QED BY <1>3, <2>1, <2>2, <2>3, <2>4, <2>5, <2>6, <2>7, <2>8, <2>9, <2>10
          DEF Backups!create_backup
<1> QED BY <1>1, <1>2, <1>3 DEF Backups!Next

LEMMA BackupsShown ==
    BackupsInv => /\ Backups!TypeOK /\ Backups!PublishedIsGood
                  /\ Backups!ForeignKept /\ Backups!OwnKept
<1> SUFFICES ASSUME BackupsInv PROVE Backups!TypeOK /\ Backups!OwnKept
  BY DEF BackupsInv
<1>1. Backups!TypeOK
  BY DEF Backups!TypeOK, BackupsInv, BackupsTyped, RunsOK, RunOK, Backups!Good
<1>2. Backups!OwnKept
  BY DEF Backups!OwnKept, BackupsInv, RunsOK, RunOK, Backups!Good
<1> QED BY <1>1, <1>2

LEMMA EnoughStep ==
    ASSUME Backups!BackupAssumption, BackupsInv, [Backups!Next]_(Backups!vars)
    PROVE  Backups!EnoughLeft
BY BackupStepKept, SameCounting DEF Backups!EnoughLeft

-----------------------------------------------------------------------------
(* In the scenes of the run one of the parts moves at a time. *)

LEMMA BackupSettings == Backups!BackupAssumption
BY BackupsAssumption

LEMMA BackupsStart == MCInit => BackupsInv
BY SMT, BackupSettings, BackupsStarted DEF MCInit

LEMMA StepOfBackups ==
    [MCNext]_<<used, vars, backup, cache>> => [Backups!Next]_backup
BY DEF MCNext, backup

LEMMA BackupsKept ==
    /\ BackupsInv /\ [Backups!Next]_backup => BackupsInv'
    /\ BackupsInv => BackupsAreSafe
<1>1. BackupsInv /\ [Backups!Next]_backup => BackupsInv'
  BY SMT, BackupSettings, BackupStepKept DEF backup, Backups!vars
<1>2. BackupsInv => BackupsAreSafe
  BY SMT, BackupSettings, BackupsShown DEF BackupsAreSafe
<1> QED BY <1>1, <1>2

(* For any runs, number to keep and files found: whatever bears the name of a
   backup was verified before it got it, wherever a run failed or died; neither
   the archive nor a file that is no verified backup is pruned; and a run never
   prunes the backup it has just made, however the clock stands (create_backup,
   prune_backups). *)
THEOREM BackupsSafeInRun == MCSpec => []BackupsAreSafe
<1>1. BackupsInv /\ [MCNext]_<<used, vars, backup, cache>> => BackupsInv'
  BY StepOfBackups, BackupsKept
<1>2. BackupsInv => BackupsAreSafe
  BY BackupsKept
<1> QED BY <1>1, <1>2, BackupsStart, PTL DEF MCSpec

(* A step loses no good backup or leaves Keep of them: a file is pruned only
   while Keep others stay, also when the clock has been set back between them
   or some cannot be removed (prune_backups). *)
THEOREM BackupsEnoughInRun == MCSpec => EnoughBackups
<1>1. BackupsInv /\ [MCNext]_<<used, vars, backup, cache>> => BackupsInv'
  BY StepOfBackups, BackupsKept
<1>2. BackupsInv /\ [MCNext]_<<used, vars, backup, cache>>
        => [Backups!EnoughLeft]_<<used, vars, backup, cache>>
  <2> SUFFICES ASSUME BackupsInv, [MCNext]_<<used, vars, backup, cache>>
               PROVE  Backups!EnoughLeft
    OBVIOUS
  <2>1. [Backups!Next]_(Backups!vars)
    BY StepOfBackups DEF backup, Backups!vars
  <2> QED BY SMT, <2>1, BackupSettings, EnoughStep
<1> QED BY <1>1, <1>2, BackupsStart, PTL DEF MCSpec, EnoughBackups

-----------------------------------------------------------------------------
(* The requests that read the archive: how a name comes to stand for one
   content, and why who shares a value is entitled to it. *)

ReadStages == {"observe", "open", "pin", "begin", "pinned", "look up", "wait", "compute", "done", "failed"}

RevisionNames == {Cache!NoName} \cup ((Nat \X Nat) \X Nat \X Nat)

Reads == Nat \X Nat

NamedReads == RevisionNames \X Reads

Snapshots == [stage : ReadStages, expected : RevisionNames, before : RevisionNames,
              name : RevisionNames, file : Nat, content : Reads,
              future : Requests \cup {Cache!None}, result : Reads]

Looks == [phase : {Cache!None, "observe", "before", "after"}, step : 0..6, attempt : Nat,
          before : Nat \X Nat, observed : Nat \X Nat, version : Nat, stable : BOOLEAN]

ArchiveTyped ==
    /\ revisions \in Seq([stamp : Nat, commits : Nat]) /\ Len(revisions) \in Nat \ {0}
    /\ writing \in 0..Cache!Path

ObserverTyped ==
    /\ observer \in [file : Nat, identity : Nat, token : Nat, base : Nat] /\ tokens \in Nat
    /\ holder \in Requests \cup {Cache!None} /\ look \in Looks

CacheTyped ==
    /\ ArchiveTyped /\ ObserverTyped
    /\ req \in [Requests -> Snapshots]
    /\ values \in Seq(NamedReads)
    /\ named \subseteq NamedReads

(* The observer counts the commits of one file from when it was opened. *)
ObserverOK ==
    observer = Cache!NoObserver \/
        /\ observer.file \in 1..Cache!Path /\ observer.identity \in 1..observer.file
        /\ observer.token \in 1..tokens
        /\ observer.base <= revisions[observer.file].commits

(* A name given by the present observer is one of its file, at a commit that
   has been; a name of another is never given again. *)
GoodName(n, fs, ob, last) ==
    n # Cache!NoName =>
        /\ n[1][1] \in 1..Len(fs) /\ n[2] \in 1..last
        /\ n[2] = ob.token => n[1][1] = ob.file /\ ob.base + n[3] <= fs[ob.file].commits

NameOK(n) == GoodName(n, revisions, observer, tokens)

(* What a request reads is not older than what it expects. *)
ReadOK(r) ==
    LET q == req[r] IN
    /\ NameOK(q.expected)
    /\ q.stage \in {"begin", "pinned"} => holder = r
    /\ q.stage \in {"pin", "begin", "pinned"} =>
           /\ q.file \in 1..Cache!Path
           /\ q.expected # Cache!NoName => q.expected[1][1] <= q.file
           /\ q.content # Cache!NoContent =>
                  /\ q.content[1] = q.file /\ q.content[2] <= revisions[q.file].commits
                  /\ q.expected # Cache!NoName /\ q.expected[2] = observer.token
                     /\ q.expected[1][1] = q.file
                         => observer.base + q.expected[3] <= q.content[2]
    /\ q.stage = "pinned" => q.content # Cache!NoContent

ReadsOK == \A r \in Requests : ReadOK(r)

(* What a look sees is not older than what its request has pinned. *)
LookOK ==
    look = Cache!NoLook \/
        /\ holder \in Requests /\ look.step \in 1..6
        /\ <<look.phase, req[holder].stage>>
               \in {<<"observe", "observe">>, <<"before", "pin">>, <<"after", "pinned">>}
        /\ look.step >= 2 => look.before[1] \in 1..Cache!Path
        /\ look.step >= 3 => observer # Cache!NoObserver /\ observer.identity = look.before[1]
        /\ look.step >= 4 =>
               /\ observer.base + look.version <= revisions[observer.file].commits
               /\ look.phase = "after" /\ observer.file = req[holder].file
                      => req[holder].content[2] <= observer.base + look.version

NamedOK ==
    \A x \in named :
        /\ x[1] # Cache!NoName /\ NameOK(x[1])
        /\ x[1][2] = observer.token => x[2] = <<observer.file, observer.base + x[1][3]>>

NamesOK == NamedOK /\ Cache!NamesTellApart /\ named \subseteq NamedReads

NamingInv == CacheTyped /\ ObserverOK /\ ReadsOK /\ LookOK /\ NamedOK /\ Cache!NamesTellApart

(* Who shares a value is entitled to it by its own name. *)
ShareOK(r) ==
    LET q == req[r] IN
    /\ q.stage \in {"look up", "wait", "compute", "done"} /\ q.name # Cache!NoName
           => <<q.name, q.content>> \in named
    /\ q.stage = "compute" => q.name \in DOMAIN pending /\ pending[q.name] = r
    /\ q.stage = "wait" =>
           /\ q.name # Cache!NoName /\ q.future \in Requests /\ req[q.future].name = q.name
           /\ req[q.future].stage \in {"compute", "done", "failed"}
    /\ q.stage = "done" => q.result = q.content

SharesOK == \A r \in Requests : ShareOK(r)

PendingOK ==
    \A k \in DOMAIN pending :
        /\ k # Cache!NoName /\ pending[k] \in Requests
        /\ req[pending[k]].stage = "compute" /\ req[pending[k]].name = k

ValuesOK(s) ==
    /\ Len(s) <= MaxEntries
    /\ \A i \in 1..Len(s) : s[i] \in named
    /\ \A i, j \in 1..Len(s) : s[i][1] = s[j][1] => i = j

SharingInv ==
    /\ SharesOK /\ PendingOK /\ ValuesOK(values)
    /\ \A i \in 1..Len(values) : values[i][1] \notin DOMAIN pending

CacheInv == NamingInv /\ SharingInv

-----------------------------------------------------------------------------
(* Commits only add to what can be seen. *)
ArchiveGrows ==
    /\ revisions' \in Seq([stamp : Nat, commits : Nat]) /\ Len(revisions) <= Len(revisions')
    /\ \A i \in 1..Len(revisions) : revisions[i].commits <= revisions'[i].commits

(* The observer stays, is given up, or is replaced by one with a new token. *)
Onwards ==
    /\ ArchiveTyped /\ ArchiveTyped' /\ ObserverTyped /\ ObserverTyped' /\ ObserverOK
    /\ ArchiveGrows /\ tokens <= tokens'
    /\ observer' = observer \/ observer'.token = 0 \/ observer'.token = tokens + 1

LEMMA FileAt ==
    ASSUME ArchiveTyped, NEW i \in 1..Cache!Path
    PROVE  /\ revisions[i] \in [stamp : Nat, commits : Nat] /\ revisions[i].commits \in Nat
           /\ Cache!Path \in Nat
<1>1. revisions \in Seq([stamp : Nat, commits : Nat]) /\ i \in 1..Len(revisions) /\ Len(revisions) \in Nat
  BY DEF ArchiveTyped, Cache!Path
<1>2. revisions[i] \in [stamp : Nat, commits : Nat]
  BY <1>1, ElementOfSeq
<1> QED BY <1>1, <1>2 DEF Cache!Path

LEMMA SameArchive ==
    ASSUME ArchiveTyped, UNCHANGED Cache!archive PROVE ArchiveGrows
<1>1. revisions' = revisions /\ Cache!Path \in Nat
  BY DEF Cache!archive, ArchiveTyped, Cache!Path
<1>2. \A i \in 1..Cache!Path : revisions[i].commits \in Nat
  BY FileAt
<1> QED BY <1>1, <1>2 DEF ArchiveGrows, ArchiveTyped, Cache!Path

(* A name stays as good as it was while the observer stays or is replaced. *)
LEMMA NameKept ==
    ASSUME Onwards, NEW n \in RevisionNames, GoodName(n, revisions, observer, tokens)
    PROVE  GoodName(n, revisions', observer', tokens')
<1>0. ArchiveTyped /\ ArchiveTyped' /\ ObserverTyped /\ ObserverTyped' /\ ObserverOK /\ ArchiveGrows
  BY DEF Onwards
<1>1. CASE n = Cache!NoName
  BY <1>1 DEF GoodName, Cache!Path
<1>2. CASE n # Cache!NoName
  <2>1. n[1][1] \in 1..Cache!Path /\ n[2] \in 1..tokens /\ n[3] \in Nat
    BY <1>2 DEF GoodName, Cache!Path, RevisionNames
  <2>2. Cache!Path \in Nat /\ Cache!Path' \in Nat /\ Cache!Path <= Cache!Path' /\ tokens \in Nat
        /\ tokens' \in Nat
    BY <1>0 DEF Onwards, ArchiveTyped, ArchiveGrows, Cache!Path, ObserverTyped
  <2>6. n[1][1] \in 1..Len(revisions') /\ n[2] \in 1..tokens'
    <3>1. n[2] \in 1..tokens' /\ tokens <= tokens'
      BY <2>1, <2>2 DEF Onwards
    <3>2. n[1][1] \in 1..Cache!Path'
      BY <2>1, <2>2
    <3> QED BY <3>1, <3>2 DEF Cache!Path
  <2>3. CASE observer' = observer /\ n[2] = observer.token
    <3>1. observer.file \in 1..Cache!Path /\ observer.base \in Nat
          /\ observer.base + n[3] <= revisions[observer.file].commits
          /\ n[1][1] = observer.file
      BY <1>0, <1>2, <2>1, <2>3 DEF GoodName, Cache!Path, ObserverTyped
    <3>2. revisions[observer.file].commits <= revisions'[observer.file].commits
          /\ revisions[observer.file].commits \in Nat
      BY <1>0, <3>1, FileAt DEF ArchiveGrows, Cache!Path
    <3>3. revisions'[observer.file].commits \in Nat
      <4>1. observer.file \in 1..Cache!Path'
        BY <2>2, <3>1
      <4>2. \A i \in 1..Cache!Path' : revisions'[i] \in [stamp : Nat, commits : Nat]
        BY <1>0, ElementOfSeq DEF ArchiveTyped, Cache!Path
      <4> QED BY <4>1, <4>2
    <3> QED BY <2>1, <2>6, <2>3, <3>1, <3>2, <3>3 DEF GoodName
  <2>4. CASE observer'.token # n[2]
    BY <2>6, <2>4 DEF GoodName
  <2>5. n[2] # 0 /\ n[2] # tokens + 1
    BY <2>1, <2>2
  <2> QED BY <2>1, <2>3, <2>4, <2>5 DEF Onwards
<1> QED BY <1>1, <1>2

LEMMA CommitsStay ==
    ASSUME Onwards, NEW i \in 1..Cache!Path
    PROVE  /\ revisions[i].commits \in Nat /\ revisions'[i].commits \in Nat
           /\ revisions[i].commits <= revisions'[i].commits
           /\ Cache!Path \in Nat /\ Cache!Path' \in Nat /\ Cache!Path <= Cache!Path'
<1>1. Cache!Path \in Nat /\ Cache!Path' \in Nat /\ Cache!Path <= Cache!Path'
  BY DEF Onwards, ArchiveTyped, ArchiveGrows, Cache!Path
<1>2. revisions[i].commits \in Nat
  BY FileAt DEF Onwards
<1>3. i \in 1..Cache!Path'
  BY <1>1
<1>4. \A j \in 1..Cache!Path' : revisions'[j] \in [stamp : Nat, commits : Nat]
  BY ElementOfSeq DEF Onwards, ArchiveTyped, Cache!Path
<1>5. revisions[i].commits <= revisions'[i].commits
  BY DEF Onwards, ArchiveGrows, Cache!Path
<1> QED BY <1>1, <1>2, <1>3, <1>4, <1>5

LEMMA ReadKept ==
    ASSUME Onwards, NEW r \in Requests, req[r] \in Snapshots, ReadOK(r),
           req'[r].expected = req[r].expected, req'[r].file = req[r].file,
           req'[r].content = req[r].content,
           req'[r].stage \in {"begin", "pinned"} => holder' = r,
           req'[r].stage \in {"pin", "begin", "pinned"}
               => req[r].stage \in {"pin", "begin", "pinned"},
           req'[r].stage = "pinned" => req[r].content # Cache!NoContent
    PROVE  ReadOK(r)'
<1> DEFINE q == req[r]
<1>1. /\ q.expected \in RevisionNames /\ q.file \in Nat /\ q.content \in Nat \X Nat
      /\ GoodName(q.expected, revisions, observer, tokens)
  BY DEF Snapshots, ReadOK, Reads, NameOK
<1>2. NameOK(req[r].expected)'
  BY <1>1, NameKept DEF NameOK
<1>3. ASSUME q.stage \in {"pin", "begin", "pinned"}
      PROVE  /\ q.file \in 1..Cache!Path'
             /\ q.expected # Cache!NoName => q.expected[1][1] <= q.file
             /\ q.content # Cache!NoContent =>
                    /\ q.content[1] = q.file /\ q.content[2] <= revisions'[q.file].commits
                    /\ q.expected # Cache!NoName /\ q.expected[2] = observer'.token
                       /\ q.expected[1][1] = q.file
                           => observer'.base + q.expected[3] <= q.content[2]
  <2>1. /\ q.file \in 1..Cache!Path
        /\ q.expected # Cache!NoName => q.expected[1][1] <= q.file
        /\ q.content # Cache!NoContent =>
                    /\ q.content[1] = q.file /\ q.content[2] <= revisions[q.file].commits
                    /\ q.expected # Cache!NoName /\ q.expected[2] = observer.token
                       /\ q.expected[1][1] = q.file
                           => observer.base + q.expected[3] <= q.content[2]
    BY <1>3 DEF ReadOK
  <2>2. /\ revisions[q.file].commits \in Nat /\ revisions'[q.file].commits \in Nat
        /\ revisions[q.file].commits <= revisions'[q.file].commits
        /\ Cache!Path \in Nat /\ Cache!Path' \in Nat /\ Cache!Path <= Cache!Path'
    BY <2>1, CommitsStay
  <2>3. q.file \in 1..Cache!Path'
        /\ (q.content # Cache!NoContent => q.content[2] <= revisions'[q.file].commits)
    BY <1>1, <2>1, <2>2
  <2>4. q.expected # Cache!NoName /\ q.expected[2] = observer'.token => observer' = observer
    BY <1>1 DEF GoodName, Onwards, ObserverTyped
  <2> QED BY <2>1, <2>3, <2>4
<1> QED BY <1>2, <1>3 DEF ReadOK

LEMMA NamedKept ==
    ASSUME Onwards, NamedOK, named \subseteq NamedReads, NEW x \in named
    PROVE  /\ x[1] # Cache!NoName /\ NameOK(x[1])'
           /\ x[1][2] = observer'.token => x[2] = <<observer'.file, observer'.base + x[1][3]>>
<1>1. /\ x[1] \in RevisionNames /\ x[1] # Cache!NoName /\ GoodName(x[1], revisions, observer, tokens)
      /\ x[1][2] = observer.token => x[2] = <<observer.file, observer.base + x[1][3]>>
  BY DEF NamedOK, NameOK, NamedReads
<1>2. NameOK(x[1])'
  BY <1>1, NameKept DEF NameOK
<1>3. x[1][2] = observer'.token => observer' = observer
  BY <1>1 DEF GoodName, Onwards, ObserverTyped
<1> QED BY <1>1, <1>2, <1>3

-----------------------------------------------------------------------------
(* The monitor. *)

LEMMA ArchiveInv ==
    ASSUME NamingInv, ArchiveTyped', ArchiveGrows,
           UNCHANGED <<observer, tokens, holder, look, req, values, named>>
    PROVE  NamingInv'
<1>1. CacheTyped' /\ Onwards
  BY DEF NamingInv, CacheTyped, ObserverTyped, Onwards
<1>2. ReadsOK'
  <2>1. ASSUME NEW r \in Requests PROVE ReadOK(r)'
    <3>1. req[r] \in Snapshots /\ ReadOK(r) /\ req'[r] = req[r]
          /\ (req[r].stage \in {"begin", "pinned"} => holder' = r)
          /\ (req[r].stage = "pinned" => req[r].content # Cache!NoContent)
      BY DEF NamingInv, CacheTyped, ReadsOK, ReadOK
    <3> QED BY <1>1, <3>1, ReadKept
  <2> QED BY <2>1 DEF ReadsOK
<1>3. NamedOK'
  BY <1>1, NamedKept DEF NamingInv, NamedOK, CacheTyped
<1>4. observer = Cache!NoObserver \/
        /\ observer.file \in 1..Cache!Path /\ observer.file \in 1..Cache!Path'
        /\ revisions[observer.file].commits \in Nat /\ revisions'[observer.file].commits \in Nat
        /\ revisions[observer.file].commits <= revisions'[observer.file].commits
  <2>1. CASE observer # Cache!NoObserver
    <3>1. observer.file \in 1..Cache!Path
      BY <2>1 DEF NamingInv, ObserverOK
    <3> QED BY <1>1, <3>1, CommitsStay
  <2> QED BY <2>1
<1>5. ObserverOK'
  BY <1>4 DEF NamingInv, ObserverOK, CacheTyped, ObserverTyped
<1>6. LookOK'
  <2>1. CASE look = Cache!NoLook
    BY <2>1 DEF LookOK
  <2>2. CASE look # Cache!NoLook
    <3>1. look.before[1] \in 1..Cache!Path => look.before[1] \in 1..Cache!Path'
      BY <1>1, CommitsStay
    <3>2. look.version \in Nat /\ observer.base \in Nat
      BY DEF NamingInv, CacheTyped, ObserverTyped, Looks
    <3>3. look.step >= 4 => observer # Cache!NoObserver
      BY <2>2 DEF NamingInv, LookOK
    <3>4. observer # Cache!NoObserver /\ observer.base + look.version <= revisions[observer.file].commits
              => observer.base + look.version <= revisions'[observer.file].commits
      BY <1>4, <3>2
    <3> QED BY <2>2, <3>1, <3>3, <3>4 DEF NamingInv, LookOK
  <2> QED BY <2>1, <2>2
<1> QED BY <1>1, <1>2, <1>3, <1>5, <1>6 DEF NamingInv, Cache!NamesTellApart

LEMMA FileChanged ==
    ASSUME ArchiveTyped, NEW k \in 1..Cache!Path, NEW f \in [stamp : Nat, commits : Nat],
           revisions[k].commits <= f.commits, revisions' = [revisions EXCEPT ![k] = f],
           writing' \in 0..Cache!Path
    PROVE  ArchiveTyped' /\ ArchiveGrows
<1>1. \A i \in 1..Cache!Path : revisions[i] \in [stamp : Nat, commits : Nat]
  BY FileAt
<1>2. revisions' \in Seq([stamp : Nat, commits : Nat]) /\ Len(revisions') = Len(revisions)
      /\ \A i \in 1..Cache!Path : revisions[i].commits <= revisions'[i].commits
  BY <1>1 DEF ArchiveTyped, Cache!Path
<1> QED BY <1>2 DEF ArchiveTyped, ArchiveGrows, Cache!Path

LEMMA WriteFramesInv == ASSUME NamingInv, Cache!WriteFrames PROVE NamingInv'
<1> DEFINE f == [revisions[Cache!Path] EXCEPT !.stamp = revisions[Cache!Path].stamp + 1]
<1>1. ArchiveTyped /\ Cache!Path \in 1..Cache!Path /\ revisions[Cache!Path] \in [stamp : Nat, commits : Nat]
  BY FileAt DEF NamingInv, CacheTyped, ArchiveTyped, Cache!Path
<1>2. /\ f \in [stamp : Nat, commits : Nat] /\ revisions[Cache!Path].commits <= f.commits
      /\ revisions' = [revisions EXCEPT ![Cache!Path] = f] /\ writing' \in 0..Cache!Path
  BY <1>1 DEF Cache!WriteFrames
<1>3. ArchiveTyped' /\ ArchiveGrows
  BY <1>1, <1>2, FileChanged
<1> QED BY <1>3, ArchiveInv DEF Cache!WriteFrames, Cache!cache

LEMMA PublishInv == ASSUME NamingInv, Cache!Publish PROVE NamingInv'
<1> DEFINE f == [revisions[writing] EXCEPT !.commits = revisions[writing].commits + 1]
<1>1. ArchiveTyped /\ writing \in 1..Cache!Path /\ revisions[writing] \in [stamp : Nat, commits : Nat]
      /\ 0 \in 0..Cache!Path
  BY FileAt DEF NamingInv, CacheTyped, ArchiveTyped, Cache!Path, Cache!Publish
<1>2. /\ f \in [stamp : Nat, commits : Nat] /\ revisions[writing].commits <= f.commits
      /\ revisions' = [revisions EXCEPT ![writing] = f] /\ writing' \in 0..Cache!Path
  BY <1>1 DEF Cache!Publish
<1>3. ArchiveTyped' /\ ArchiveGrows
  BY <1>1, <1>2, FileChanged
<1> QED BY <1>3, ArchiveInv DEF Cache!Publish, Cache!cache

LEMMA ReplaceInv == ASSUME NamingInv, Cache!Replace PROVE NamingInv'
<1> DEFINE new == [stamp |-> 0, commits |-> 0]
<1>1. /\ revisions \in Seq([stamp : Nat, commits : Nat]) /\ Len(revisions) \in Nat \ {0}
      /\ new \in [stamp : Nat, commits : Nat]
      /\ revisions' = Append(revisions, new) /\ writing' = writing /\ writing \in 0..Cache!Path
  BY DEF NamingInv, CacheTyped, ArchiveTyped, Cache!Replace
<1>2. /\ revisions' \in Seq([stamp : Nat, commits : Nat]) /\ Len(revisions') = Len(revisions) + 1
      /\ \A i \in 1..Len(revisions) : revisions'[i] = revisions[i]
  <2>1. /\ Append(revisions, new) \in Seq([stamp : Nat, commits : Nat])
        /\ Len(Append(revisions, new)) = Len(revisions) + 1
        /\ \A i \in 1..Len(revisions) : Append(revisions, new)[i] = revisions[i]
    BY <1>1, AppendProperties
  <2> QED BY <1>1, <2>1
<1>3. \A i \in 1..Cache!Path : revisions[i].commits \in Nat
  BY FileAt DEF NamingInv, CacheTyped
<1>4. ArchiveTyped' /\ ArchiveGrows
  BY <1>1, <1>2, <1>3 DEF ArchiveTyped, ArchiveGrows, Cache!Path
<1> QED BY <1>4, ArchiveInv DEF Cache!Replace, Cache!cache

-----------------------------------------------------------------------------
(* Looks. *)

(* Everything but what the step of a request r says of r, the look and the
   names. *)
LEMMA RequestInv ==
    ASSUME NamingInv, UNCHANGED Cache!archive, ObserverTyped', ObserverOK', tokens <= tokens',
           observer' = observer \/ observer'.token = 0 \/ observer'.token = tokens + 1,
           NEW r \in Requests, req' \in [Requests -> Snapshots],
           \A s \in Requests \ {r} : req'[s] = req[s] /\ (holder = s => holder' = s),
           Onwards => ReadOK(r)', LookOK', values' \in Seq(NamedReads),
           named' = named \/ NamesOK'
    PROVE  NamingInv'
<1>1. ArchiveTyped' /\ ArchiveGrows
  BY SameArchive DEF NamingInv, CacheTyped, ArchiveTyped, Cache!archive, Cache!Path
<1>2. Onwards
  BY <1>1 DEF Onwards, NamingInv, CacheTyped
<1>3. ReadsOK'
  <2>1. ASSUME NEW s \in Requests \ {r} PROVE ReadOK(s)'
    <3>1. req[s] \in Snapshots /\ ReadOK(s) /\ req'[s] = req[s]
          /\ (req[s].stage \in {"begin", "pinned"} => holder' = s)
          /\ (req[s].stage = "pinned" => req[s].content # Cache!NoContent)
      BY DEF NamingInv, CacheTyped, ReadsOK, ReadOK
    <3> QED BY <1>2, <3>1, ReadKept
  <2> QED BY <1>2, <2>1 DEF ReadsOK
<1>4. NamesOK'
  <2>1. CASE named' = named
    BY <1>2, <2>1, NamedKept DEF NamingInv, NamesOK, NamedOK, Cache!NamesTellApart, CacheTyped
  <2> QED BY <2>1
<1> QED BY <1>1, <1>3, <1>4 DEF NamingInv, NamesOK, CacheTyped

(* A step of a look that goes on. *)
LEMMA LookInv ==
    ASSUME NamingInv, UNCHANGED <<Cache!archive, holder, req, values, named>>,
           ObserverTyped', ObserverOK', tokens <= tokens', NEW r \in Requests,
           observer' = observer \/ observer'.token = 0 \/ observer'.token = tokens + 1, LookOK'
    PROVE  NamingInv'
<1>1. /\ req' \in [Requests -> Snapshots] /\ values' \in Seq(NamedReads)
      /\ \A s \in Requests \ {r} : req'[s] = req[s] /\ (holder = s => holder' = s)
  BY DEF NamingInv, CacheTyped
<1>2. ASSUME Onwards PROVE ReadOK(r)'
  <2>1. req[r] \in Snapshots /\ ReadOK(r) /\ req'[r] = req[r]
        /\ (req[r].stage \in {"begin", "pinned"} => holder' = r)
        /\ (req[r].stage = "pinned" => req[r].content # Cache!NoContent)
    BY DEF NamingInv, CacheTyped, ReadsOK, ReadOK
  <2> QED BY <1>2, <2>1, ReadKept
<1> QED BY <1>1, <1>2, RequestInv

LEMMA Looking ==
    ASSUME Cache!CacheAssumption, NamingInv, NEW r \in Requests, Cache!Holds(r)
    PROVE  /\ holder = r /\ look # Cache!NoLook /\ look.step \in 1..6
           /\ look \in Looks /\ req[r] \in Snapshots
           /\ <<look.phase, req[r].stage>>
                  \in {<<"observe", "observe">>, <<"before", "pin">>, <<"after", "pinned">>}
           /\ look.step >= 2 => look.before[1] \in 1..Cache!Path
           /\ look.step >= 3 => observer # Cache!NoObserver /\ observer.identity = look.before[1]
BY DEF NamingInv, LookOK, Cache!Holds, CacheTyped, ObserverTyped

(* The observer stays and the version that was seen, or is still to be seen. *)
LEMMA QuietLookInv ==
    ASSUME Cache!CacheAssumption, NamingInv, NEW r \in Requests, Cache!Holds(r),
           UNCHANGED <<Cache!archive, holder, req, values, named, observer, tokens>>,
           look' \in Looks, look'.phase = look.phase, look'.step = look.step + 1,
           look.step \in {1, 4, 5},
           IF look.step = 1 THEN look'.before[1] \in 1..Cache!Path ELSE look'.before = look.before,
           look'.version = look.version
    PROVE  NamingInv'
<1>1. LookOK'
  <2>0. /\ holder = r /\ look # Cache!NoLook /\ look.step \in 1..6
        /\ <<look.phase, req[r].stage>>
               \in {<<"observe", "observe">>, <<"before", "pin">>, <<"after", "pinned">>}
        /\ look.step >= 2 => look.before[1] \in 1..Cache!Path
        /\ look.step >= 3 => observer # Cache!NoObserver /\ observer.identity = look.before[1]
    BY Looking
  <2>1. look.step + 1 \in 1..6 /\ look' # Cache!NoLook
    BY <2>0 DEF Cache!NoLook
  <2>2. holder' = r /\ holder' \in Requests /\ req' = req /\ observer' = observer
        /\ Cache!Path' = Cache!Path
        /\ revisions' = revisions
    BY <2>0 DEF Cache!archive, Cache!Path
  <2>3. look'.step >= 2 => look'.before[1] \in 1..Cache!Path
    BY <2>0, <2>1
  <2>4. look'.step >= 3 => observer # Cache!NoObserver /\ observer.identity = look'.before[1]
    BY <2>0, <2>1
  <2>5. look'.step >= 4 =>
           /\ observer.base + look.version <= revisions[observer.file].commits
           /\ look.phase = "after" /\ observer.file = req[holder].file
                  => req[holder].content[2] <= observer.base + look.version
    BY <2>0, <2>1 DEF NamingInv, LookOK
  <2> QED BY <2>1, <2>2, <2>3, <2>4, <2>5, <2>0 DEF LookOK
<1>2. ObserverTyped' /\ ObserverOK'
  BY DEF NamingInv, CacheTyped, ObserverTyped, ObserverOK, Cache!archive, Cache!Path
<1> QED BY <1>1, <1>2, LookInv DEF NamingInv, CacheTyped, ObserverTyped

LEMMA LookChanged ==
    ASSUME NEW x \in Looks, NEW n \in 0..6
    PROVE  /\ [x EXCEPT !.step = n] \in Looks
           /\ \A b \in Nat \X Nat : /\ [x EXCEPT !.before = b, !.step = n] \in Looks
                                    /\ [x EXCEPT !.observed = b, !.step = n] \in Looks
           /\ \A v \in Nat : [x EXCEPT !.version = v, !.step = n] \in Looks
           /\ \A t \in BOOLEAN : [x EXCEPT !.stable = t, !.step = n] \in Looks
<1>1. \A b \in Nat \X Nat : [x EXCEPT !.before = b, !.step = n] \in Looks
  BY DEF Looks
<1>2. \A v \in Nat : [x EXCEPT !.version = v, !.step = n] \in Looks
  BY DEF Looks
<1>3. \A b \in Nat \X Nat : [x EXCEPT !.observed = b, !.step = n] \in Looks
  BY DEF Looks
<1>4. \A t \in BOOLEAN : [x EXCEPT !.stable = t, !.step = n] \in Looks
  BY DEF Looks
<1>5. [x EXCEPT !.step = n] \in Looks
  BY DEF Looks
<1> QED BY <1>1, <1>2, <1>3, <1>4, <1>5

LEMMA StatInv == ASSUME Cache!CacheAssumption, NamingInv, NEW r \in Requests, Cache!Stat(r) PROVE NamingInv'
<1>1. Cache!Path \in Nat /\ Cache!Path \in 1..Cache!Path
      /\ revisions[Cache!Path] \in [stamp : Nat, commits : Nat]
  BY FileAt DEF NamingInv, CacheTyped, ArchiveTyped, Cache!Path
<1>2. Cache!Holds(r) /\ look' = [look EXCEPT !.before = Cache!archive_revision, !.step = 2] /\ look.step = 1
  BY DEF Cache!Stat
<1>3. Cache!archive_revision \in Nat \X Nat /\ Cache!archive_revision[1] = Cache!Path
  BY <1>1 DEF Cache!archive_revision
<1>4. look' \in Looks /\ look'.phase = look.phase /\ look'.step = look.step + 1
      /\ look'.before[1] \in 1..Cache!Path /\ look'.version = look.version
  <2>1. look \in Looks /\ 2 \in 0..6 /\ 5 \in 0..6
    BY <1>2, Looking
  <2>2. look' \in Looks
    BY <1>2, <1>3, <2>1, LookChanged
  <2> QED BY <1>1, <1>2, <1>3, <2>1, <2>2 DEF Looks
<1> QED BY <1>2, <1>4, QuietLookInv DEF Cache!Stat, Cache!cache

LEMMA StatAgainInv ==
    ASSUME Cache!CacheAssumption, NamingInv, NEW r \in Requests, Cache!StatAgain(r) PROVE NamingInv'
<1>1. Cache!Path \in Nat /\ Cache!Path \in 1..Cache!Path
      /\ revisions[Cache!Path] \in [stamp : Nat, commits : Nat]
  BY FileAt DEF NamingInv, CacheTyped, ArchiveTyped, Cache!Path
<1>2. Cache!Holds(r) /\ look' = [look EXCEPT !.observed = Cache!archive_revision, !.step = 5]
      /\ look.step = 4
  BY DEF Cache!StatAgain
<1>3. Cache!archive_revision \in Nat \X Nat
  BY <1>1 DEF Cache!archive_revision
<1>4. look' \in Looks /\ look'.phase = look.phase /\ look'.step = look.step + 1
      /\ look'.before = look.before /\ look'.version = look.version
  <2>1. look \in Looks /\ 2 \in 0..6 /\ 5 \in 0..6
    BY <1>2, Looking
  <2>2. look' \in Looks
    BY <1>2, <1>3, <2>1, LookChanged
  <2> QED BY <1>1, <1>2, <1>3, <2>1, <2>2 DEF Looks
<1> QED BY <1>2, <1>4, QuietLookInv DEF Cache!StatAgain, Cache!cache

LEMMA VersionAgainInv ==
    ASSUME Cache!CacheAssumption, NamingInv, NEW r \in Requests, Cache!VersionAgain(r) PROVE NamingInv'
<1> DEFINE t == look.version = Cache!data_version
<1>1. Cache!Holds(r) /\ look.step = 5 /\ look' = [look EXCEPT !.stable = t, !.step = 6] /\ t \in BOOLEAN
  BY DEF Cache!VersionAgain
<1>2. look \in Looks /\ 6 \in 0..6
  BY <1>1, Looking
<1>3. look' \in Looks /\ look'.phase = look.phase /\ look'.step = look.step + 1
      /\ look'.before = look.before /\ look'.version = look.version
  <2> HIDE DEF t
  <2>1. look' \in Looks
    BY <1>1, <1>2, LookChanged
  <2> QED BY <1>1, <1>2, <2>1 DEF Looks
<1> QED BY <1>1, <1>3, QuietLookInv DEF Cache!VersionAgain, Cache!cache

LEMMA ObserverInv ==
    ASSUME Cache!CacheAssumption, NamingInv, NEW r \in Requests, Cache!Observer(r) PROVE NamingInv'
<1>1. Cache!Holds(r) /\ look.step = 2 /\ look' = [look EXCEPT !.step = 3] /\ look \in Looks
      /\ look # Cache!NoLook /\ look.before[1] \in 1..Cache!Path
  BY Looking DEF Cache!Observer
<1>2. look' \in Looks /\ look'.step = 3 /\ look'.before = look.before /\ look'.phase = look.phase
  <2>0. 3 \in 0..6
    OBVIOUS
  <2>1. look' \in Looks
    BY <1>1, <2>0, LookChanged
  <2> QED BY <1>1, <2>1 DEF Looks
<1>3. Cache!Path \in Nat /\ Cache!Path \in 1..Cache!Path /\ revisions[Cache!Path].commits \in Nat
      /\ tokens \in Nat
  BY FileAt DEF NamingInv, CacheTyped, ArchiveTyped, ObserverTyped, Cache!Path
<1>4. /\ ObserverTyped' /\ ObserverOK' /\ tokens <= tokens'
      /\ observer' = observer \/ observer'.token = tokens + 1
      /\ observer' # Cache!NoObserver /\ observer'.identity = look'.before[1]
  <2>1. UNCHANGED <<revisions, holder>> /\ holder \in Requests \cup {Cache!None}
        /\ observer \in [file : Nat, identity : Nat, token : Nat, base : Nat]
    BY DEF Cache!Observer, Cache!archive, NamingInv, CacheTyped, ObserverTyped
  <2>2. CASE observer # Cache!NoObserver /\ observer.identity = look.before[1]
    <3>1. UNCHANGED <<observer, tokens>>
      BY <2>2 DEF Cache!Observer
    <3> QED BY <1>2, <1>3, <2>1, <2>2, <3>1
            DEF NamingInv, CacheTyped, ObserverTyped, ObserverOK, Cache!Path
  <2>3. CASE ~(observer # Cache!NoObserver /\ observer.identity = look.before[1])
    <3>1. /\ observer' = [file |-> Cache!Path, identity |-> look.before[1],
                           token |-> tokens + 1, base |-> revisions[Cache!Path].commits]
          /\ tokens' = tokens + 1
      BY <2>3 DEF Cache!Observer
    <3>2. observer'.file = Cache!Path /\ observer'.identity = look.before[1]
          /\ observer'.token = tokens + 1 /\ observer'.base = revisions[Cache!Path].commits
      BY <3>1
    <3>3. observer' \in [file : Nat, identity : Nat, token : Nat, base : Nat]
      BY <1>1, <1>3, <3>1
    <3>4. observer' # Cache!NoObserver
      BY <1>3, <3>2 DEF Cache!NoObserver
    <3>5. ObserverOK'
      BY <1>1, <1>3, <2>1, <3>1, <3>2 DEF ObserverOK, Cache!Path
    <3> QED BY <1>2, <1>3, <2>1, <3>1, <3>2, <3>3, <3>4, <3>5 DEF ObserverTyped
  <2> QED BY <2>2, <2>3
<1>5. LookOK'
  <2>1. holder' = r /\ req' = req /\ Cache!Path' = Cache!Path
    BY <1>1, Looking DEF Cache!Observer, Cache!archive, Cache!Path
  <2> QED BY <1>1, <1>2, <1>4, <2>1, Looking DEF LookOK
<1> QED BY <1>4, <1>5, LookInv DEF Cache!Observer, Cache!cache

LEMMA VersionInv ==
    ASSUME Cache!CacheAssumption, NamingInv, NEW r \in Requests, Cache!Version(r) PROVE NamingInv'
<1>1. Cache!Holds(r) /\ look.step = 3 /\ look' = [look EXCEPT !.version = Cache!data_version, !.step = 4]
      /\ look \in Looks /\ holder = r /\ look.before[1] \in 1..Cache!Path
      /\ observer # Cache!NoObserver /\ observer.identity = look.before[1]
  BY Looking DEF Cache!Version
<1>2. /\ observer.base \in Nat /\ revisions[observer.file].commits \in Nat
      /\ observer.base <= revisions[observer.file].commits
  <2>1. observer.file \in 1..Cache!Path /\ observer.base <= revisions[observer.file].commits
    BY <1>1 DEF NamingInv, ObserverOK
  <2>2. observer.base \in Nat
    BY DEF NamingInv, CacheTyped, ObserverTyped
  <2> QED BY <2>1, <2>2, FileAt DEF NamingInv, CacheTyped
<1>3. Cache!data_version \in Nat /\ observer.base + Cache!data_version = revisions[observer.file].commits
  BY <1>2 DEF Cache!data_version
<1>4. look' \in Looks /\ look'.step = 4 /\ look'.before = look.before /\ look'.phase = look.phase
      /\ look'.version = Cache!data_version
  <2> HIDE DEF Cache!data_version
  <2>0. 4 \in 0..6
    OBVIOUS
  <2>1. look' \in Looks
    BY <1>1, <1>3, <2>0, LookChanged
  <2> QED BY <1>1, <2>1 DEF Looks
<1>5. LookOK'
  <2>1. holder' = r /\ req' = req /\ Cache!Path' = Cache!Path /\ revisions' = revisions
        /\ observer' = observer
    BY <1>1 DEF Cache!Version, Cache!archive, Cache!Path
  <2>2. ASSUME look.phase = "after", observer.file = req[r].file
        PROVE  req[r].content[2] <= revisions[observer.file].commits
    <3>1. req[r].stage = "pinned"
      BY <1>1, <2>2, Looking
    <3> QED BY <2>2, <3>1 DEF NamingInv, ReadsOK, ReadOK
  <2>3. look'.step \in 1..6
    BY <1>4
  <2>4. holder = r /\ <<look.phase, req[r].stage>>
               \in {<<"observe", "observe">>, <<"before", "pin">>, <<"after", "pinned">>}
    BY <1>1, Looking
  <2>5. observer'.base + look'.version = revisions'[observer'.file].commits
        /\ revisions'[observer'.file].commits \in Nat
    BY <1>2, <1>3, <1>4, <2>1
  <2> QED BY <1>1, <1>4, <2>1, <2>2, <2>3, <2>4, <2>5 DEF LookOK
<1>6. ObserverTyped' /\ ObserverOK' /\ tokens' = tokens /\ tokens \in Nat
  BY <1>4 DEF Cache!Version, NamingInv, CacheTyped, ObserverTyped, ObserverOK, Cache!archive, Cache!Path
<1> QED BY <1>5, <1>6, LookInv DEF Cache!Version, Cache!cache

(* What an observation gives is a name of the file at the path. *)
LEMMA ObservedIs ==
    ASSUME Cache!CacheAssumption, NamingInv, NEW r \in Requests, Cache!Holds(r), look.step = 6,
           Cache!Observed # Cache!NoName
    PROVE  /\ Cache!Observed \in RevisionNames /\ Cache!Observed[1][1] = Cache!Path
           /\ Cache!Observed[2] = observer.token /\ Cache!Observed[3] = look.version
           /\ observer.token \in 1..tokens /\ observer.file = Cache!Path
           /\ look.version \in Nat /\ observer.base \in Nat
           /\ observer.base + look.version <= revisions[Cache!Path].commits
<1>1. Cache!Observed = Cache!Name /\ look.before[1] = Cache!Path
  BY DEF Cache!Observed
<1>2. /\ observer # Cache!NoObserver /\ observer.identity = look.before[1]
      /\ observer.base + look.version <= revisions[observer.file].commits
  BY DEF NamingInv, LookOK, Cache!Holds
<1>3. /\ look.version \in Nat /\ observer.base \in Nat /\ observer.token \in Nat
      /\ Cache!Path \in 1..Cache!Path /\ Cache!Path \in Nat
  BY DEF NamingInv, CacheTyped, ObserverTyped, Looks, ArchiveTyped, Cache!Path
<1>4. revisions[Cache!Path].stamp \in Nat
  BY <1>3, FileAt DEF NamingInv, CacheTyped
<1>5. Cache!archive_revision = <<Cache!Path, revisions[Cache!Path].stamp>>
      /\ Cache!archive_revision \in Nat \X Nat
  BY <1>3, <1>4 DEF Cache!archive_revision
<1>6. Cache!Name \in RevisionNames /\ Cache!Name[1][1] = Cache!Path /\ Cache!Name[2] = observer.token
      /\ Cache!Name[3] = look.version
  BY <1>3, <1>5 DEF Cache!Name, RevisionNames
<1>7. observer.file \in 1..Cache!Path /\ observer.identity \in 1..observer.file
      /\ observer.token \in 1..tokens
  BY <1>2 DEF NamingInv, ObserverOK
<1>8. observer.file = Cache!Path
  BY <1>1, <1>2, <1>3, <1>7
<1> QED BY <1>1, <1>2, <1>3, <1>6, <1>7, <1>8

LEMMA ObservedIsGood ==
    ASSUME Cache!CacheAssumption, NamingInv, NEW r \in Requests, Cache!Holds(r), look.step = 6
    PROVE  Cache!Observed \in RevisionNames /\ GoodName(Cache!Observed, revisions, observer, tokens)
<1>1. CASE Cache!Observed = Cache!NoName
  BY <1>1 DEF RevisionNames, GoodName
<1>2. CASE Cache!Observed # Cache!NoName
  <2>1. Cache!Path = Len(revisions) /\ Cache!Path \in 1..Cache!Path
    BY DEF NamingInv, CacheTyped, ArchiveTyped, Cache!Path
  <2> QED BY <1>2, <2>1, ObservedIs DEF GoodName
<1> QED BY <1>1, <1>2

LEMMA FirstLook ==
    /\ Cache!NoLook \in Looks /\ Cache!NoLook.step = 0
    /\ \A phase \in {"observe", "before", "after"}, attempt \in {1, 2} :
           LET x == [Cache!NoLook EXCEPT !.phase = phase, !.step = 1, !.attempt = attempt]
           IN  x \in Looks /\ x.phase = phase /\ x.step = 1 /\ x # Cache!NoLook
<1>1. Cache!NoLook \in Looks /\ Cache!NoLook.step = 0
  BY DEF Cache!NoLook, Looks
<1>2. ASSUME NEW phase \in {"observe", "before", "after"}, NEW attempt \in {1, 2},
             NEW x, x = [Cache!NoLook EXCEPT !.phase = phase, !.step = 1, !.attempt = attempt]
      PROVE  x \in Looks /\ x.phase = phase /\ x.step = 1 /\ x # Cache!NoLook
  <2>1. x = [phase |-> phase, step |-> 1, attempt |-> attempt, before |-> <<0, 0>>,
             observed |-> <<0, 0>>, version |-> 0, stable |-> FALSE]
    BY <1>2 DEF Cache!NoLook
  <2>2. x \in Looks
    BY <2>1 DEF Looks
  <2> QED BY <1>1, <2>1, <2>2
<1> QED BY <1>1, <1>2

(* A look that ends without a name, or with one that is not kept. *)
LEMMA AnswerInv ==
    ASSUME Cache!CacheAssumption, NamingInv, NEW r \in Requests, Cache!Holds(r), NEW name \in RevisionNames,
           Cache!Answer(r, name), UNCHANGED <<Cache!archive, values>>, ObserverTyped', ObserverOK',
           tokens' = tokens, observer' = observer \/ observer'.token = 0,
           GoodName(name, revisions, observer', tokens),
           look.phase = "after" => name = Cache!NoName \/ NamesOK'
    PROVE  NamingInv'
<1>1. /\ holder = r /\ req[r] \in Snapshots /\ ReadOK(r) /\ r # Cache!None
      /\ req \in [Requests -> Snapshots]
      /\ <<look.phase, req[r].stage>>
             \in {<<"observe", "observe">>, <<"before", "pin">>, <<"after", "pinned">>}
      /\ revisions' = revisions /\ tokens' = tokens /\ tokens \in Nat /\ Cache!NoName \in RevisionNames
  BY Looking DEF NamingInv, CacheTyped, ObserverTyped, ReadsOK, Cache!CacheAssumption, Cache!archive,
     RevisionNames
<1>2. look' = Cache!NoLook /\ holder' \in {Cache!None, r} /\ LookOK'
  BY <1>1 DEF Cache!Answer, LookOK
<1>3. CASE look.phase = "observe"
  <2>1. /\ req' = [req EXCEPT ![r].expected = name, ![r].stage = "open"] /\ named' = named
    BY <1>3 DEF Cache!Answer
  <2>2. /\ req' \in [Requests -> Snapshots] /\ \A s \in Requests \ {r} : req'[s] = req[s]
        /\ req'[r].expected = name /\ req'[r].stage = "open"
    BY <1>1, <2>1 DEF Snapshots, ReadStages
  <2>3. ReadOK(r)'
    BY <1>1, <2>2 DEF ReadOK, NameOK
  <2> QED BY <1>1, <1>2, <2>1, <2>2, <2>3, RequestInv DEF NamingInv, CacheTyped
<1>4. CASE look.phase = "before"
  <2>1. req' = [req EXCEPT ![r].before = name, ![r].stage = "begin"] /\ named' = named /\ holder' = holder
    BY <1>4 DEF Cache!Answer
  <2>2. /\ req' \in [Requests -> Snapshots] /\ \A s \in Requests \ {r} : req'[s] = req[s]
        /\ req'[r].expected = req[r].expected /\ req'[r].file = req[r].file
        /\ req'[r].content = req[r].content /\ req'[r].stage = "begin" /\ req[r].stage = "pin"
    BY <1>1, <1>4, <2>1 DEF Snapshots, ReadStages
  <2>3. Onwards => ReadOK(r)'
    BY <1>1, <2>1, <2>2, ReadKept
  <2> QED BY <1>1, <1>2, <2>1, <2>2, <2>3, RequestInv DEF NamingInv, CacheTyped
<1>5. CASE look.phase = "after"
  <2> DEFINE mine == IF Cache!Survived(r, name) THEN name ELSE Cache!NoName
  <2>1. /\ req' = [req EXCEPT ![r].name = mine, ![r].stage = "look up"]
        /\ mine = Cache!NoName => named' = named
    BY <1>5 DEF Cache!Answer
  <2>2. mine \in RevisionNames /\ (name = Cache!NoName => mine = Cache!NoName)
    BY <1>1
  <2>3. /\ req' \in [Requests -> Snapshots] /\ \A s \in Requests \ {r} : req'[s] = req[s]
        /\ req'[r].expected = req[r].expected /\ req'[r].file = req[r].file
        /\ req'[r].content = req[r].content /\ req'[r].stage = "look up"
    <3> HIDE DEF mine
    <3> QED BY <1>1, <2>1, <2>2 DEF Snapshots, ReadStages
  <2>4. Onwards => ReadOK(r)'
    BY <1>1, <2>3, ReadKept
  <2>5. named' = named \/ NamesOK'
    BY <1>5, <2>1, <2>2
  <2>6. tokens <= tokens' /\ values' \in Seq(NamedReads)
    BY <1>1 DEF NamingInv, CacheTyped
  <2>7. \A s \in Requests \ {r} : req'[s] = req[s] /\ (holder = s => holder' = s)
    BY <1>1, <2>3
  <2>8. UNCHANGED Cache!archive
    OBVIOUS
  <2> QED BY <1>1, <1>2, <2>3, <2>4, <2>5, <2>6, <2>7, <2>8, RequestInv
<1> QED BY <1>1, <1>3, <1>4, <1>5

(* A name that is kept stands for what its request has pinned: that is not
   older than what was expected, not newer than what was seen, and these are
   the same. *)
LEMMA NamedContent ==
    ASSUME Cache!CacheAssumption, NamingInv, NEW r \in Requests, Cache!Holds(r), look.step = 6,
           look.phase = "after", Cache!Survived(r, Cache!Observed)
    PROVE  /\ Cache!Observed # Cache!NoName
           /\ req[r].content = <<observer.file, observer.base + Cache!Observed[3]>>
<1> DEFINE q == req[r]
           n == Cache!Observed
<1>1. n # Cache!NoName /\ q.expected = n
  BY DEF Cache!Survived
<1>2. /\ q.stage = "pinned" /\ holder = r /\ look # Cache!NoLook /\ q \in Snapshots
  BY Looking
<1>3. /\ q.file \in 1..Cache!Path /\ q.expected[1][1] <= q.file
      /\ q.content[1] = q.file
      /\ q.expected[2] = observer.token /\ q.expected[1][1] = q.file
             => observer.base + q.expected[3] <= q.content[2]
  BY <1>1, <1>2 DEF NamingInv, ReadsOK, ReadOK
<1>4. /\ n[1][1] = Cache!Path /\ n[2] = observer.token /\ n[3] = look.version /\ observer.file = Cache!Path
      /\ look.version \in Nat /\ observer.base \in Nat
  BY <1>1, ObservedIs
<1>5. Cache!Path \in Nat /\ q.content \in Nat \X Nat
  BY <1>2 DEF NamingInv, CacheTyped, ArchiveTyped, Cache!Path, Snapshots, Reads
<1>6. q.file = Cache!Path /\ q.file = observer.file
  BY <1>1, <1>3, <1>4, <1>5
<1>7. q.content[2] <= observer.base + look.version
  BY <1>2, <1>6 DEF NamingInv, LookOK
<1>8. observer.base + look.version <= q.content[2]
  BY <1>1, <1>3, <1>4, <1>6
<1>9. q.content[2] = observer.base + look.version
  BY <1>4, <1>5, <1>7, <1>8
<1> QED BY <1>1, <1>3, <1>4, <1>5, <1>6, <1>9

LEMMA StatLastInv ==
    ASSUME Cache!CacheAssumption, NamingInv, NEW r \in Requests, Cache!StatLast(r) PROVE NamingInv'
<1>1. Cache!Holds(r) /\ look.step = 6 /\ Cache!Answer(r, Cache!Observed)
      /\ UNCHANGED <<Cache!archive, observer, tokens, Cache!cache>>
  BY DEF Cache!StatLast
<1>2. Cache!Observed \in RevisionNames /\ GoodName(Cache!Observed, revisions, observer, tokens)
  BY <1>1, ObservedIsGood
<1>3. ObserverTyped' /\ ObserverOK'
  <2>1. look' = Cache!NoLook /\ holder' \in {Cache!None, holder} /\ Cache!NoLook \in Looks
    <3>1. <<look.phase, req[r].stage>>
               \in {<<"observe", "observe">>, <<"before", "pin">>, <<"after", "pinned">>}
      BY <1>1, Looking
    <3> QED BY <1>1, <3>1, FirstLook DEF Cache!Answer
  <2> QED BY <1>1, <2>1 DEF NamingInv, CacheTyped, ObserverTyped, ObserverOK, Cache!archive, Cache!Path
<1>4. ASSUME look.phase = "after", Cache!Observed # Cache!NoName PROVE NamesOK'
  <2> DEFINE c == req[r].content
             n == Cache!Observed
  <2>1. NamesOK /\ req[r] \in Snapshots /\ c \in Reads
        /\ UNCHANGED <<revisions, observer, tokens>>
    BY <1>1, Looking DEF NamingInv, NamesOK, CacheTyped, Snapshots, Cache!archive
  <2>2. CASE ~Cache!Survived(r, Cache!Observed)
    <3>1. named' = named
      BY <1>1, <1>4, <2>2 DEF Cache!Answer
    <3> QED BY <2>1, <3>1 DEF NamesOK, NamedOK, Cache!NamesTellApart, NameOK
  <2>3. CASE Cache!Survived(r, Cache!Observed)
    <3>1. named' = named \cup {<<n, c>>}
      BY <1>1, <1>4, <2>3 DEF Cache!Answer
    <3>2. c = <<observer.file, observer.base + n[3]>>
      BY <1>1, <1>4, <2>3, NamedContent
    <3>3. n[2] = observer.token
      BY <1>1, <1>4, ObservedIs
    <3> HIDE DEF c, n
    <3>4. named' \subseteq NamedReads
      BY <1>2, <2>1, <3>1 DEF NamesOK, NamedReads, n
    <3>5. NamedOK'
      <4> SUFFICES ASSUME NEW x \in named'
                   PROVE  /\ x[1] # Cache!NoName /\ NameOK(x[1])'
                          /\ x[1][2] = observer'.token
                                 => x[2] = <<observer'.file, observer'.base + x[1][3]>>
        BY DEF NamedOK
      <4>1. CASE x \in named
        BY <2>1, <4>1 DEF NamesOK, NamedOK, NameOK
      <4>2. CASE x = <<n, c>>
        BY <1>2, <1>4, <2>1, <3>2, <4>2 DEF NameOK, n
      <4> QED BY <3>1, <4>1, <4>2
    <3>6. Cache!NamesTellApart'
      <4> SUFFICES ASSUME NEW x \in named', NEW y \in named', x[1] = y[1] PROVE x[2] = y[2]
        BY DEF Cache!NamesTellApart
      <4>1. ASSUME NEW z \in named', z[1] = n PROVE z[2] = c
        BY <2>1, <3>1, <3>2, <3>3, <4>1 DEF NamesOK, NamedOK
      <4>2. x[1] = n \/ (x \in named /\ y \in named)
        BY <3>1
      <4> QED BY <2>1, <4>1, <4>2 DEF NamesOK, Cache!NamesTellApart
    <3> QED BY <3>4, <3>5, <3>6 DEF NamesOK
  <2> QED BY <2>2, <2>3
<1>5. UNCHANGED <<Cache!archive, values>> /\ observer' = observer /\ tokens' = tokens
  BY <1>1 DEF Cache!cache
<1> QED BY <1>1, <1>2, <1>3, <1>4, <1>5, AnswerInv

LEMMA ObserverFailsInv ==
    ASSUME Cache!CacheAssumption, NamingInv, NEW r \in Requests, Cache!ObserverFails(r) PROVE NamingInv'
<1>1. /\ Cache!Holds(r) /\ observer' = Cache!NoObserver /\ Cache!NoObserver.token = 0
      /\ UNCHANGED <<Cache!archive, values>> /\ tokens' = tokens
      /\ look \in Looks /\ look.step \in 1..6 /\ holder = r
      /\ <<look.phase, req[r].stage>>
               \in {<<"observe", "observe">>, <<"before", "pin">>, <<"after", "pinned">>}
  BY Looking DEF Cache!ObserverFails, Cache!NoObserver, Cache!cache
<1>2. Cache!NoObserver \in [file : Nat, identity : Nat, token : Nat, base : Nat]
  BY DEF Cache!NoObserver
<1>3. CASE look.attempt = 1
  <2>1. look' = [Cache!BeginLook(look.phase) EXCEPT !.attempt = 2] /\ UNCHANGED <<req, holder, named>>
    BY <1>3 DEF Cache!ObserverFails
  <2>2. look' \in Looks /\ look'.step = 1 /\ look'.phase = look.phase
    <3>1. look' = [Cache!NoLook EXCEPT !.phase = look.phase, !.step = 1, !.attempt = 2]
      BY <2>1 DEF Cache!BeginLook, Cache!NoLook
    <3>2. look.phase \in {"observe", "before", "after"}
      BY <1>1
    <3> QED BY <3>1, <3>2, FirstLook
  <2>3. LookOK'
    BY <1>1, <2>1, <2>2 DEF LookOK
  <2>4. ObserverTyped' /\ ObserverOK' /\ tokens <= tokens' /\ observer'.token = 0
    BY <1>1, <1>2, <2>1, <2>2 DEF NamingInv, CacheTyped, ObserverTyped, ObserverOK
  <2> QED BY <1>1, <2>1, <2>3, <2>4, LookInv
<1>4. CASE look.attempt # 1
  <2>1. Cache!Answer(r, Cache!NoName)
    BY <1>4 DEF Cache!ObserverFails
  <2>2. look' = Cache!NoLook /\ holder' \in {Cache!None, holder} /\ Cache!NoLook \in Looks
    BY <1>1, <2>1, FirstLook DEF Cache!Answer
  <2>3. ObserverTyped' /\ ObserverOK'
    BY <1>1, <1>2, <2>2 DEF NamingInv, CacheTyped, ObserverTyped, ObserverOK
  <2>4. Cache!NoName \in RevisionNames /\ GoodName(Cache!NoName, revisions, observer', tokens)
    BY DEF RevisionNames, GoodName
  <2> QED BY <1>1, <2>1, <2>3, <2>4, AnswerInv
<1> QED BY <1>3, <1>4

-----------------------------------------------------------------------------
(* Requests. *)

(* What a request is and what its step does not touch. *)
LEMMA Requesting ==
    ASSUME Cache!CacheAssumption, NamingInv, NEW r \in Requests
    PROVE  /\ req \in [Requests -> Snapshots] /\ req[r] \in Snapshots /\ ReadOK(r) /\ r # Cache!None
           /\ holder \in Requests \cup {Cache!None} /\ look \in Looks
           /\ look # Cache!NoLook /\ holder = r => req[r].stage \in {"observe", "pin", "pinned"}
BY DEF NamingInv, CacheTyped, ObserverTyped, ReadsOK, Cache!CacheAssumption, LookOK

LEMMA BeginsLook ==
    ASSUME Cache!CacheAssumption, NamingInv, NEW r \in Requests, holder' = r,
           NEW phase \in {"observe", "before", "after"}, look' = Cache!BeginLook(phase),
           UNCHANGED <<Cache!archive, observer, tokens>>,
           <<phase, req'[r].stage>>
               \in {<<"observe", "observe">>, <<"before", "pin">>, <<"after", "pinned">>}
    PROVE  ObserverTyped' /\ ObserverOK' /\ LookOK'
<1>1. look' = [Cache!NoLook EXCEPT !.phase = phase, !.step = 1, !.attempt = 1]
  BY DEF Cache!BeginLook
<1>2. look' \in Looks /\ look'.phase = phase /\ look'.step = 1
  <2>1. 1 \in {1, 2}
    OBVIOUS
  <2>2. phase \in {"observe", "before", "after"}
    OBVIOUS
  <2> DEFINE x == [Cache!NoLook EXCEPT !.phase = phase, !.step = 1, !.attempt = 1]
  <2>3. x \in Looks /\ x.phase = phase /\ x.step = 1
    BY <2>1, <2>2, FirstLook
  <2> QED BY <1>1, <2>3
<1>3. LookOK'
  BY <1>2 DEF LookOK
<1> QED BY <1>2, <1>3 DEF NamingInv, CacheTyped, ObserverTyped, ObserverOK, Cache!archive, Cache!Path

LEMMA WaitsToLook ==
    ASSUME Cache!CacheAssumption, NamingInv, NEW r \in Requests, holder = Cache!None, holder' = r,
           NEW phase \in {"observe", "before"}, look' = Cache!BeginLook(phase),
           <<phase, req[r].stage>> \in {<<"observe", "observe">>, <<"before", "pin">>},
           UNCHANGED <<Cache!archive, observer, tokens, req, values, named>>
    PROVE  NamingInv'
<1>1. ObserverTyped' /\ ObserverOK' /\ LookOK'
  BY BeginsLook
<1>2. req' \in [Requests -> Snapshots] /\ values' \in Seq(NamedReads)
      /\ tokens <= tokens' /\ \A s \in Requests : s # Cache!None
  BY DEF NamingInv, CacheTyped, ObserverTyped, Cache!CacheAssumption
<1>3. Onwards => ReadOK(r)'
  BY Requesting, ReadKept
<1>4. \A s \in Requests \ {r} : req'[s] = req[s] /\ (holder = s => holder' = s)
  BY <1>2
<1> QED BY <1>1, <1>2, <1>3, <1>4, RequestInv

LEMMA observeInv ==
    ASSUME Cache!CacheAssumption, NamingInv, NEW r \in Requests, Cache!observe(r) PROVE NamingInv'
BY WaitsToLook DEF Cache!observe, Cache!cache

LEMMA pinInv ==
    ASSUME Cache!CacheAssumption, NamingInv, NEW r \in Requests, Cache!pin(r) PROVE NamingInv'
BY WaitsToLook DEF Cache!pin, Cache!cache

LEMMA BeginReadInv ==
    ASSUME Cache!CacheAssumption, NamingInv, NEW r \in Requests, Cache!BeginRead(r) PROVE NamingInv'
<1> DEFINE q == req[r]
           c == IF q.content = Cache!NoContent THEN Cache!Content(q.file) ELSE q.content
<1>1. /\ q.stage = "begin" /\ holder = r /\ holder' = r /\ look' = Cache!BeginLook("after")
      /\ req' = [req EXCEPT ![r].content = c, ![r].stage = "pinned"]
      /\ UNCHANGED <<Cache!archive, observer, tokens, values, named>>
  BY DEF Cache!BeginRead, Cache!cache
<1>2. /\ req \in [Requests -> Snapshots] /\ q \in Snapshots
      /\ GoodName(q.expected, revisions, observer, tokens)
      /\ q.file \in 1..Cache!Path
      /\ q.expected # Cache!NoName => q.expected[1][1] <= q.file
      /\ q.content # Cache!NoContent =>
              /\ q.content[1] = q.file /\ q.content[2] <= revisions[q.file].commits
              /\ q.expected # Cache!NoName /\ q.expected[2] = observer.token
                 /\ q.expected[1][1] = q.file
                     => observer.base + q.expected[3] <= q.content[2]
  BY <1>1, Requesting DEF ReadOK, NameOK
<1>3. /\ revisions[q.file].commits \in Nat /\ Cache!Path \in Nat
  BY <1>2, FileAt DEF NamingInv, CacheTyped
<1>4. /\ c \in Reads /\ c # Cache!NoContent
      /\ c[1] = q.file /\ c[2] <= revisions[q.file].commits
      /\ q.expected # Cache!NoName /\ q.expected[2] = observer.token /\ q.expected[1][1] = q.file
              => observer.base + q.expected[3] <= c[2]
  <2>1. CASE q.content # Cache!NoContent
    BY <1>2, <2>1 DEF Snapshots
  <2>2. CASE q.content = Cache!NoContent
    <3>1. c = <<q.file, revisions[q.file].commits>>
      BY <2>2 DEF Cache!Content
    <3>2. c \in Reads /\ c[1] = q.file /\ c[2] = revisions[q.file].commits /\ c # Cache!NoContent
      <4>1. q.file \in Nat /\ q.file # 0
        BY <1>2, <1>3
      <4> HIDE DEF c, q
      <4> QED BY <1>3, <3>1, <4>1 DEF Reads, Cache!NoContent
    <3> QED BY <1>2, <1>3, <3>2 DEF GoodName
  <2> QED BY <2>1, <2>2
<1>5. /\ req' \in [Requests -> Snapshots] /\ \A s \in Requests \ {r} : req'[s] = req[s]
      /\ req'[r].stage = "pinned" /\ req'[r].content = c
      /\ req'[r].expected = q.expected /\ req'[r].file = q.file
  <2> HIDE DEF c
  <2> QED BY <1>1, <1>2, <1>4 DEF Snapshots, ReadStages
<1>6. UNCHANGED <<revisions, observer, tokens, holder>> /\ Cache!Path' = Cache!Path
  BY <1>1 DEF Cache!archive, Cache!Path
<1> HIDE DEF c
<1>7. ReadOK(r)'
  BY <1>2, <1>4, <1>5, <1>6, <1>1 DEF ReadOK, NameOK
<1>8. ObserverTyped' /\ ObserverOK' /\ LookOK'
  BY <1>1, <1>5, BeginsLook
<1>9. tokens <= tokens' /\ values' \in Seq(NamedReads)
  BY <1>1 DEF NamingInv, CacheTyped, ObserverTyped
<1>10. \A s \in Requests \ {r} : req'[s] = req[s] /\ (holder = s => holder' = s)
  BY <1>1, <1>5
<1>11. UNCHANGED Cache!archive /\ observer' = observer /\ named' = named
  BY <1>1
<1> QED BY <1>5, <1>7, <1>8, <1>9, <1>10, <1>11, RequestInv

(* A request that is not looking leaves the looks of others alone. *)
LEMMA QuietInv ==
    ASSUME Cache!CacheAssumption, NamingInv, NEW r \in Requests,
           UNCHANGED <<Cache!archive, observer, tokens, look, named>>,
           holder' = holder \/ (holder = r /\ holder' = Cache!None),
           req[r].stage \notin {"observe", "pin", "pinned"},
           req' \in [Requests -> Snapshots], \A s \in Requests \ {r} : req'[s] = req[s],
           Onwards => ReadOK(r)', values' \in Seq(NamedReads)
    PROVE  NamingInv'
<1>1. look # Cache!NoLook => holder # r
  BY Requesting
<1>2. UNCHANGED <<revisions, observer, tokens, look>> /\ Cache!Path' = Cache!Path
  BY DEF Cache!archive, Cache!Path
<1>3. LookOK'
  <2>1. CASE look = Cache!NoLook
    BY <1>2, <2>1 DEF LookOK
  <2>2. CASE look # Cache!NoLook
    <3>1. holder' = holder /\ holder \in Requests /\ req'[holder] = req[holder]
      BY <1>1, <2>2 DEF NamingInv, LookOK
    <3> QED BY <1>2, <2>2, <3>1 DEF NamingInv, LookOK
  <2> QED BY <2>1, <2>2
<1>4. ObserverTyped' /\ ObserverOK' /\ tokens <= tokens'
  BY <1>2 DEF NamingInv, CacheTyped, ObserverTyped, ObserverOK
<1>5. \A s \in Requests \ {r} : req'[s] = req[s] /\ (holder = s => holder' = s)
  OBVIOUS
<1>6. UNCHANGED Cache!archive /\ observer' = observer /\ named' = named
  BY <1>2
<1> QED BY <1>3, <1>4, <1>5, <1>6, RequestInv

LEMMA connect_databaseInv ==
    ASSUME Cache!CacheAssumption, NamingInv, NEW r \in Requests, Cache!connect_database(r) PROVE NamingInv'
<1>1. PICK c \in {Cache!NoContent, Cache!Content(Cache!Path)} :
          /\ req[r].stage = "open"
          /\ req' = [req EXCEPT ![r].file = Cache!Path, ![r].content = c, ![r].stage = "pin"]
          /\ UNCHANGED <<Cache!archive, observer, tokens, holder, look, values, named>>
  BY DEF Cache!connect_database, Cache!cache
<1>2. /\ req \in [Requests -> Snapshots] /\ req[r] \in Snapshots
      /\ GoodName(req[r].expected, revisions, observer, tokens)
  BY Requesting DEF ReadOK, NameOK
<1>3. Cache!Path \in Nat /\ Cache!Path \in 1..Cache!Path /\ revisions[Cache!Path].commits \in Nat
      /\ Cache!Path = Len(revisions)
  BY FileAt DEF NamingInv, CacheTyped, ArchiveTyped, Cache!Path
<1>4. c \in Reads /\ (c # Cache!NoContent => c[1] = Cache!Path /\ c[2] = revisions[Cache!Path].commits)
  BY <1>3 DEF Cache!Content, Cache!NoContent, Reads
<1>5. /\ req' \in [Requests -> Snapshots] /\ \A s \in Requests \ {r} : req'[s] = req[s]
      /\ req'[r].stage = "pin" /\ req'[r].content = c
      /\ req'[r].expected = req[r].expected /\ req'[r].file = Cache!Path
  <2> HIDE DEF Cache!Path
  <2> QED BY <1>1, <1>2, <1>3, <1>4 DEF Snapshots, ReadStages
<1>6. UNCHANGED <<revisions, observer, tokens, holder>> /\ Cache!Path' = Cache!Path
  BY <1>1 DEF Cache!archive, Cache!Path
<1>7. ReadOK(r)'
  <2>1. req[r].expected # Cache!NoName =>
            /\ req[r].expected[1][1] \in 1..Cache!Path
            /\ req[r].expected[2] = observer.token =>
                   /\ req[r].expected[1][1] = observer.file
                   /\ observer.base + req[r].expected[3] <= revisions[observer.file].commits
    BY <1>2, <1>3 DEF GoodName
  <2> QED BY <1>2, <1>3, <1>4, <1>5, <1>6, <2>1 DEF ReadOK, NameOK
<1>8. values' \in Seq(NamedReads) /\ req[r].stage = "open"
      /\ UNCHANGED <<Cache!archive, observer, tokens, look, named>>
  BY <1>1 DEF NamingInv, CacheTyped
<1> QED BY <1>5, <1>6, <1>7, <1>8, QuietInv

(* A step that changes no more of a request than how far it is, what it waits
   for and what it has got. *)
LEMMA GoesOn ==
    ASSUME Cache!CacheAssumption, NamingInv, NEW r \in Requests,
           req[r].stage \notin {"observe", "pin", "pinned"},
           UNCHANGED <<Cache!archive, observer, tokens, look, named>>,
           holder' = holder \/ (holder = r /\ holder' = Cache!None),
           req' \in [Requests -> Snapshots], \A s \in Requests \ {r} : req'[s] = req[s],
           req'[r].stage \in {"wait", "compute", "done", "failed"},
           req'[r].content = req[r].content, req'[r].expected = req[r].expected,
           req'[r].file = req[r].file, values' \in Seq(NamedReads)
    PROVE  NamingInv'
<1>1. Onwards => ReadOK(r)'
  BY Requesting, ReadKept
<1> QED BY <1>1, QuietInv

(* The same of a step as it is written. *)
LEMMA Moves ==
    ASSUME Cache!CacheAssumption, NamingInv, NEW r \in Requests,
           NEW stage \in {"wait", "compute", "done", "failed"},
           \/ req' = [req EXCEPT ![r].stage = stage]
           \/ \E s \in Requests : req' = [req EXCEPT ![r].stage = stage, ![r].future = s]
           \/ \E c \in Reads : req' = [req EXCEPT ![r].stage = stage, ![r].result = c]
    PROVE  /\ req' \in [Requests -> Snapshots] /\ \A s \in Requests \ {r} : req'[s] = req[s]
           /\ req'[r].stage = stage /\ req'[r].content = req[r].content /\ req'[r].name = req[r].name
           /\ req'[r].expected = req[r].expected /\ req'[r].file = req[r].file
<1>1. req \in [Requests -> Snapshots] /\ req[r] \in Snapshots
  BY Requesting
<1>2. stage \in ReadStages
  BY DEF ReadStages
<1> QED BY <1>1, <1>2 DEF Snapshots

-----------------------------------------------------------------------------
(* The least recently used values. *)

Distinct(s) == \A i, j \in 1..Len(s) : s[i][1] = s[j][1] => i = j

LEMMA RemovedAt ==
    ASSUME NEW S, NEW s \in Seq(S), NEW i \in 1..Len(s)
    PROVE  /\ Cache!RemoveAt(s, i) \in Seq(S) /\ Len(Cache!RemoveAt(s, i)) = Len(s) - 1
           /\ \A j \in 1..Len(s) - 1 : Cache!RemoveAt(s, i)[j] = IF j < i THEN s[j] ELSE s[j + 1]
<1> DEFINE a == SubSeq(s, 1, i - 1)
           b == SubSeq(s, i + 1, Len(s))
<1>1. Len(s) \in Nat /\ i \in Int /\ \A j \in 1..Len(s) : s[j] \in S
  BY ElementOfSeq
<1>2. /\ a \in Seq(S) /\ Len(a) = i - 1 /\ \A j \in 1..i - 1 : a[j] = s[j]
  <2>1. 1 \in Int /\ i - 1 \in Int /\ \A j \in 1..i - 1 : s[j] \in S
    BY <1>1
  <2>2. /\ a \in Seq(S) /\ Len(a) = (IF 1 <= i - 1 THEN i - 1 - 1 + 1 ELSE 0)
        /\ \A j \in 1..i - 1 - 1 + 1 : a[j] = s[1 + j - 1]
    BY <2>1, SubSeqProperties
  <2> HIDE DEF a
  <2> QED BY <1>1, <2>2
<1>3. /\ b \in Seq(S) /\ Len(b) = Len(s) - i /\ \A j \in 1..Len(s) - i : b[j] = s[i + j]
  <2>1. i + 1 \in Int /\ Len(s) \in Int /\ \A j \in i + 1..Len(s) : s[j] \in S
    BY <1>1
  <2>2. /\ b \in Seq(S) /\ Len(b) = (IF i + 1 <= Len(s) THEN Len(s) - (i + 1) + 1 ELSE 0)
        /\ \A j \in 1..Len(s) - (i + 1) + 1 : b[j] = s[i + 1 + j - 1]
    BY <2>1, SubSeqProperties
  <2> HIDE DEF b
  <2>3. Len(b) = Len(s) - i /\ Len(s) - (i + 1) + 1 = Len(s) - i
    BY <1>1, <2>2
  <2>4. ASSUME NEW j \in 1..Len(s) - i PROVE b[j] = s[i + j]
    <3>1. i + 1 + j - 1 = i + j
      BY <1>1
    <3> QED BY <2>2, <2>3, <3>1
  <2> QED BY <2>2, <2>3, <2>4
<1>4. /\ a \o b \in Seq(S) /\ Len(a \o b) = Len(a) + Len(b)
      /\ \A j \in 1..Len(a) + Len(b) : (a \o b)[j] = IF j <= Len(a) THEN a[j] ELSE b[j - Len(a)]
  BY <1>2, <1>3, ConcatProperties
<1>5. Cache!RemoveAt(s, i) = a \o b
  BY DEF Cache!RemoveAt
<1> HIDE DEF a, b
<1>6. ASSUME NEW j \in 1..Len(s) - 1
      PROVE  (a \o b)[j] = IF j < i THEN s[j] ELSE s[j + 1]
  <2>1. CASE j < i
    BY <1>1, <1>2, <1>3, <1>4, <2>1
  <2>2. CASE ~(j < i)
    <3>1. j - Len(a) \in 1..Len(s) - i /\ i + (j - Len(a)) = j + 1
      BY <1>1, <1>2, <2>2
    <3>2. (a \o b)[j] = b[j - Len(a)]
      BY <1>1, <1>2, <1>3, <1>4, <2>2
    <3> QED BY <1>3, <2>2, <3>1, <3>2
  <2> QED BY <2>1, <2>2
<1> QED BY <1>1, <1>2, <1>3, <1>4, <1>5, <1>6

(* A value that is served becomes the most recently used. *)
LEMMA Touched ==
    ASSUME NEW S, NEW s \in Seq(S), NEW i \in 1..Len(s)
    PROVE  LET t == Append(Cache!RemoveAt(s, i), s[i])
           IN  /\ t \in Seq(S) /\ Len(t) = Len(s)
               /\ \A j \in 1..Len(t) : \E k \in 1..Len(s) : t[j] = s[k]
               /\ Distinct(s) => Distinct(t)
<1> DEFINE t == Append(Cache!RemoveAt(s, i), s[i])
<1> DEFINE u == Cache!RemoveAt(s, i)
           p(j) == IF j = Len(s) THEN i ELSE IF j < i THEN j ELSE j + 1
<1>1. /\ u \in Seq(S) /\ Len(u) = Len(s) - 1 /\ Len(s) \in Nat /\ s[i] \in S
      /\ \A j \in 1..Len(s) - 1 : u[j] = IF j < i THEN s[j] ELSE s[j + 1]
  BY RemovedAt, ElementOfSeq
<1>2. /\ Append(u, s[i]) \in Seq(S) /\ Len(Append(u, s[i])) = Len(u) + 1
      /\ \A j \in 1..Len(u) : Append(u, s[i])[j] = u[j]
      /\ Append(u, s[i])[Len(u) + 1] = s[i]
  BY <1>1, AppendProperties
<1>3. t = Append(u, s[i])
  OBVIOUS
<1> HIDE DEF u, t
<1>4. t \in Seq(S) /\ Len(t) = Len(s)
  BY <1>1, <1>2, <1>3
<1>5. ASSUME NEW j \in 1..Len(s)
      PROVE  p(j) \in 1..Len(s) /\ t[j] = s[p(j)]
  <2>1. CASE j = Len(s)
    BY <1>1, <1>2, <1>3, <2>1
  <2>2. CASE j # Len(s)
    <3>1. j \in 1..Len(s) - 1 /\ j \in 1..Len(u)
      BY <1>1, <2>2
    <3> QED BY <1>1, <1>2, <1>3, <2>2, <3>1
  <2> QED BY <2>1, <2>2
<1>6. \A j, k \in 1..Len(s) : p(j) = p(k) => j = k
  BY <1>1
<1> HIDE DEF p
<1>7. Distinct(s) => Distinct(t)
  <2> SUFFICES ASSUME Distinct(s), NEW j \in 1..Len(t), NEW k \in 1..Len(t), t[j][1] = t[k][1]
               PROVE  j = k
    BY DEF Distinct
  <2>1. /\ p(j) \in 1..Len(s) /\ p(k) \in 1..Len(s) /\ s[p(j)][1] = s[p(k)][1]
        /\ j \in 1..Len(s) /\ k \in 1..Len(s)
    BY <1>4, <1>5
  <2>2. p(j) = p(k)
    BY <2>1 DEF Distinct
  <2> QED BY <1>6, <2>1, <2>2
<1> QED BY <1>4, <1>5, <1>7 DEF t

(* A value that is stored was not there, and the oldest make room for it. *)
LEMMA Stored ==
    ASSUME Cache!CacheAssumption, NEW S, NEW s \in Seq(S), NEW e \in S, Distinct(s), Len(s) <= MaxEntries,
           \A i \in 1..Len(s) : s[i][1] # e[1], NEW t \in Cache!Room(s, e)
    PROVE  /\ t \in Seq(S) /\ Len(t) <= MaxEntries /\ Distinct(t)
           /\ \A j \in 1..Len(t) : t[j] = e \/ \E k \in 1..Len(s) : t[j] = s[k]
<1>1. CASE t = s
  BY <1>1
<1>2. CASE t # s
  <2> DEFINE u == Append(s, e)
  <2>1. PICK n \in 1..MaxEntries : t = Cache!Newest(u, n)
    BY <1>2 DEF Cache!Room
  <2>2. /\ u \in Seq(S) /\ Len(u) = Len(s) + 1 /\ u[Len(s) + 1] = e
        /\ \A i \in 1..Len(s) : u[i] = s[i]
    BY AppendProperties
  <2> HIDE DEF u
  <2>3. Len(s) \in Nat /\ Len(u) \in Nat /\ n \in Nat /\ MaxEntries \in Nat /\ 1 <= n /\ n <= MaxEntries
        /\ \A i \in 1..Len(u) : u[i] \in S
    BY <2>2, ElementOfSeq DEF Cache!CacheAssumption
  <2> DEFINE m == IF Len(u) > n THEN Len(u) - n + 1 ELSE 1
  <2>4. m \in Int /\ Len(u) \in Int /\ 1 <= m /\ m <= Len(u) /\ Len(u) - m + 1 <= MaxEntries
    BY <2>2, <2>3
  <2>5. t = SubSeq(u, m, Len(u))
    BY <2>1 DEF Cache!Newest
  <2> HIDE DEF m
  <2>6. \A i \in m..Len(u) : u[i] \in S
    BY <2>3, <2>4
  <2>7. /\ t \in Seq(S) /\ Len(t) = (IF m <= Len(u) THEN Len(u) - m + 1 ELSE 0)
        /\ \A i \in 1..Len(u) - m + 1 : t[i] = u[m + i - 1]
    BY <2>4, <2>5, <2>6, SubSeqProperties
  <2>8. Len(t) = Len(u) - m + 1 /\ Len(t) <= MaxEntries
    BY <2>4, <2>7
  <2>9. ASSUME NEW j \in 1..Len(t) PROVE t[j] = u[m + j - 1] /\ m + j - 1 \in 1..Len(u)
    BY <2>4, <2>7, <2>8
  <2>10. \A i \in 1..Len(u) : (i \in 1..Len(s) /\ u[i] = s[i]) \/ (i = Len(s) + 1 /\ u[i] = e)
    BY <2>2, <2>3
  <2>11. \A i, j \in 1..Len(u) : u[i][1] = u[j][1] => i = j
    BY <2>10 DEF Distinct
  <2>12. Distinct(t)
    <3> SUFFICES ASSUME NEW i \in 1..Len(t), NEW j \in 1..Len(t), t[i][1] = t[j][1] PROVE i = j
      BY DEF Distinct
    <3>1. /\ t[i] = u[m + i - 1] /\ m + i - 1 \in 1..Len(u)
          /\ t[j] = u[m + j - 1] /\ m + j - 1 \in 1..Len(u)
      BY <2>9
    <3>2. m + i - 1 = m + j - 1
      BY <2>11, <3>1
    <3> QED BY <2>4, <3>2
  <2>13. ASSUME NEW j \in 1..Len(t) PROVE t[j] = e \/ \E k \in 1..Len(s) : t[j] = s[k]
    <3>1. t[j] = u[m + j - 1] /\ m + j - 1 \in 1..Len(u)
      BY <2>9
    <3> QED BY <2>10, <3>1
  <2> QED BY <2>7, <2>8, <2>12, <2>13
<1> QED BY <1>1, <1>2

-----------------------------------------------------------------------------
(* Sharing. *)

Early == {"observe", "open", "pin", "begin", "pinned"}

(* Until a request looks for its value it shares nothing. *)
LEMMA NotYetSharing ==
    ASSUME SharingInv, NEW r \in Requests, UNCHANGED <<pending, values>>, named \subseteq named',
           \A s \in Requests \ {r} : req'[s] = req[s],
           req[r].stage \in Early, req'[r].stage \in Early \cup {"failed", "look up"},
           req'[r].stage = "look up" /\ req'[r].name # Cache!NoName
               => <<req'[r].name, req'[r].content>> \in named'
    PROVE  SharingInv'
<1>1. SharesOK'
  <2> SUFFICES ASSUME NEW s \in Requests PROVE ShareOK(s)'
    BY DEF SharesOK
  <2>1. CASE s = r
    BY <2>1 DEF ShareOK, Early
  <2>2. CASE s # r
    <3>1. req'[s] = req[s] /\ ShareOK(s)
      BY <2>2 DEF SharingInv, SharesOK
    <3>2. req[s].stage = "wait" => req'[req[s].future] = req[req[s].future]
      BY <3>1 DEF ShareOK, Early
    <3> QED BY <3>1, <3>2 DEF ShareOK
  <2> QED BY <2>1, <2>2
<1>2. PendingOK'
  <2> SUFFICES ASSUME NEW k \in DOMAIN pending
               PROVE  /\ k # Cache!NoName /\ pending[k] \in Requests
                      /\ req'[pending[k]].stage = "compute" /\ req'[pending[k]].name = k
    BY DEF PendingOK
  <2>1. /\ k # Cache!NoName /\ pending[k] \in Requests
        /\ req[pending[k]].stage = "compute" /\ req[pending[k]].name = k
    BY DEF SharingInv, PendingOK
  <2>2. pending[k] # r
    BY <2>1 DEF Early
  <2> QED BY <2>1, <2>2
<1>3. ValuesOK(values)' /\ \A i \in 1..Len(values') : values'[i][1] \notin DOMAIN pending'
  BY DEF SharingInv, ValuesOK
<1> QED BY <1>1, <1>2, <1>3 DEF SharingInv

LEMMA SameSharing ==
    ASSUME SharingInv, UNCHANGED <<pending, values, req>>, named \subseteq named'
    PROVE  SharingInv'
<1>1. SharesOK' /\ PendingOK'
  BY DEF SharingInv, SharesOK, ShareOK, PendingOK
<1>2. ValuesOK(values)' /\ \A i \in 1..Len(values') : values'[i][1] \notin DOMAIN pending'
  BY DEF SharingInv, ValuesOK
<1> QED BY <1>1, <1>2 DEF SharingInv

(* What the others have to say while r goes on from stage to stage. *)
LEMMA OthersShare ==
    ASSUME SharingInv, NEW r \in Requests, named' = named,
           \A s \in Requests \ {r} : req'[s] = req[s], req'[r].name = req[r].name,
           req[r].stage \in {"compute", "done", "failed"}
           => req'[r].stage \in {"compute", "done", "failed"},
           \A k \in DOMAIN pending : k # req[r].name => k \in DOMAIN pending' /\ pending'[k] = pending[k],
           NEW s \in Requests \ {r}, req[s].stage # "compute" \/ req[s].name # req[r].name
    PROVE  ShareOK(s)'
<1>1. ShareOK(s) /\ req'[s] = req[s]
  BY DEF SharingInv, SharesOK
<1>2. req[s].stage = "compute" => req[s].name \in DOMAIN pending' /\ pending'[req[s].name] = s
  BY <1>1 DEF ShareOK
<1>3. req[s].stage = "wait" =>
           /\ req[s].future \in Requests /\ req'[req[s].future].name = req[s].name
           /\ req'[req[s].future].stage \in {"compute", "done", "failed"}
  BY <1>1 DEF ShareOK
<1> QED BY <1>1, <1>2, <1>3 DEF ShareOK

LEMMA ServedShare ==
    ASSUME Cache!NamesTellApart, SharingInv, NEW r \in Requests, req[r].stage = "look up",
           req[r].name # Cache!NoName, NEW i \in 1..Len(values), values[i][1] = req[r].name
    PROVE  values[i][2] = req[r].content /\ <<req[r].name, req[r].content>> \in named
<1> DEFINE x == <<req[r].name, req[r].content>>
<1>1. values[i] \in named /\ x \in named
  BY DEF SharingInv, ValuesOK, SharesOK, ShareOK
<1>2. x[1] = values[i][1] /\ x[2] = req[r].content
  OBVIOUS
<1> HIDE DEF x
<1> QED BY <1>1, <1>2 DEF Cache!NamesTellApart, x

LEMMA ComputeAloneInv ==
    ASSUME Cache!CacheAssumption, CacheInv, NEW r \in Requests, Cache!ComputeAlone(r) PROVE CacheInv'
<1>1. /\ req[r].stage = "look up" /\ req[r].name = Cache!NoName
      /\ req' = [req EXCEPT ![r].stage = "done", ![r].result = req[r].content]
      /\ UNCHANGED <<Cache!archive, observer, tokens, holder, look, pending, values, named>>
  BY DEF Cache!ComputeAlone, Cache!Key, Cache!cache
<1>2. NamingInv /\ SharingInv /\ req[r].content \in Reads /\ req \in [Requests -> Snapshots]
  BY Requesting DEF CacheInv, Snapshots
<1>3. /\ req' \in [Requests -> Snapshots] /\ \A s \in Requests \ {r} : req'[s] = req[s]
      /\ req'[r].stage = "done" /\ req'[r].content = req[r].content /\ req'[r].name = req[r].name
      /\ req'[r].expected = req[r].expected /\ req'[r].file = req[r].file
  BY <1>1, <1>2, Moves
<1>4. NamingInv'
  BY <1>1, <1>2, <1>3, GoesOn DEF NamingInv, CacheTyped
<1>5. req'[r].result = req[r].content
  BY <1>1, <1>2 DEF Snapshots
<1>6. SharesOK'
  <2>1. ShareOK(r)'
    BY <1>1, <1>3, <1>5 DEF ShareOK
  <2>2. ASSUME NEW s \in Requests \ {r} PROVE ShareOK(s)'
    <3>1. req[s].stage # "compute" \/ req[s].name # req[r].name
      BY <1>1, <1>2 DEF SharingInv, SharesOK, ShareOK, PendingOK
    <3> QED BY <1>1, <1>2, <1>3, <3>1, OthersShare
  <2> QED BY <2>1, <2>2 DEF SharesOK
<1>7. PendingOK'
  BY <1>1, <1>2, <1>3 DEF SharingInv, PendingOK
<1>8. ValuesOK(values)' /\ \A i \in 1..Len(values') : values'[i][1] \notin DOMAIN pending'
  BY <1>1, <1>2 DEF SharingInv, ValuesOK
<1> QED BY <1>4, <1>6, <1>7, <1>8 DEF CacheInv, SharingInv

LEMMA LookUpInv ==
    ASSUME Cache!CacheAssumption, CacheInv, NEW r \in Requests, Cache!LookUp(r) PROVE CacheInv'
<1> DEFINE k == req[r].name
<1>1. /\ req[r].stage = "look up" /\ k # Cache!NoName
      /\ UNCHANGED <<Cache!archive, observer, tokens, holder, look, named>>
  BY DEF Cache!LookUp, Cache!Key
<1>2. /\ NamingInv /\ SharingInv /\ req \in [Requests -> Snapshots] /\ req[r] \in Snapshots
      /\ values \in Seq(NamedReads) /\ Cache!NamesTellApart
  BY Requesting DEF CacheInv, NamingInv, CacheTyped
<1>3. \A s \in Requests : req[s].stage = "compute" => req[s].name \in DOMAIN pending
  BY <1>2 DEF SharingInv, SharesOK, ShareOK
<1>4. ASSUME NEW i \in 1..Len(values), values[i][1] = k,
             values' = Append(Cache!RemoveAt(values, i), values[i]),
             req' = [req EXCEPT ![r].stage = "done", ![r].result = values[i][2]],
             UNCHANGED pending
      PROVE  CacheInv'
  <2>1. values[i][2] = req[r].content /\ <<k, req[r].content>> \in named
    BY <1>1, <1>2, <1>4, ServedShare
  <2>2. req[r].content \in Reads
    BY <1>2 DEF Snapshots
  <2>3. /\ req' \in [Requests -> Snapshots] /\ \A s \in Requests \ {r} : req'[s] = req[s]
        /\ req'[r].stage = "done" /\ req'[r].content = req[r].content /\ req'[r].name = req[r].name
        /\ req'[r].expected = req[r].expected /\ req'[r].file = req[r].file
    BY <1>2, <1>4, <2>1, <2>2, Moves
  <2>4. req'[r].result = req[r].content
    BY <1>2, <1>4, <2>1 DEF Snapshots
  <2>5. /\ values' \in Seq(NamedReads) /\ Len(values') = Len(values)
        /\ \A j \in 1..Len(values') : \E n \in 1..Len(values) : values'[j] = values[n]
        /\ Distinct(values) => Distinct(values')
    <3> DEFINE t == Append(Cache!RemoveAt(values, i), values[i])
    <3>1. /\ t \in Seq(NamedReads) /\ Len(t) = Len(values)
          /\ \A j \in 1..Len(t) : \E n \in 1..Len(values) : t[j] = values[n]
          /\ Distinct(values) => Distinct(t)
      BY <1>2, <1>4, Touched
    <3> QED BY <1>4, <3>1
  <2>6. NamingInv'
    BY <1>1, <1>2, <2>3, <2>5, GoesOn
  <2>7. SharesOK'
    <3>1. ShareOK(r)'
      BY <1>1, <2>1, <2>3, <2>4 DEF ShareOK
    <3>2. ASSUME NEW s \in Requests \ {r} PROVE ShareOK(s)'
      <4>1. k \notin DOMAIN pending
        BY <1>2, <1>4 DEF SharingInv
      <4> QED BY <1>1, <1>2, <1>3, <1>4, <2>3, <4>1, OthersShare
    <3> QED BY <3>1, <3>2 DEF SharesOK
  <2>8. PendingOK'
    BY <1>1, <1>2, <1>4, <2>3 DEF SharingInv, PendingOK
  <2>9. ValuesOK(values)' /\ \A j \in 1..Len(values') : values'[j][1] \notin DOMAIN pending'
    BY <1>1, <1>2, <1>4, <2>5 DEF SharingInv, ValuesOK, Distinct
  <2> QED BY <2>6, <2>7, <2>8, <2>9 DEF CacheInv, SharingInv
<1>5. ASSUME k \in DOMAIN pending, req' = [req EXCEPT ![r].stage = "wait", ![r].future = pending[k]],
             UNCHANGED Cache!cache
      PROVE  CacheInv'
  <2>1. pending[k] \in Requests /\ req[pending[k]].stage = "compute" /\ req[pending[k]].name = k
    BY <1>2, <1>5 DEF SharingInv, PendingOK
  <2>2. /\ req' \in [Requests -> Snapshots] /\ \A s \in Requests \ {r} : req'[s] = req[s]
        /\ req'[r].stage = "wait" /\ req'[r].content = req[r].content /\ req'[r].name = req[r].name
        /\ req'[r].expected = req[r].expected /\ req'[r].file = req[r].file
    BY <1>2, <1>5, <2>1, Moves
  <2>3. req'[r].future = pending[k] /\ pending[k] # r /\ UNCHANGED <<pending, values>>
    BY <1>1, <1>2, <1>5, <2>1 DEF Snapshots, Cache!cache
  <2>4. NamingInv'
    BY <1>1, <1>2, <2>2, <2>3, GoesOn
  <2>5. SharesOK'
    <3>1. ShareOK(r)'
      <4>1. <<k, req[r].content>> \in named
        BY <1>1, <1>2 DEF SharingInv, SharesOK, ShareOK
      <4>2. req'[pending[k]] = req[pending[k]]
        BY <2>1, <2>2, <2>3
      <4> QED BY <1>1, <2>1, <2>2, <2>3, <4>1, <4>2 DEF ShareOK
    <3>2. ASSUME NEW s \in Requests \ {r} PROVE ShareOK(s)'
      <4>1. ShareOK(s) /\ req'[s] = req[s]
        BY <1>2, <2>2 DEF SharingInv, SharesOK
      <4>2. req[s].stage = "wait" => req'[req[s].future] = req[req[s].future]
        BY <1>1, <2>2, <4>1 DEF ShareOK
      <4> QED BY <1>1, <2>3, <4>1, <4>2 DEF ShareOK
    <3> QED BY <3>1, <3>2 DEF SharesOK
  <2>6. PendingOK'
    BY <1>1, <1>2, <2>2, <2>3 DEF SharingInv, PendingOK
  <2>7. ValuesOK(values)' /\ \A j \in 1..Len(values') : values'[j][1] \notin DOMAIN pending'
    BY <1>1, <1>2, <2>3 DEF SharingInv, ValuesOK
  <2> QED BY <2>4, <2>5, <2>6, <2>7 DEF CacheInv, SharingInv
<1>6. ASSUME ~Cache!Hit(k), k \notin DOMAIN pending,
             pending' = [x \in DOMAIN pending \cup {k} |-> IF x = k THEN r ELSE pending[x]],
             req' = [req EXCEPT ![r].stage = "compute"], UNCHANGED values
      PROVE  CacheInv'
  <2>1. /\ req' \in [Requests -> Snapshots] /\ \A s \in Requests \ {r} : req'[s] = req[s]
        /\ req'[r].stage = "compute" /\ req'[r].content = req[r].content /\ req'[r].name = req[r].name
        /\ req'[r].expected = req[r].expected /\ req'[r].file = req[r].file
    BY <1>2, <1>6, Moves
  <2>2. NamingInv'
    BY <1>1, <1>2, <1>6, <2>1, GoesOn
  <2>3. /\ DOMAIN pending' = DOMAIN pending \cup {k} /\ pending'[k] = r
        /\ \A x \in DOMAIN pending : x # k /\ pending'[x] = pending[x]
    BY <1>6
  <2>4. SharesOK'
    <3>1. ShareOK(r)'
      BY <1>1, <1>2, <2>1, <2>3 DEF ShareOK, SharingInv, SharesOK
    <3>2. ASSUME NEW s \in Requests \ {r} PROVE ShareOK(s)'
      BY <1>1, <1>2, <1>3, <1>6, <2>1, <2>3, OthersShare
    <3> QED BY <3>1, <3>2 DEF SharesOK
  <2>5. PendingOK'
    <3> SUFFICES ASSUME NEW x \in DOMAIN pending'
                 PROVE  /\ x # Cache!NoName /\ pending'[x] \in Requests
                        /\ req'[pending'[x]].stage = "compute" /\ req'[pending'[x]].name = x
      BY DEF PendingOK
    <3>1. CASE x = k
      BY <1>1, <2>1, <2>3, <3>1
    <3>2. CASE x # k
      <4>1. x \in DOMAIN pending /\ pending'[x] = pending[x]
        BY <2>3, <3>2
      <4>2. x # Cache!NoName /\ pending[x] \in Requests
            /\ req[pending[x]].stage = "compute" /\ req[pending[x]].name = x
        BY <1>2, <4>1 DEF SharingInv, PendingOK
      <4>3. pending[x] # r
        BY <1>1, <4>2
      <4> QED BY <2>1, <4>1, <4>2, <4>3
    <3> QED BY <3>1, <3>2
  <2>6. DOMAIN values = 1..Len(values)
    BY <1>2
  <2>7. ValuesOK(values)' /\ \A j \in 1..Len(values') : values'[j][1] \notin DOMAIN pending'
    BY <1>1, <1>2, <1>6, <2>3, <2>6 DEF SharingInv, ValuesOK, Cache!Hit
  <2> QED BY <2>2, <2>4, <2>5, <2>7 DEF CacheInv, SharingInv
<1>7. DOMAIN values = 1..Len(values)
  BY <1>2
<1> QED BY <1>4, <1>5, <1>6, <1>7 DEF Cache!LookUp, Cache!Key, Cache!IsPending

(* The one that computes the value of a name gives the promise up. *)
LEMMA Settles ==
    ASSUME Cache!CacheAssumption, CacheInv, NEW r \in Requests, req[r].stage = "compute",
           pending' = Cache!Without(req[r].name), named' = named,
           \A s \in Requests \ {r} : req'[s] = req[s],
           req'[r].stage \in {"done", "failed"}, req'[r].name = req[r].name,
           req'[r].content = req[r].content,
           req'[r].stage = "done" => req'[r].result = req[r].content
    PROVE  SharesOK' /\ PendingOK' /\ DOMAIN pending' \subseteq DOMAIN pending
<1> DEFINE k == req[r].name
<1>1. /\ SharingInv /\ k \in DOMAIN pending /\ pending[k] = r
      /\ k # Cache!NoName => <<k, req[r].content>> \in named
  BY DEF CacheInv, SharingInv, SharesOK, ShareOK
<1>2. /\ DOMAIN pending' = DOMAIN pending \ {k}
      /\ \A x \in DOMAIN pending \ {k} : pending'[x] = pending[x]
  BY DEF Cache!Without
<1>3. SharesOK'
  <2>1. ShareOK(r)'
    BY <1>1 DEF ShareOK
  <2>2. ASSUME NEW s \in Requests \ {r} PROVE ShareOK(s)'
    <3>1. req[s].stage # "compute" \/ req[s].name # k
      <4>1. ShareOK(s)
        BY <1>1 DEF SharingInv, SharesOK
      <4> QED BY <1>1, <4>1 DEF ShareOK
    <3>2. \A x \in DOMAIN pending : x # k => x \in DOMAIN pending' /\ pending'[x] = pending[x]
      BY <1>2
    <3>3. SharingInv /\ req'[r].stage \in {"compute", "done", "failed"}
      BY <1>1
    <3> QED BY <3>1, <3>2, <3>3, OthersShare
  <2> QED BY <2>1, <2>2 DEF SharesOK
<1>4. PendingOK'
  <2> SUFFICES ASSUME NEW x \in DOMAIN pending'
               PROVE  /\ x # Cache!NoName /\ pending'[x] \in Requests
                      /\ req'[pending'[x]].stage = "compute" /\ req'[pending'[x]].name = x
    BY DEF PendingOK
  <2>1. x \in DOMAIN pending /\ x # k /\ pending'[x] = pending[x]
    BY <1>2
  <2>2. x # Cache!NoName /\ pending[x] \in Requests
        /\ req[pending[x]].stage = "compute" /\ req[pending[x]].name = x
    BY <1>1, <2>1 DEF SharingInv, PendingOK
  <2>3. pending[x] # r
    BY <2>1, <2>2
  <2> QED BY <2>1, <2>2, <2>3
<1> QED BY <1>2, <1>3, <1>4

LEMMA ComputeInv ==
    ASSUME Cache!CacheAssumption, CacheInv, NEW r \in Requests, Cache!Compute(r) PROVE CacheInv'
<1> DEFINE k == req[r].name
           e == <<k, req[r].content>>
<1>1. /\ req[r].stage = "compute" /\ values' \in Cache!Room(values, e) /\ pending' = Cache!Without(k)
      /\ req' = [req EXCEPT ![r].stage = "done", ![r].result = req[r].content]
      /\ UNCHANGED <<Cache!archive, observer, tokens, holder, look, named>>
  BY DEF Cache!Compute, Cache!Key
<1>2. /\ NamingInv /\ SharingInv /\ req \in [Requests -> Snapshots] /\ req[r] \in Snapshots
      /\ values \in Seq(NamedReads) /\ named \subseteq NamedReads
  BY Requesting DEF CacheInv, NamingInv, CacheTyped
<1>3. k \in DOMAIN pending /\ k # Cache!NoName /\ e \in named
  BY <1>1, <1>2 DEF SharingInv, SharesOK, ShareOK, PendingOK
<1>4. req[r].content \in Reads
  BY <1>2 DEF Snapshots
<1>5. /\ req' \in [Requests -> Snapshots] /\ \A s \in Requests \ {r} : req'[s] = req[s]
      /\ req'[r].stage = "done" /\ req'[r].content = req[r].content /\ req'[r].name = req[r].name
      /\ req'[r].expected = req[r].expected /\ req'[r].file = req[r].file
  BY <1>1, <1>2, <1>4, Moves
<1>6. req'[r].result = req[r].content
  BY <1>1, <1>2 DEF Snapshots
<1>7. SharesOK' /\ PendingOK' /\ DOMAIN pending' \subseteq DOMAIN pending
  BY <1>1, <1>5, <1>6, Settles
<1>8. k \notin DOMAIN pending'
  BY <1>1 DEF Cache!Without
<1>9. /\ \A i \in 1..Len(values) : values[i] \in named /\ values[i][1] # k
                                      /\ values[i][1] \notin DOMAIN pending
      /\ Distinct(values) /\ Len(values) <= MaxEntries
  BY <1>2, <1>3 DEF SharingInv, ValuesOK, Distinct
<1>10. e \in NamedReads /\ e[1] = k
  BY <1>2, <1>3
<1> HIDE DEF e
<1>11. /\ values' \in Seq(NamedReads) /\ Len(values') <= MaxEntries /\ Distinct(values')
       /\ \A j \in 1..Len(values') : values'[j] = e \/ \E n \in 1..Len(values) : values'[j] = values[n]
  BY <1>1, <1>2, <1>9, <1>10, Stored
<1>12. NamingInv'
  BY <1>1, <1>2, <1>5, <1>11, GoesOn
<1>13. \A j \in 1..Len(values') : values'[j] \in named /\ values'[j][1] \notin DOMAIN pending'
  BY <1>3, <1>7, <1>8, <1>9, <1>10, <1>11
<1>14. ValuesOK(values)'
  BY <1>1, <1>11, <1>13 DEF ValuesOK, Distinct
<1> QED BY <1>7, <1>12, <1>13, <1>14 DEF CacheInv, SharingInv

LEMMA ComputeFailsInv ==
    ASSUME Cache!CacheAssumption, CacheInv, NEW r \in Requests, Cache!ComputeFails(r) PROVE CacheInv'
<1>1. /\ req[r].stage = "compute" /\ pending' = Cache!Without(req[r].name)
      /\ req' = [req EXCEPT ![r].stage = "failed"]
      /\ UNCHANGED <<Cache!archive, observer, tokens, holder, look, values, named>>
  BY DEF Cache!ComputeFails, Cache!Key
<1>2. NamingInv /\ SharingInv /\ values \in Seq(NamedReads)
  BY DEF CacheInv, NamingInv, CacheTyped
<1>3. /\ req' \in [Requests -> Snapshots] /\ \A s \in Requests \ {r} : req'[s] = req[s]
      /\ req'[r].stage = "failed" /\ req'[r].content = req[r].content /\ req'[r].name = req[r].name
      /\ req'[r].expected = req[r].expected /\ req'[r].file = req[r].file
  BY <1>1, <1>2, Moves
<1>4. NamingInv'
  BY <1>1, <1>2, <1>3, GoesOn
<1>5. SharesOK' /\ PendingOK' /\ DOMAIN pending' \subseteq DOMAIN pending
  BY <1>1, <1>3, Settles
<1>6. ValuesOK(values)' /\ \A i \in 1..Len(values') : values'[i][1] \notin DOMAIN pending'
  BY <1>1, <1>2, <1>5 DEF SharingInv, ValuesOK
<1> QED BY <1>4, <1>5, <1>6 DEF CacheInv, SharingInv

LEMMA WakeInv ==
    ASSUME Cache!CacheAssumption, CacheInv, NEW r \in Requests, Cache!Wake(r) PROVE CacheInv'
<1> DEFINE f == req[r].future
           n == req[r].name
<1>1. /\ req[r].stage = "wait" /\ req[f].stage \in {"done", "failed"}
      /\ req' = [req EXCEPT ![r].stage = req[f].stage, ![r].result = req[f].result]
      /\ UNCHANGED <<Cache!archive, observer, tokens, holder, look, pending, values, named>>
  BY DEF Cache!Wake, Cache!Resolved, Cache!cache
<1>2. /\ NamingInv /\ SharingInv /\ req \in [Requests -> Snapshots] /\ req[r] \in Snapshots
      /\ values \in Seq(NamedReads) /\ Cache!NamesTellApart
  BY Requesting DEF CacheInv, NamingInv, CacheTyped
<1>3. /\ n # Cache!NoName /\ f \in Requests /\ req[f].name = n
      /\ <<n, req[r].content>> \in named
      /\ req[f].stage = "done" => <<n, req[f].content>> \in named /\ req[f].result = req[f].content
  BY <1>1, <1>2 DEF SharingInv, SharesOK, ShareOK
<1>4. req[f].stage = "done" => req[f].result = req[r].content
  <2>1. \A c, d : <<n, c>> \in named /\ <<n, d>> \in named => c = d
    BY <1>2 DEF Cache!NamesTellApart
  <2> QED BY <1>3, <2>1
<1>5. req[f].result \in Reads
  BY <1>2, <1>3 DEF Snapshots
<1>6. /\ req' \in [Requests -> Snapshots] /\ \A s \in Requests \ {r} : req'[s] = req[s]
      /\ req'[r].stage = req[f].stage /\ req'[r].content = req[r].content /\ req'[r].name = req[r].name
      /\ req'[r].expected = req[r].expected /\ req'[r].file = req[r].file
  BY <1>1, <1>2, <1>5, Moves
<1>7. req'[r].result = req[f].result
  BY <1>1, <1>2 DEF Snapshots
<1>8. NamingInv'
  BY <1>1, <1>2, <1>6, GoesOn
<1>9. SharesOK'
  <2>1. ShareOK(r)'
    <3>1. req'[r].name = n /\ <<req'[r].name, req'[r].content>> \in named'
      BY <1>1, <1>3, <1>6
    <3>2. req'[r].stage \in {"done", "failed"}
          /\ (req'[r].stage = "done" => req'[r].result = req'[r].content)
      BY <1>1, <1>4, <1>6, <1>7
    <3> HIDE DEF f, n
    <3> QED BY <3>1, <3>2 DEF ShareOK
  <2>2. ASSUME NEW s \in Requests \ {r} PROVE ShareOK(s)'
    <3>1. ShareOK(s) /\ req'[s] = req[s]
      BY <1>2, <1>6 DEF SharingInv, SharesOK
    <3>2. req[s].stage = "wait" => req'[req[s].future] = req[req[s].future]
      BY <1>1, <1>6, <3>1 DEF ShareOK
    <3>3. named' = named /\ pending' = pending
      BY <1>1
    <3> HIDE DEF f, n
    <3> QED BY <3>1, <3>2, <3>3 DEF ShareOK
  <2> QED BY <2>1, <2>2 DEF SharesOK
<1>10. PendingOK'
  BY <1>1, <1>2, <1>6 DEF SharingInv, PendingOK
<1>11. ValuesOK(values)' /\ \A i \in 1..Len(values') : values'[i][1] \notin DOMAIN pending'
  BY <1>1, <1>2 DEF SharingInv, ValuesOK
<1> QED BY <1>8, <1>9, <1>10, <1>11 DEF CacheInv, SharingInv

LEMMA ReadFailsInv ==
    ASSUME Cache!CacheAssumption, CacheInv, NEW r \in Requests, Cache!ReadFails(r) PROVE CacheInv'
<1>1. /\ req[r].stage \in {"open", "begin"} /\ req' = [req EXCEPT ![r].stage = "failed"]
      /\ holder' = holder \/ (holder = r /\ holder' = Cache!None)
      /\ UNCHANGED <<Cache!archive, observer, tokens, look, pending, values, named>>
  BY DEF Cache!ReadFails, Cache!cache
<1>2. NamingInv /\ SharingInv /\ values \in Seq(NamedReads)
  BY DEF CacheInv, NamingInv, CacheTyped
<1>3. /\ req' \in [Requests -> Snapshots] /\ \A s \in Requests \ {r} : req'[s] = req[s]
      /\ req'[r].stage = "failed" /\ req'[r].content = req[r].content /\ req'[r].name = req[r].name
      /\ req'[r].expected = req[r].expected /\ req'[r].file = req[r].file
  BY <1>1, <1>2, Moves
<1>4. NamingInv'
  BY <1>1, <1>2, <1>3, GoesOn
<1>5. SharingInv'
  BY <1>1, <1>2, <1>3, NotYetSharing DEF Early
<1> QED BY <1>4, <1>5 DEF CacheInv

(* Where the answer of a look goes, nothing is shared yet. *)
LEMMA AnswerShares ==
    ASSUME Cache!CacheAssumption, NamingInv, SharingInv, NEW r \in Requests, Cache!Holds(r),
           NEW name, Cache!Answer(r, name), UNCHANGED Cache!cache
    PROVE  SharingInv'
<1>1. /\ <<look.phase, req[r].stage>>
             \in {<<"observe", "observe">>, <<"before", "pin">>, <<"after", "pinned">>}
      /\ req \in [Requests -> Snapshots] /\ req[r] \in Snapshots
      /\ UNCHANGED <<pending, values>>
  BY Looking, Requesting DEF Cache!cache
<1>2. CASE look.phase = "observe"
  <2>1. req' = [req EXCEPT ![r].expected = name, ![r].stage = "open"] /\ named' = named
    BY <1>2 DEF Cache!Answer
  <2>2. req'[r].stage = "open" /\ \A s \in Requests \ {r} : req'[s] = req[s]
    BY <1>1, <2>1 DEF Snapshots
  <2> QED BY <1>1, <2>1, <2>2, NotYetSharing DEF Early
<1>3. CASE look.phase = "before"
  <2>1. req' = [req EXCEPT ![r].before = name, ![r].stage = "begin"] /\ named' = named
    BY <1>3 DEF Cache!Answer
  <2>2. req'[r].stage = "begin" /\ \A s \in Requests \ {r} : req'[s] = req[s]
    BY <1>1, <2>1 DEF Snapshots
  <2> QED BY <1>1, <2>1, <2>2, NotYetSharing DEF Early
<1>4. CASE look.phase = "after"
  <2> DEFINE mine == IF Cache!Survived(r, name) THEN name ELSE Cache!NoName
  <2>1. /\ req' = [req EXCEPT ![r].name = mine, ![r].stage = "look up"]
        /\ named' = IF mine = Cache!NoName THEN named ELSE named \cup {<<mine, req[r].content>>}
    BY <1>4 DEF Cache!Answer
  <2> HIDE DEF mine
  <2>2. /\ req'[r].stage = "look up" /\ \A s \in Requests \ {r} : req'[s] = req[s]
        /\ req'[r].name = mine /\ req'[r].content = req[r].content
    BY <1>1, <2>1 DEF Snapshots
  <2>3. /\ named \subseteq named'
        /\ req'[r].name # Cache!NoName => <<req'[r].name, req'[r].content>> \in named'
    <3>1. CASE mine = Cache!NoName
      BY <2>1, <2>2, <3>1
    <3>2. CASE mine # Cache!NoName
      <4>1. named' = named \cup {<<mine, req[r].content>>}
        BY <2>1, <3>2
      <4> QED BY <2>2, <4>1
    <3> QED BY <3>1, <3>2
  <2> QED BY <1>1, <2>2, <2>3, NotYetSharing DEF Early
<1> QED BY <1>1, <1>2, <1>3, <1>4

LEMMA LookShares ==
    ASSUME Cache!CacheAssumption, NamingInv, SharingInv, NEW r \in Requests,
           Cache!_read_observation_locked(r)
    PROVE  SharingInv'
<1>1. CASE Cache!Stat(r) \/ Cache!Observer(r) \/ Cache!Version(r) \/ Cache!StatAgain(r)
           \/ Cache!VersionAgain(r)
  <2>1. UNCHANGED <<pending, values, req, named>>
    BY <1>1 DEF Cache!Stat, Cache!Observer, Cache!Version, Cache!StatAgain, Cache!VersionAgain, Cache!cache
  <2> QED BY <2>1, SameSharing
<1>2. CASE Cache!StatLast(r)
  BY <1>2, AnswerShares DEF Cache!StatLast
<1>3. CASE Cache!ObserverFails(r)
  <2>1. CASE look.attempt = 1
    <3>1. UNCHANGED <<pending, values, req, named>>
      BY <1>3, <2>1 DEF Cache!ObserverFails, Cache!cache
    <3> QED BY <3>1, SameSharing
  <2>2. CASE look.attempt # 1
    <3>1. Cache!Holds(r) /\ Cache!Answer(r, Cache!NoName) /\ UNCHANGED Cache!cache
      BY <1>3, <2>2 DEF Cache!ObserverFails
    <3> QED BY <3>1, AnswerShares
  <2> QED BY <2>1, <2>2
<1> QED BY <1>1, <1>2, <1>3 DEF Cache!_read_observation_locked

LEMMA BeginsShare ==
    ASSUME Cache!CacheAssumption, NamingInv, SharingInv, NEW r \in Requests,
           Cache!observe(r) \/ Cache!connect_database(r) \/ Cache!pin(r) \/ Cache!BeginRead(r)
    PROVE  SharingInv'
<1>1. req \in [Requests -> Snapshots] /\ req[r] \in Snapshots
  BY Requesting
<1>2. CASE Cache!observe(r) \/ Cache!pin(r)
  <2>1. UNCHANGED <<pending, values, req, named>>
    BY <1>2 DEF Cache!observe, Cache!pin, Cache!cache
  <2> QED BY <2>1, SameSharing
<1>3. CASE Cache!connect_database(r)
  <2>1. PICK content \in {Cache!NoContent, Cache!Content(Cache!Path)} :
            req' = [req EXCEPT ![r].file = Cache!Path, ![r].content = content, ![r].stage = "pin"]
    BY <1>3 DEF Cache!connect_database
  <2>2. req[r].stage = "open" /\ UNCHANGED <<pending, values, named>>
    BY <1>3 DEF Cache!connect_database, Cache!cache
  <2>3. req'[r].stage = "pin" /\ \A s \in Requests \ {r} : req'[s] = req[s]
    BY <1>1, <2>1 DEF Snapshots
  <2> QED BY <2>2, <2>3, NotYetSharing DEF Early
<1>4. CASE Cache!BeginRead(r)
  <2> DEFINE c == IF req[r].content = Cache!NoContent THEN Cache!Content(req[r].file) ELSE req[r].content
  <2>1. /\ req' = [req EXCEPT ![r].content = c, ![r].stage = "pinned"]
        /\ req[r].stage = "begin" /\ UNCHANGED <<pending, values, named>>
    BY <1>4 DEF Cache!BeginRead, Cache!cache
  <2> HIDE DEF c
  <2>2. req'[r].stage = "pinned" /\ \A s \in Requests \ {r} : req'[s] = req[s]
    BY <1>1, <2>1 DEF Snapshots
  <2> QED BY <2>1, <2>2, NotYetSharing DEF Early
<1> QED BY <1>2, <1>3, <1>4

LEMMA RequestKept ==
    ASSUME Cache!CacheAssumption, CacheInv, NEW r \in Requests, Cache!Request(r) PROVE CacheInv'
<1>1. NamingInv /\ SharingInv
  BY DEF CacheInv
<1>2. CASE Cache!observe(r) \/ Cache!connect_database(r) \/ Cache!pin(r) \/ Cache!BeginRead(r)
  BY <1>1, <1>2, observeInv, connect_databaseInv, pinInv, BeginReadInv, BeginsShare DEF CacheInv
<1>3. CASE Cache!_read_observation_locked(r)
  <2>1. NamingInv'
    BY <1>1, <1>3, StatInv, ObserverInv, VersionInv, StatAgainInv, VersionAgainInv, StatLastInv,
       ObserverFailsInv DEF Cache!_read_observation_locked
  <2> QED BY <1>1, <1>3, <2>1, LookShares DEF CacheInv
<1>4. CASE Cache!ReadFails(r) \/ Cache!ComputeAlone(r)
  BY <1>4, ReadFailsInv, ComputeAloneInv
<1>5. CASE Cache!get_or_compute(r)
  BY <1>5, LookUpInv, ComputeInv, ComputeFailsInv, WakeInv DEF Cache!get_or_compute
<1> QED BY <1>2, <1>3, <1>4, <1>5 DEF Cache!Request

LEMMA CacheStarts == Cache!CacheAssumption /\ Cache!Init => CacheInv
<1> SUFFICES ASSUME Cache!CacheAssumption, Cache!Init PROVE CacheInv
  OBVIOUS
<1>1. /\ revisions = <<[stamp |-> 0, commits |-> 0]>> /\ writing = 0 /\ observer = Cache!NoObserver
      /\ tokens = 0
      /\ holder = Cache!None /\ look = Cache!NoLook /\ req = [r \in Requests |-> Cache!NewRequest]
      /\ pending = <<>> /\ values = <<>> /\ named = {}
  BY DEF Cache!Init
<1>2. ArchiveTyped
  <2>1. Len(revisions) = 1 /\ revisions \in Seq([stamp : Nat, commits : Nat])
    BY <1>1
  <2> QED BY <1>1, <2>1 DEF ArchiveTyped, Cache!Path
<1>3. ObserverTyped
  BY <1>1 DEF ObserverTyped, Cache!NoObserver, Cache!NoLook, Looks
<1>4. Cache!NewRequest \in Snapshots
  BY DEF Cache!NewRequest, Snapshots, ReadStages, RevisionNames, Cache!NoName, Cache!NoContent, Reads
<1>5. CacheTyped
  BY <1>1, <1>2, <1>3, <1>4 DEF CacheTyped
<1>6. \A r \in Requests : req[r].stage = "observe" /\ req[r].expected = Cache!NoName
  BY <1>1 DEF Cache!NewRequest
<1>7. ObserverOK /\ ReadsOK /\ LookOK /\ NamedOK /\ Cache!NamesTellApart
  BY <1>1, <1>6 DEF ObserverOK, ReadsOK, ReadOK, NameOK, GoodName, LookOK, NamedOK, Cache!NamesTellApart
<1>8. DOMAIN pending = {} /\ Len(values) = 0 /\ MaxEntries \in Nat
  BY <1>1 DEF Cache!CacheAssumption
<1>9. SharesOK /\ PendingOK
  BY <1>6, <1>8 DEF SharesOK, ShareOK, PendingOK
<1>10. ValuesOK(values) /\ \A i \in 1..Len(values) : values[i][1] \notin DOMAIN pending
  BY <1>8 DEF ValuesOK
<1> QED BY <1>5, <1>7, <1>9, <1>10 DEF CacheInv, NamingInv, SharingInv

LEMMA CacheStep == Cache!CacheAssumption /\ CacheInv /\ [Cache!Next]_(Cache!vars) => CacheInv'
<1> SUFFICES ASSUME Cache!CacheAssumption, CacheInv, [Cache!Next]_(Cache!vars) PROVE CacheInv'
  OBVIOUS
<1>1. NamingInv /\ SharingInv
  BY DEF CacheInv
<1>2. CASE Cache!WriteFrames \/ Cache!Publish \/ Cache!Replace
  <2>1. NamingInv'
    BY <1>1, <1>2, WriteFramesInv, PublishInv, ReplaceInv
  <2>2. UNCHANGED <<pending, values, req, named>>
    BY <1>2 DEF Cache!WriteFrames, Cache!Publish, Cache!Replace, Cache!cache
  <2> QED BY <1>1, <2>1, <2>2, SameSharing DEF CacheInv
<1>3. CASE \E r \in Requests : Cache!Request(r)
  BY <1>3, RequestKept
<1>4. CASE UNCHANGED Cache!vars
  <2>1. UNCHANGED <<revisions, writing, observer, tokens, holder, look, req, pending, values, named>>
    BY <1>4 DEF Cache!vars
  <2>2. SharingInv'
    BY <1>1, <2>1, SameSharing
  <2>3. NamingInv'
    <3> USE <2>1
    <3>1. CacheTyped'
      BY <1>1 DEF NamingInv, CacheTyped, ArchiveTyped, ObserverTyped, Cache!Path
    <3>2. ObserverOK' /\ Cache!NamesTellApart' /\ NamedOK'
      BY <1>1 DEF NamingInv, ObserverOK, Cache!NamesTellApart, NamedOK, NameOK, Cache!Path
    <3>3. ReadsOK' /\ LookOK'
      BY <1>1 DEF NamingInv, ReadsOK, ReadOK, LookOK, NameOK, Cache!Path
    <3> QED BY <3>1, <3>2, <3>3 DEF NamingInv
  <2> QED BY <2>2, <2>3 DEF CacheInv
<1> QED BY <1>2, <1>3, <1>4 DEF Cache!Next

LEMMA CacheShows ==
    Cache!CacheAssumption /\ CacheInv => Cache!TypeOK /\ Cache!NamesTellApart /\ Cache!ServedIsPinned
    /\ Cache!OneComputes
<1> SUFFICES ASSUME Cache!CacheAssumption, CacheInv
             PROVE  Cache!TypeOK /\ Cache!NamesTellApart /\ Cache!ServedIsPinned /\ Cache!OneComputes
  OBVIOUS
<1>1. /\ CacheTyped /\ LookOK /\ Cache!NamesTellApart /\ SharesOK /\ PendingOK /\ ValuesOK(values)
  BY DEF CacheInv, NamingInv, SharingInv
<1>2. Cache!TypeOK
  <2>1. DOMAIN values = 1..Len(values)
    BY <1>1 DEF CacheTyped
  <2>2. writing \in 0..Cache!Path /\ holder \in Requests \cup {Cache!None}
        /\ (look # Cache!NoLook => holder # Cache!None)
    BY <1>1 DEF CacheTyped, ArchiveTyped, ObserverTyped, LookOK, Cache!CacheAssumption
  <2> QED BY <1>1, <2>1, <2>2 DEF ValuesOK, PendingOK, Cache!TypeOK
<1>3. Cache!ServedIsPinned
  BY <1>1 DEF SharesOK, ShareOK, Cache!ServedIsPinned
<1>4. Cache!OneComputes
  <2> SUFFICES ASSUME NEW r \in Requests, NEW s \in Requests, req[r].stage = "compute",
                      req[s].stage = "compute", req[r].name = req[s].name
               PROVE  r = s
    BY DEF Cache!OneComputes, Cache!Key
  <2>1. ShareOK(r) /\ ShareOK(s)
    BY <1>1 DEF SharesOK
  <2> QED BY <2>1 DEF ShareOK
<1> QED BY <1>1, <1>2, <1>3, <1>4

-----------------------------------------------------------------------------
(* The cache of the run. *)

LEMMA StepOfCache ==
    [MCNext]_<<used, vars, backup, cache>> => [Cache!Next]_(Cache!vars)
BY DEF MCNext, cache, Cache!vars

(* Whatever the monitor commits while requests name what they read, wait for
   each other and fail, each is served what its own snapshot holds, and one of
   all that miss a value at a time computes it (SnapshotRevisions, AnalyticsCache). *)
THEOREM ServedCurrentInRun == MCSpec => []ServedIsCurrent
<1>1. MCInit => CacheInv
  BY CachesAssumption, CacheStarts DEF MCInit
<1>2. CacheInv /\ [MCNext]_<<used, vars, backup, cache>> => CacheInv'
  BY CachesAssumption, StepOfCache, CacheStep
<1>3. CacheInv => ServedIsCurrent
  BY CachesAssumption, CacheShows DEF ServedIsCurrent
<1> QED BY <1>1, <1>2, <1>3, PTL DEF MCSpec
==============================================================================
