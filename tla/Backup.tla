------------------------------- MODULE Backup -------------------------------
(***************************************************************************)
(* Backups of the archive (backup.py): a timer and the operator run them,  *)
(* at most one at a time.  A run copies the archive into a temporary file, *)
(* verifies it, publishes it by a hard link and then prunes the verified   *)
(* backups beyond Keep.  Any step may fail and the process may die.        *)
(*                                                                         *)
(* A file is a record; a published backup and the temporary file it was    *)
(* linked from are two names of one file.                                  *)
(***************************************************************************)
EXTENDS Naturals, FiniteSets

CONSTANTS
    Runs,           \* who may run a backup
    Keep,           \* how many backups are retained
    Foreign,        \* the files found in the directory under a backup's name
    MaxTime, MaxFiles, MaxCrashes       \* bounds

(* stamp: mtime; good: a coherent archive; source: the archive itself.     *)
Files == [name : Nat, stamp : 0..MaxTime, good : BOOLEAN, source : BOOLEAN]
FileOf(n, t, good, source) == [name |-> n, stamp |-> t, good |-> good, source |-> source]

BackupAssumption ==
    /\ Keep \in Nat \ {0} /\ MaxTime \in Nat /\ MaxFiles \in Nat /\ MaxCrashes \in Nat
    /\ Foreign \subseteq Files /\ IsFiniteSet(Foreign)
    /\ \A f \in Foreign : f.name > MaxFiles
    /\ "free" \notin Runs

VARIABLES
    files,      \* the names codex-usage-*.sqlite3 in the directory
    temporary,  \* the names .codex-backup-*.tmp
    lock,       \* who holds .codex-backup.lock
    run,        \* the locals of create_backup
    clock,      \* of the file system: it may be set back
    crashes,
    published   \* history: every backup ever published

vars == <<files, temporary, lock, run, clock, crashes, published>>

Names == 1..MaxFiles
Away  == [at |-> "away", name |-> 0, prune |-> {}]

Init ==
    /\ files = Foreign /\ temporary = {}
    /\ lock = "free" /\ run = [r \in Runs |-> Away]
    /\ clock = 0 /\ crashes = 0 /\ published = {}

SetClock == /\ clock' \in (0..MaxTime) \ {clock}
            /\ UNCHANGED <<files, temporary, lock, run, crashes, published>>

Go(r, at) == run' = [run EXCEPT ![r].at = at]

(* Faulty: every run believes that it is alone. *)
LockedIgnored(r) == TRUE

Locked(r) == lock = "free"

Begin(r) ==
    /\ run[r].at = "away" /\ Locked(r)
    /\ \E n \in Names :
           /\ \A f \in files \cup temporary \cup published : f.name # n
           /\ \A q \in Runs : run[q].name # n
           /\ run' = [run EXCEPT ![r] = [Away EXCEPT !.at = "copy", !.name = n]]
           /\ temporary' = temporary \cup {FileOf(n, clock, FALSE, FALSE)}
    /\ lock' = r
    /\ UNCHANGED <<files, clock, crashes, published>>

Mine(r) == CHOOSE f \in temporary : f.name = run[r].name
OthersTemporary(r) == {f \in temporary : f.name # run[r].name}

(* The copy of the pages: whole, or found incomplete when it is verified. *)
Copy(r, good) ==
    /\ run[r].at = "copy"
    /\ temporary' = OthersTemporary(r) \cup {FileOf(run[r].name, clock, good, FALSE)}
    /\ Go(r, "verify")
    /\ UNCHANGED <<files, lock, clock, crashes, published>>

(* Faulty: the copy is verified after it has been published, if at all. *)
VerifiedLater(f) == TRUE

Verified(f) == f.good

Verify(r) ==
    /\ run[r].at = "verify" /\ Verified(Mine(r))
    /\ Go(r, "publish")
    /\ UNCHANGED <<files, temporary, lock, clock, crashes, published>>

Publish(r) ==
    /\ run[r].at = "publish"
    /\ files' = files \cup {Mine(r)} /\ published' = published \cup {Mine(r)}
    /\ Go(r, "unlink")
    /\ UNCHANGED <<temporary, lock, clock, crashes>>

Unlink(r) ==
    /\ run[r].at = "unlink"
    /\ temporary' = OthersTemporary(r)
    /\ Go(r, "list")
    /\ UNCHANGED <<files, lock, clock, crashes, published>>

(* A candidate is verified, not the archive, and has no second name. *)
Candidates == {f \in files : f.good /\ ~f.source /\ f \notin temporary}

Older(f, g) == f.stamp < g.stamp \/ (f.stamp = g.stamp /\ f.name < g.name)

(* The new backup, then the youngest of the others. *)
Kept(r, set) ==
    LET others == {f \in set : f.name # run[r].name}
    IN {f \in set : f.name = run[r].name
                    \/ Cardinality({g \in others : Older(f, g)}) < Keep - 1}

List(r) ==
    /\ run[r].at = "list"
    /\ run' = [run EXCEPT ![r].at = "prune", ![r].prune = Candidates \ Kept(r, Candidates)]
    /\ UNCHANGED <<files, temporary, lock, clock, crashes, published>>

(* One file at a time, the youngest first; what cannot be removed stays. *)
Prune(r) ==
    /\ run[r].at = "prune"
    /\ \E f \in run[r].prune :
           /\ \A g \in run[r].prune : ~Older(f, g)
           /\ run' = [run EXCEPT ![r].prune = @ \ {f}]
           /\ files' \in {files, files \ {f}}
    /\ UNCHANGED <<temporary, lock, clock, crashes, published>>

Released(r) == IF lock = r THEN "free" ELSE lock

Finish(r) ==
    /\ run[r].at = "prune" /\ run[r].prune = {}
    /\ run' = [run EXCEPT ![r] = Away] /\ lock' = Released(r)
    /\ UNCHANGED <<files, temporary, clock, crashes, published>>

(* An error, a timeout or a copy that is not verified; the temporary name  *)
(* that cannot be removed stays.                                           *)
Fail(r) ==
    /\ run[r].at \in {"copy", "verify", "publish", "unlink", "list"}
    /\ run' = [run EXCEPT ![r] = Away] /\ lock' = Released(r)
    /\ temporary' \in {OthersTemporary(r), temporary}
    /\ UNCHANGED <<files, clock, crashes, published>>

Crash(r) ==
    /\ run[r].at # "away" /\ crashes < MaxCrashes
    /\ run' = [run EXCEPT ![r] = Away] /\ lock' = Released(r)
    /\ crashes' = crashes + 1
    /\ UNCHANGED <<files, temporary, clock, published>>

create_backup(r) ==
    \/ Begin(r) \/ (\E good \in BOOLEAN : Copy(r, good)) \/ Verify(r) \/ Publish(r)
    \/ Unlink(r) \/ List(r) \/ Prune(r) \/ Finish(r) \/ Fail(r) \/ Crash(r)

Next == SetClock \/ \E r \in Runs : create_backup(r)

Spec == Init /\ [][Next]_vars

-----------------------------------------------------------------------------
TypeOK ==
    /\ files \subseteq Files /\ temporary \subseteq Files /\ published \subseteq Files
    /\ lock \in {"free"} \cup Runs /\ clock \in 0..MaxTime
    /\ \A r \in Runs : /\ run[r].prune \subseteq files
                       /\ run[r].at # "away" => lock = r

(* What carries the name of a backup is a coherent archive from the moment *)
(* it appears, wherever a run failed or died.                              *)
PublishedIsGood == files \ Foreign \subseteq {f \in files : f.good}

(* A file that is no verified backup of this directory is never removed:   *)
(* not the archive itself, nor a damaged or unfinished file.               *)
ForeignKept == {f \in Foreign : f.source \/ ~f.good} \subseteq files

(* The newest successful backup survives its own pruning, also when the    *)
(* clock has been set back below the others.                               *)
OwnKept ==
    \A r \in Runs : run[r].at \in {"unlink", "list", "prune"}
                        => \E f \in files : f.name = run[r].name

Good(set) == {f \in set : f.good /\ ~f.source}

EnoughLeft == Good(files) \subseteq Good(files') \/ Keep <= Cardinality(Good(files'))

(* No good backup is lost, or Keep of them are left: pruning leaves no     *)
(* fewer than Keep, and none goes where there are not even that many.      *)
EnoughKept == [][EnoughLeft]_vars
=============================================================================
