--------------------------- MODULE AnalyticsCache ---------------------------
(***************************************************************************)
(* How an analytics request names the archive it reads and shares what it   *)
(* computes (analytics_cache.py; read_snapshot in analytics.py).  Requests  *)
(* are threads of the HTTP server; the monitor commits to the archive and   *)
(* may replace its file meanwhile.  A persistent observer connection, used  *)
(* under a lock, tells by its data_version whether anything was published.  *)
(***************************************************************************)
EXTENDS Integers, SequencesExt

CONSTANTS
    Requests,
    MaxEntries,         \* max_entries of the cache
    MaxWrites, MaxReplacements, MaxFaults       \* bounds

None == "none"     \* no thread, no phase
NoName == <<>>
NoContent == <<0, 0>>

CacheAssumption ==
    /\ None \notin Requests
    /\ MaxEntries \in Nat /\ MaxWrites \in Nat /\ MaxReplacements \in Nat /\ MaxFaults \in Nat

VARIABLES
    files,      \* files[i]: stamp (what stat shows) and the number of its commits
    writing,    \* a commit whose frames are in the file but not published: its file
    observer,   \* file, identity it was opened for, token, commits at that time
    tokens,
    lock,       \* who holds SnapshotRevisions._lock
    look,       \* the observation under way
    req,        \* of each request
    pending,    \* pending[k]: the request that computes k
    values,     \* the cache, the least recently used first
    faults,
    named       \* history: every name given with the content it stands for

vars == <<files, writing, observer, tokens, lock, look, req, pending, values, faults, named>>
archive == <<files, writing>>
cache == <<pending, values>>

Path == Len(files)                      \* what the pathname leads to
archive_revision == <<Path, files[Path].stamp>>

(* What can be read in a file: which it is, and how far it has come.        *)
Content(i) == <<i, files[i].commits>>

NoObserver == [file |-> 0, identity |-> 0, token |-> 0, base |-> 0]
NoLook == [phase |-> None, step |-> 0, attempt |-> 0, before |-> <<0, 0>>, observed |-> <<0, 0>>,
           version |-> 0, stable |-> FALSE]
NewRequest == [stage |-> "observe", expected |-> NoName, before |-> NoName, name |-> NoName,
               file |-> 0, content |-> NoContent, future |-> None, result |-> NoContent]

data_version == files[observer.file].commits - observer.base

Init ==
    /\ files = <<[stamp |-> 0, commits |-> 0]>> /\ writing = 0
    /\ observer = NoObserver /\ tokens = 0 /\ lock = None /\ look = NoLook
    /\ req = [r \in Requests |-> NewRequest]
    /\ pending = <<>> /\ values = <<>> /\ faults = 0 /\ named = {}

-----------------------------------------------------------------------------
(* The monitor. *)

Stamps == FoldSeq(LAMBDA f, n : n + f.stamp, 0, files)

(* The frames of a commit, or a checkpoint: stat shows them at once. *)
WriteFrames ==
    /\ writing = 0 /\ Stamps < MaxWrites
    /\ files' = [files EXCEPT ![Path].stamp = @ + 1]
    /\ writing' \in {0, Path}
    /\ UNCHANGED <<observer, tokens, lock, look, req, cache, faults, named>>

(* Only now do readers see the commit. *)
Publish ==
    /\ writing # 0
    /\ files' = [files EXCEPT ![writing].commits = @ + 1]
    /\ writing' = 0
    /\ UNCHANGED <<observer, tokens, lock, look, req, cache, faults, named>>

(* A corrupt archive is put aside, another built: a new file at the path. *)
Replace ==
    /\ Len(files) <= MaxReplacements
    /\ files' = Append(files, [stamp |-> 0, commits |-> 0])
    /\ UNCHANGED <<writing, observer, tokens, lock, look, req, cache, faults, named>>

-----------------------------------------------------------------------------
(* An observation: stat, the observer, its version, stat, version, stat.    *)

Holds(r) == lock = r /\ look # NoLook

BeginLook(phase) == [NoLook EXCEPT !.phase = phase, !.step = 1, !.attempt = 1]

Stat(r) ==
    /\ Holds(r) /\ look.step = 1
    /\ look' = [look EXCEPT !.before = archive_revision, !.step = 2]
    /\ UNCHANGED <<archive, observer, tokens, lock, req, cache, faults, named>>

(* An observer of another file is replaced: a new one has a token of its own. *)
Observer(r) ==
    /\ Holds(r) /\ look.step = 2
    /\ IF observer # NoObserver /\ observer.identity = look.before[1]
       THEN UNCHANGED <<observer, tokens>>
       ELSE /\ observer' = [file |-> Path, identity |-> look.before[1],
                            token |-> tokens + 1, base |-> files[Path].commits]
            /\ tokens' = tokens + 1
    /\ look' = [look EXCEPT !.step = 3]
    /\ UNCHANGED <<archive, lock, req, cache, faults, named>>

Version(r) ==
    /\ Holds(r) /\ look.step = 3
    /\ look' = [look EXCEPT !.version = data_version, !.step = 4]
    /\ UNCHANGED <<archive, observer, tokens, lock, req, cache, faults, named>>

StatAgain(r) ==
    /\ Holds(r) /\ look.step = 4
    /\ look' = [look EXCEPT !.observed = archive_revision, !.step = 5]
    /\ UNCHANGED <<archive, observer, tokens, lock, req, cache, faults, named>>

VersionAgain(r) ==
    /\ Holds(r) /\ look.step = 5
    /\ look' = [look EXCEPT !.stable = (look.version = data_version), !.step = 6]
    /\ UNCHANGED <<archive, observer, tokens, lock, req, cache, faults, named>>

Name == <<archive_revision, observer.token, look.version>>

Observed ==
    IF look.stable /\ look.before[1] = Path /\ look.observed = archive_revision THEN Name ELSE NoName

(* Faulty: what was observed before the archive was opened is not compared. *)
SurvivedPin(r, name) == name # NoName /\ req[r].before = name

Survived(r, name) == name # NoName /\ req[r].expected = name /\ req[r].before = name

(* Where the answer goes: observe, then twice in pin.                      *)
Answer(r, name) ==
    CASE look.phase = "observe" ->
             /\ req' = [req EXCEPT ![r].expected = name, ![r].stage = "open"]
             /\ lock' = None /\ look' = NoLook /\ UNCHANGED named
      [] look.phase = "before" ->
             /\ req' = [req EXCEPT ![r].before = name, ![r].stage = "begin"]
             /\ look' = NoLook /\ UNCHANGED <<lock, named>>
      [] look.phase = "after" ->
             LET mine == IF Survived(r, name) THEN name ELSE NoName
             IN /\ req' = [req EXCEPT ![r].name = mine, ![r].stage = "look up"]
                /\ named' = IF mine = NoName THEN named ELSE named \cup {<<mine, req[r].content>>}
                /\ lock' = None /\ look' = NoLook

StatLast(r) ==
    /\ Holds(r) /\ look.step = 6
    /\ Answer(r, Observed)
    /\ UNCHANGED <<archive, observer, tokens, cache, faults>>

(* An SQLite error: the observer is opened again, once. *)
ObserverFails(r) ==
    /\ Holds(r) /\ look.step \in {2, 3, 5} /\ faults < MaxFaults
    /\ faults' = faults + 1 /\ observer' = NoObserver
    /\ IF look.attempt = 1
       THEN /\ look' = [BeginLook(look.phase) EXCEPT !.attempt = 2]
            /\ UNCHANGED <<req, lock, named>>
       ELSE Answer(r, NoName)
    /\ UNCHANGED <<archive, tokens, cache>>

_read_observation_locked(r) ==
    \/ Stat(r) \/ Observer(r) \/ Version(r) \/ StatAgain(r) \/ VersionAgain(r) \/ StatLast(r)
    \/ ObserverFails(r)

-----------------------------------------------------------------------------
(* A request: observe, open, pin, then the cache. *)

observe(r) ==
    /\ req[r].stage = "observe" /\ lock = None
    /\ lock' = r /\ look' = BeginLook("observe")
    /\ UNCHANGED <<archive, observer, tokens, req, cache, faults, named>>

(* An archive with old identifiers is migrated into memory: its content is  *)
(* that of the moment it is opened.                                        *)
connect_database(r) ==
    /\ req[r].stage = "open"
    /\ \E content \in {NoContent, Content(Path)} :
           req' = [req EXCEPT ![r].file = Path, ![r].content = content, ![r].stage = "pin"]
    /\ UNCHANGED <<archive, observer, tokens, lock, look, cache, faults, named>>

pin(r) ==
    /\ req[r].stage = "pin" /\ lock = None
    /\ lock' = r /\ look' = BeginLook("before")
    /\ UNCHANGED <<archive, observer, tokens, req, cache, faults, named>>

(* BEGIN and a first SELECT pin what is published. *)
BeginRead(r) ==
    /\ req[r].stage = "begin" /\ lock = r /\ look = NoLook
    /\ req' = [req EXCEPT ![r].content = IF @ = NoContent THEN Content(req[r].file) ELSE @,
                          ![r].stage = "pinned"]
    /\ look' = BeginLook("after")
    /\ UNCHANGED <<archive, observer, tokens, lock, cache, faults, named>>

(* The archive cannot be opened or read: the request ends. *)
ReadFails(r) ==
    /\ (req[r].stage = "open" \/ (req[r].stage = "begin" /\ look = NoLook))
    /\ faults < MaxFaults /\ faults' = faults + 1
    /\ lock' = IF lock = r THEN None ELSE lock
    /\ req' = [req EXCEPT ![r].stage = "failed"]
    /\ UNCHANGED <<archive, observer, tokens, look, cache, named>>

Key(r) == req[r].name
Hit(k) == \E i \in DOMAIN values : values[i][1] = k

IsPending(k) == k \in DOMAIN pending

(* An unnamed snapshot shares nothing. *)
ComputeAlone(r) ==
    /\ req[r].stage = "look up" /\ Key(r) = NoName
    /\ req' = [req EXCEPT ![r].stage = "done", ![r].result = req[r].content]
    /\ UNCHANGED <<archive, observer, tokens, lock, look, cache, faults, named>>

(* Under AnalyticsCache._lock: a value, a future to wait for, or one's own. *)
LookUp(r) ==
    LET k == Key(r) IN
    /\ req[r].stage = "look up" /\ k # NoName
    /\ \/ /\ \E i \in DOMAIN values :
                 /\ values[i][1] = k
                 /\ values' = Append(RemoveAt(values, i), values[i])
                 /\ req' = [req EXCEPT ![r].stage = "done", ![r].result = values[i][2]]
          /\ UNCHANGED pending
       \/ /\ ~Hit(k) /\ IsPending(k)
          /\ req' = [req EXCEPT ![r].stage = "wait", ![r].future = pending[k]]
          /\ UNCHANGED cache
       \/ /\ ~Hit(k) /\ ~IsPending(k)
          /\ pending' = [x \in DOMAIN pending \cup {k} |-> IF x = k THEN r ELSE pending[x]]
          /\ req' = [req EXCEPT ![r].stage = "compute"]
          /\ UNCHANGED values
    /\ UNCHANGED <<archive, observer, tokens, lock, look, faults, named>>

Without(k) == [x \in DOMAIN pending \ {k} |-> pending[x]]
Newest(s, n) == SubSeq(s, IF Len(s) > n THEN Len(s) - n + 1 ELSE 1, Len(s))

(* The oldest make room, for the entries or for their bytes; what is larger *)
(* than the whole cache is not kept.                                       *)
Room(s, e) == {s} \cup {Newest(Append(s, e), n) : n \in 1..MaxEntries}

Compute(r) ==
    /\ req[r].stage = "compute"
    /\ values' \in Room(values, <<Key(r), req[r].content>>)
    /\ pending' = Without(Key(r))
    /\ req' = [req EXCEPT ![r].stage = "done", ![r].result = req[r].content]
    /\ UNCHANGED <<archive, observer, tokens, lock, look, faults, named>>

(* Faulty: the future of a failed computation is never resolved. *)
ComputeFailsSilently(r) ==
    /\ req[r].stage = "compute" /\ faults < MaxFaults
    /\ faults' = faults + 1
    /\ req' = [req EXCEPT ![r].stage = "gone"]
    /\ UNCHANGED <<archive, observer, tokens, lock, look, cache, named>>

ComputeFails(r) ==
    /\ req[r].stage = "compute" /\ faults < MaxFaults
    /\ faults' = faults + 1
    /\ pending' = Without(Key(r))
    /\ req' = [req EXCEPT ![r].stage = "failed"]
    /\ UNCHANGED <<archive, observer, tokens, lock, look, values, named>>

Resolved(r) == req[r].stage \in {"done", "failed"}

(* Who waits gets what the owner got, an exception too. *)
Wake(r) ==
    /\ req[r].stage = "wait" /\ Resolved(req[r].future)
    /\ req' = [req EXCEPT ![r].stage = req[req[r].future].stage, ![r].result = req[req[r].future].result]
    /\ UNCHANGED <<archive, observer, tokens, lock, look, cache, faults, named>>

get_or_compute(r) == LookUp(r) \/ Compute(r) \/ ComputeFails(r) \/ Wake(r)

Request(r) ==
    \/ observe(r) \/ connect_database(r) \/ pin(r) \/ BeginRead(r) \/ ReadFails(r) \/ _read_observation_locked(r)
    \/ ComputeAlone(r) \/ get_or_compute(r)

Next == WriteFrames \/ Publish \/ Replace \/ \E r \in Requests : Request(r)

Spec == Init /\ [][Next]_vars

(* Every thread runs.  *)
FairSpec == Spec /\ \A r \in Requests : WF_vars(Request(r))

-----------------------------------------------------------------------------
TypeOK ==
    /\ writing \in 0..Path /\ lock \in Requests \cup {None}
    /\ Len(values) <= MaxEntries
    /\ \A i, j \in DOMAIN values : values[i][1] = values[j][1] => i = j
    /\ \A k \in DOMAIN pending : req[pending[k]].stage = "compute"
    /\ look # NoLook => lock # None

(* A name stands for one content of the archive: neither a commit that was  *)
(* on its way nor another file nor a copy made earlier bears it as well.   *)
NamesTellApart ==
    \A x, y \in named : x[1] = y[1] => x[2] = y[2]

(* Nobody is served what was computed from another content than its own.   *)
ServedIsPinned ==
    \A r \in Requests : req[r].stage = "done" => req[r].result = req[r].content

(* Of all who miss the same value at a time one computes it.               *)
OneComputes ==
    \A r, s \in Requests :
        req[r].stage = "compute" /\ req[s].stage = "compute" /\ r # s => Key(r) # Key(s)

(* Every request ends, also one that waits for another that fails.         *)
EveryRequestEnds == \A r \in Requests : <>(req[r].stage \in {"done", "failed"})
=============================================================================
