----------------------------- MODULE TokenUsage -----------------------------
(***************************************************************************)
(* Token collection (token_usage.py) from three local sources that other   *)
(* programs write at any moment:                                           *)
(*   Codex     rollout files with cumulative totals, appended to, replaced *)
(*             in place, copied or moved to archived_sessions;             *)
(*   OpenCode  messages whose rows appear up to Overlap after their time;  *)
(*   Hermes    counters that only grow, until one starts again.            *)
(* A run collects the sources in one transaction and their rows are        *)
(* disjoint, so the collection of a source is one step.  Retention, labels *)
(* and prices are left out.                                                *)
(***************************************************************************)
EXTENDS Integers, Sequences, Functions, FiniteSetsExt

CONSTANTS
    Messages,       \* OpenCode message ids
    Counters,       \* Hermes sessions and models
    Overlap,        \* of two OpenCode readings (60 s)
    MaxLines, MaxTotal, MaxInode, MaxTime, MaxCount    \* bounds

ASSUME TokenAssumption ==
    /\ Overlap \in Nat /\ MaxLines \in Nat /\ MaxTotal \in Nat
    /\ MaxInode \in Nat \ {0} /\ MaxTime \in Nat /\ MaxCount \in Nat \ {0}

VARIABLES
    log,        \* Codex: the totals one session has written, 0 its session_meta
    hermes,     \* ... and whether it is run by Hermes
    file,       \* path -> a rollout with the first `length` lines of log, `shift` bytes
                \* later than in another, the last line perhaps unfinished
    cursor,     \* collector_state of the rollout
    codex,      \* token_usage_events: line and total -> tokens
    message,    \* OpenCode: id -> time_updated, whether the answer is complete
    watermark,
    opencode,   \* token_usage_events: id -> the time of the row it was read from
    counter,    \* Hermes: its counters, Absent before they exist
    state,      \* collector_state of the counters
    initialized,
    polled,     \* token_usage_events: the tokens of each counter's deltas
    clock, inodes,
    due,        \* history: what the last complete collections owe
    fresh,      \* history: what Hermes has used since a counter was last read
    restarted   \* history: the counters that have started again since then

codexVars  == <<log, hermes, file, cursor, codex, inodes>>
openVars   == <<message, watermark, opencode, clock>>
hermesVars == <<counter, state, initialized, polled, fresh, restarted>>
vars == <<codexVars, openVars, hermesVars, due>>

Absent == -1
Paths  == {1, 2}                    \* archived_sessions, sessions: in the order read
NoFile == [inode |-> 0, length |-> 0, shift |-> 0, partial |-> FALSE]
NoCursor == [inode |-> 0, offset |-> 0, total |-> 0, skip |-> FALSE]
Unread == [updated |-> 0, done |-> FALSE]

(* The tokens of a run of totals: a total that falls starts again. *)
Gain(totals, i)  == IF i > 1 /\ totals[i] > totals[i - 1] THEN totals[i] - totals[i - 1] ELSE 0
Used(totals, n)  == FoldFunction(+, 0, [i \in 1..n |-> Gain(totals, i)])
Summed(f)        == FoldFunction(+, 0, f)
Whole(f)         == IF f.partial THEN f.length - 1 ELSE f.length

Init ==
    /\ log = <<0>> /\ hermes \in BOOLEAN
    /\ file = [p \in Paths |-> IF p = 2 THEN [NoFile EXCEPT !.inode = 1, !.length = 1]
                                        ELSE NoFile]
    /\ cursor = NoCursor /\ codex = <<>> /\ inodes = 1
    /\ message = [m \in Messages |-> Unread]
    /\ watermark = 0 /\ opencode = [m \in Messages |-> 0]
    /\ counter \in [Counters -> {Absent, 1}]
    /\ state = [c \in Counters |-> Absent] /\ initialized = FALSE
    /\ polled = [c \in Counters |-> 0] /\ fresh = [c \in Counters |-> 0] /\ restarted = {}
    /\ clock = 1
    /\ due = [codex |-> 0, opencode |-> opencode]

-----------------------------------------------------------------------------
(* The three sources. *)

(* The end of a line may be written later than its beginning. *)
Record(v, partial) ==
    /\ file[2] # NoFile /\ ~file[2].partial /\ file[2].length = Len(log)
    /\ Len(log) < MaxLines
    /\ log' = Append(log, v)
    /\ file' = [file EXCEPT ![2].length = @ + 1, ![2].partial = partial]
    /\ UNCHANGED <<hermes, cursor, codex, inodes, openVars, hermesVars, due>>

Complete ==
    /\ file[2].partial
    /\ file' = [file EXCEPT ![2].partial = FALSE]
    /\ UNCHANGED <<log, hermes, cursor, codex, inodes, openVars, hermesVars, due>>

(* A copy of one path, perhaps written anew, replaces the other or itself. *)
Copy(from, to, shift) ==
    /\ file[from] # NoFile /\ ~file[from].partial /\ inodes < MaxInode
    /\ file[from].length >= file[to].length
    /\ inodes' = inodes + 1
    /\ file' = [file EXCEPT ![to] = [file[from] EXCEPT !.inode = inodes', !.shift = shift]]
    /\ UNCHANGED <<log, hermes, cursor, codex, openVars, hermesVars, due>>

Move == /\ file[2] # NoFile /\ ~file[2].partial
        /\ file' = [file EXCEPT ![1] = file[2], ![2] = NoFile]
        /\ UNCHANGED <<log, hermes, cursor, codex, inodes, openVars, hermesVars, due>>

Answer(m, t, done) ==
    /\ clock <= t + Overlap /\ t <= clock /\ t > message[m].updated
    /\ message' = [message EXCEPT ![m] = [updated |-> t, done |-> done]]
    /\ UNCHANGED <<codexVars, watermark, opencode, clock, hermesVars, due>>

Tick == /\ clock < MaxTime /\ clock' = clock + 1
        /\ UNCHANGED <<codexVars, message, watermark, opencode, hermesVars, due>>

Use(c) ==
    /\ counter[c] < MaxCount /\ polled[c] + fresh[c] < MaxCount
    /\ counter' = [counter EXCEPT ![c] = IF @ = Absent THEN 1 ELSE @ + 1]
    /\ fresh' = [fresh EXCEPT ![c] = IF state[c] # Absent \/ initialized THEN @ + 1 ELSE @]
    /\ UNCHANGED <<codexVars, openVars, state, initialized, polled, restarted, due>>

StartAgain(c) ==
    /\ counter[c] > 0
    /\ counter' = [counter EXCEPT ![c] = 0] /\ restarted' = restarted \cup {c}
    /\ UNCHANGED <<codexVars, openVars, state, initialized, polled, fresh, due>>

-----------------------------------------------------------------------------
(* collect_codex. *)

Size(f) == f.length + f.shift

(* Faulty: the position survives the replacement of the file. *)
ResumedAlways(s, f) == IF s.offset > Size(f) THEN NoCursor ELSE s

(* Another inode or a shorter file is read from its beginning. *)
Resumed(s, f) == IF s.inode # f.inode \/ s.offset > Size(f) THEN NoCursor ELSE s

Consumed(f) == Whole(f)

(* session_meta is the first line; what it says is kept with the position. *)
Skipped(s) == IF s.offset = 0 THEN hermes ELSE s.skip

Counts(before, now) == now > before

(* The lines of f after the position, n of them before a read error. *)
Read(r, f, n) ==
    LET s == Resumed(r.cursor, f)
        first == IF s.offset > f.shift THEN s.offset - f.shift + 1 ELSE 1
        last  == Min({first - 1 + n, Consumed(f)})
        Before(i) == IF i = first THEN s.total ELSE log[i - 1]
        counted == {i \in first .. Min({last, Whole(f)}) : Counts(Before(i), log[i]) /\ ~Skipped(s)}
    IN [events |-> [e \in {<<i, log[i]>> : i \in counted} |-> log[e[1]] - Before(e[1])],
        next   |-> [inode |-> f.inode, offset |-> last + f.shift, skip |-> Skipped(s),
                    total |-> IF last < first THEN s.total ELSE log[last]],
        whole  |-> last = Consumed(f)]

(* Upserts: a line read again replaces its own event. *)
Upserted(old, new) == [e \in DOMAIN old \cup DOMAIN new |->
                          IF e \in DOMAIN new THEN new[e] ELSE old[e]]

Visited(r, p, n) ==
    IF file[p] = NoFile THEN r
    ELSE LET s == Read(r, file[p], n) IN
         [cursor |-> IF s.whole THEN s.next ELSE r.cursor,
          codex  |-> Upserted(r.codex, s.events),
          failed |-> r.failed \/ ~s.whole]

CollectCodex(n, m) ==
    LET r == Visited(Visited([cursor |-> cursor, codex |-> codex, failed |-> FALSE], 1, n), 2, m)
        longest == Max({Whole(file[p]) : p \in Paths})
    IN /\ cursor' = r.cursor /\ codex' = r.codex
       /\ due' = IF r.failed \/ hermes THEN due
                 ELSE [due EXCEPT !.codex = Max({@, Used(log, longest)})]
       /\ UNCHANGED <<log, hermes, file, inodes, openVars, hermesVars>>

-----------------------------------------------------------------------------
(* collect_opencode. *)

Since == IF watermark > Overlap THEN watermark - Overlap ELSE 0

(* Rows come in the order of their time; a read error stops before `until`. *)
CollectOpencode(until) ==
    LET rows == {m \in Messages : message[m].updated \in Since .. until - 1}
        whole == until > MaxTime
    IN /\ opencode' = [m \in Messages |-> IF m \in rows /\ message[m].done
                                          THEN message[m].updated ELSE opencode[m]]
       /\ watermark' = IF whole THEN Max({Since} \cup {message[m].updated : m \in rows})
                                ELSE watermark
       /\ due' = IF whole THEN [due EXCEPT !.opencode = [m \in Messages |->
                     IF message[m].done THEN message[m].updated ELSE @[m]]] ELSE due
       /\ UNCHANGED <<codexVars, message, clock, hermesVars>>

-----------------------------------------------------------------------------
(* collect_hermes. *)

Rows == {c \in Counters : counter[c] # Absent}

(* Faulty: one reading, even cut short, makes the rest count from zero. *)
InitializedEarly(read) == TRUE

Initialized(read) == read = Rows

Known(c) == counter[c]

(* The first reading of a counter that existed before collections began. *)
Baseline(c) == state[c] = Absent /\ ~initialized

Delta(c) ==
    LET before == IF state[c] = Absent THEN 0 ELSE state[c]
    IN IF ~Baseline(c) /\ counter[c] > before THEN counter[c] - before ELSE 0

(* The rows in `read` are read before an error, or all of them. *)
CollectHermes(read) ==
    /\ polled' = [c \in Counters |-> polled[c] + IF c \in read THEN Delta(c) ELSE 0]
    /\ state' = [c \in Counters |-> IF c \in read THEN Known(c) ELSE state[c]]
    /\ initialized' = (initialized \/ Initialized(read))
    /\ fresh' = [c \in Counters |-> IF c \in read THEN 0 ELSE fresh[c]]
    /\ restarted' = restarted \ read
    /\ UNCHANGED <<codexVars, openVars, counter, due>>

-----------------------------------------------------------------------------
CodexNext ==
    \/ \E v \in 1..MaxTotal, partial \in BOOLEAN : Record(v, partial)
    \/ Complete \/ Move
    \/ \E from, to \in Paths, shift \in {0, 1} : Copy(from, to, shift)
    \/ \E n, m \in 0..Len(log) : CollectCodex(n, m)

OpencodeNext ==
    \/ Tick
    \/ \E m \in Messages, t \in 1..MaxTime, done \in BOOLEAN : Answer(m, t, done)
    \/ \E until \in 0..MaxTime + 1 : CollectOpencode(until)

HermesNext ==
    \/ \E c \in Counters : Use(c) \/ StartAgain(c)
    \/ \E read \in SUBSET Rows : CollectHermes(read)

Next == CodexNext \/ OpencodeNext \/ HermesNext

Spec == Init /\ [][Next]_vars

-----------------------------------------------------------------------------
TypeOK ==
    /\ file \in [Paths -> [inode : 0..MaxInode, length : 0..Len(log), shift : {0, 1},
                        partial : BOOLEAN]]
    /\ cursor.inode \in 0..MaxInode /\ cursor.skip \in BOOLEAN
    /\ cursor.offset \in 0..Len(log) + 1 /\ cursor.total \in 0..MaxTotal
    /\ \A p \in Paths : cursor.inode = file[p].inode => cursor.offset <= Size(file[p])
    /\ \A e \in DOMAIN codex : e[1] \in DOMAIN log /\ codex[e] \in 1..MaxTotal
    /\ opencode \in [Messages -> 0..MaxTime] /\ watermark \in 0..MaxTime
    /\ state \in [Counters -> Absent..MaxCount] /\ initialized \in BOOLEAN
    /\ polled \in [Counters -> Nat]

(* The events of a rollout add up to what its session has used: nothing    *)
(* that a complete collection could read is missing, and nothing counts    *)
(* twice when the file is replaced, copied, moved or read in part.         *)
CodexCountedOnce ==
    Summed(codex) \in due.codex .. Used(log, Len(log))

(* A rollout that Hermes has originated is left to the Hermes collector,   *)
(* also in the collections that do not read its first line again.          *)
HermesLeftOut == hermes => codex = <<>>

(* No message is counted from an older row than the one the last complete  *)
(* collection could see, also if that row appeared after newer ones.       *)
OpencodeCurrent == \A m \in Messages : opencode[m] >= due.opencode[m]

(* A reading counts what Hermes has used since it last read the counter:   *)
(* no more and no less, except that a counter which has started again may  *)
(* hide a part.  What was used before the first reading is not counted,    *)
(* also if that reading was cut short by an error.                         *)
HermesExact ==
    [][\A c \in Counters :
        LET new == polled'[c] - polled[c] IN
        IF fresh'[c] >= fresh[c] THEN new = 0
        ELSE new \in 0..fresh[c] /\ (c \notin restarted => new = fresh[c])]_vars
=============================================================================
