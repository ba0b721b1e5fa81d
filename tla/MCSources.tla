----------------------------- MODULE MCSources -----------------------------
(* What is read from other programs: the tokens of Codex, OpenCode or Hermes,
   the limits of the Codex app-server, and what history.json and data.json
   keep of the limits.  One at a time; the variables of the others stay as
   they were found. *)
EXTENDS TokenUsage

TwoMessages == {"m1", "m2"}
TwoCounters == {"h1", "h2"}

Group(i, p, s) == [id |-> i, primary |-> p, secondary |-> s]

(* A server that leaves or stays, or one whose descendant stays. *)
Servers == {<<{"leader"}, {}>>, <<{"leader"}, {"leader"}>>, <<{"leader", "child"}, {"child"}>>}

(* Two limit groups in either order, complete or not. *)
SomeReplies == {<<Group(2, "short", "weekly"), Group(1, "weekly", "short")>>,
                <<Group(2, "weekly", "other"), Group(1, "other", "other")>>,
                <<Group(1, "other", "other")>>}

CONSTANTS Replies, Deadline, MaxLine, MaxWrites

VARIABLES source, timer, alive, deaf, open, pipe, written, client, sent

limits == <<timer, alive, deaf, open, pipe, written, client, sent>>

Limits == INSTANCE CodexClient WITH clock <- timer

ASSUME LimitsAssumption == Limits!CodexAssumption

-----------------------------------------------------------------------------
CONSTANTS Retention, MaxEntries, Times, Readings, OldEntries, MaxUpdates, MaxFaults

Pct(five, weekly) == [w \in {"5h", "weekly"} |-> IF w = "5h" THEN five ELSE weekly]

FourTimes == 1..4

(* Either window alone, or both with a forecast. *)
SomeReadings == {[pct |-> Pct(50, -1), forecast |-> FALSE],
                 [pct |-> Pct(-1, 50), forecast |-> FALSE],
                 [pct |-> Pct(60, 50), forecast |-> TRUE]}

OneOldEntry == {[epoch |-> 2, pct |-> Pct(50, -1), forecast |-> TRUE, raw |-> TRUE]}

VARIABLES rolling, data, backups, step, job, updates, failures, accepted

files == <<rolling, data, backups, step, job, updates, failures, accepted>>

Rolling == INSTANCE History WITH history <- rolling, stage <- step, faults <- failures

ASSUME FilesAssumption == Rolling!HistoryAssumption

-----------------------------------------------------------------------------
MCInit ==
    /\ source \in {"codex", "opencode", "hermes", "limits", "files"}
    /\ Init /\ Limits!Init /\ Rolling!Init
    /\ source = "codex" \/ ~hermes
    /\ source = "hermes" \/ \A c \in Counters : counter[c] = Absent
    /\ IF source = "limits" THEN <<alive, deaf>> \in Servers ELSE alive = {"leader"} /\ deaf = {}
    /\ source = "files" \/ (data.kind = "absent" /\ rolling.kind = "good" /\ rolling.entries = {})

MCNext ==
    /\ \/ source = "codex" /\ CodexNext /\ UNCHANGED <<limits, files>>
       \/ source = "opencode" /\ OpencodeNext /\ UNCHANGED <<limits, files>>
       \/ source = "hermes" /\ HermesNext /\ UNCHANGED <<limits, files>>
       \/ source = "limits" /\ Limits!Next /\ UNCHANGED <<vars, files>>
       \/ source = "files" /\ Rolling!Next /\ UNCHANGED <<vars, limits>>
    /\ UNCHANGED source

MCSpec == MCInit /\ [][MCNext]_<<source, vars, limits, files>>

(* What the databases say of the tokens used: Codex's rollouts are counted
   once and not beside Hermes' own counters; OpenCode's answers are as recent
   as the last complete collection could see. *)
TokensAreCounted == TypeOK /\ CodexCountedOnce /\ HermesLeftOut /\ OpencodeCurrent

(* One exchange with the app-server: asked at most once and after the
   handshake, a result only in answer to it, no process left behind, and the
   choice of a group independent of the server's order. *)
ExchangeIsSound ==
    /\ Limits!TypeOK /\ Limits!AskedOnce /\ Limits!AnswersRequest
    /\ Limits!NoOrphan /\ Limits!OrderIrrelevant

(* No answer is left unread because the server has exited (AnswerRead). *)
AnswerIsRead == Limits!AnswerRead

(* Wherever an update of the files ends, data.json shows the newest reading
   accepted, in today's form. *)
ShownIsNewest == Rolling!TypeOK /\ Rolling!NewestIsShown /\ Rolling!NothingRawRemains

(* No update loses what it read, or stops halfway at a file it refuses. *)
UpdatesAreWhole ==
    [][source = "files" => Rolling!UpdatesLoseNothing]_<<source, vars, limits, files>>
=============================================================================
