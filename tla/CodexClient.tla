----------------------------- MODULE CodexClient -----------------------------
(***************************************************************************)
(* One collection (fetch_status): the client starts the Codex app-server   *)
(* in a process group of its own, shakes hands over its standard streams,  *)
(* reads the limits, chooses a limit group and stops the whole group.      *)
(*                                                                         *)
(* The app-server is not part of the repository: it writes any reply, any  *)
(* number of times and in fragments, closes its streams, exits, leaves a   *)
(* descendant behind or ignores SIGTERM.                                   *)
(***************************************************************************)
EXTENDS Integers, Sequences, FiniteSets, SequencesExt

CONSTANTS
    Replies,        \* the results a reply 2 may carry, each a sequence of groups
    Deadline,       \* of the exchange (timeout_seconds), in polls
    MaxLine,        \* the longest line, in fragments (MAX_PROTOCOL_LINE_BYTES)
    MaxWrites       \* bound: what the server writes

Kinds == {"short", "weekly", "other"}       \* of the windows that a group may have

(* The groups of a reply are the entries of an object: their names differ. *)
CodexAssumption ==
    /\ Deadline \in Nat \ {0} /\ MaxLine \in Nat \ {0} /\ MaxWrites \in Nat
    /\ \A r \in Replies :
           /\ r \in Seq([id : Nat, primary : Kinds, secondary : Kinds]) /\ r # <<>>
           /\ \A i, j \in DOMAIN r : r[i].id = r[j].id => i = j

Processes == {"leader", "child"}

(* What the server writes: fragments, and the ends of whole messages.      *)
(* A fragment belongs to the message that ends after it.                   *)
Plain(kind) == [kind |-> kind, groups |-> <<>>]
Answers  == {[kind |-> "answer", groups |-> g] : g \in Replies}
Tokens   == {Plain(k) : k \in {"part", "init", "initError", "readError", "noResult",
                               "junk", "notice"}} \cup Answers

VARIABLES
    clock,
    alive,      \* the processes of the server's group
    deaf,       \* those that ignore SIGTERM
    open,       \* the output streams somebody may still write to
    pipe,       \* written to stdout and not yet read
    written,
    client,     \* the locals of _read_result and fetch_status
    sent        \* what the client wrote to stdin

vars == <<clock, alive, deaf, open, pipe, written, client, sent>>
server == <<alive, deaf, open, pipe, written>>

Init ==
    /\ clock = 0
    /\ alive \in {{"leader"}, Processes} /\ deaf \in SUBSET alive
    /\ open = {"out", "err"}
    /\ pipe = <<>> /\ written = 0
    /\ client = [at |-> "start", buffer |-> <<>>, closed |-> {}, ready |-> FALSE,
                 result |-> <<>>, invalid |-> FALSE, outcome |-> "none", raced |-> FALSE]
    /\ sent = <<>>

Tick == /\ clock < Deadline
        /\ clock' = clock + 1
        /\ UNCHANGED <<server, client, sent>>

-----------------------------------------------------------------------------
(* The app-server. *)

Write(t) ==
    /\ alive # {} /\ "out" \in open /\ written < MaxWrites
    /\ pipe' = Append(pipe, t) /\ written' = written + 1
    /\ UNCHANGED <<clock, alive, deaf, open, client, sent>>

Exit(p) ==
    /\ p \in alive
    /\ alive' = alive \ {p}
    /\ open' = IF alive' = {} THEN {} ELSE open
    /\ UNCHANGED <<clock, deaf, pipe, written, client, sent>>

Close(s) ==
    /\ alive # {} /\ s \in open
    /\ open' = open \ {s}
    /\ UNCHANGED <<clock, alive, deaf, pipe, written, client, sent>>

-----------------------------------------------------------------------------
(* The choice of a limit group: the most windows, then the smallest name. *)

Windows(g) == {g.primary, g.secondary} \cap {"short", "weekly"}
Usable(groups) == {i \in DOMAIN groups : Windows(groups[i]) # {}}

Chosen(groups) ==
    LET best == {i \in Usable(groups) : \A j \in Usable(groups) :
                    Cardinality(Windows(groups[j])) <= Cardinality(Windows(groups[i]))}
    IN groups[CHOOSE i \in best : \A j \in best : groups[i].id <= groups[j].id].id

(* build_snapshot: the windows of the chosen group, and the others missing. *)
Snapshot(groups) ==
    [limit   |-> Chosen(groups),
     windows |-> UNION {Windows(groups[i]) :
                        i \in {j \in Usable(groups) : groups[j].id = Chosen(groups)}}]

-----------------------------------------------------------------------------
(* The exchange. *)

Failed(c, why) == [c EXCEPT !.at = "term", !.outcome = why]
Over(c)        == c.at = "term"
Waiting(c)     == ~Over(c) /\ c.result = <<>>

(* A reply 1 makes the client ask; a second one must not. *)
Asks(c, t) == t.kind = "init" /\ ~c.ready

(* handle_message.  Asking fails once nobody reads the server's stdin. *)
Handled(c, t) ==
    CASE t.kind = "initError" -> Failed(c, "refused")
      [] Asks(c, t) -> IF alive = {} THEN Failed(c, "closed") ELSE [c EXCEPT !.ready = TRUE]
      [] t.kind = "readError" /\ c.ready -> Failed(c, "refused")
      [] t.kind = "answer" /\ c.ready -> [c EXCEPT !.result = t.groups]
      [] t.kind = "junk" \/ (t.kind = "noResult" /\ c.ready) -> [c EXCEPT !.invalid = TRUE]
      [] OTHER -> c

(* What a message makes the client write. *)
Requests(c, t) == IF Asks(c, t) /\ alive # {} THEN <<"initialized", "read">> ELSE <<>>

(* What the client has become and has written after one more token. *)
Processed(r, t) ==
    IF ~Waiting(r.client) THEN r
    ELSE IF t.kind = "part"
    THEN [client |-> [r.client EXCEPT !.buffer = Append(@, t)], out |-> r.out]
    ELSE [client |-> Handled([r.client EXCEPT !.buffer = <<>>], t),
          out    |-> r.out \o Requests(r.client, t)]

(* consume_stdout_buffer: message by message, until the result or a failure; *)
(* the fragments of an unfinished message stay.                              *)
Consumed(c) ==
    FoldLeft(Processed, [client |-> [c EXCEPT !.buffer = <<>>], out |-> <<>>], c.buffer)

(* Without a recognised window build_snapshot refuses the result. *)
Finished(c) ==
    IF c.result # <<>>
    THEN Failed(c, IF Usable(c.result) = {} THEN "unusable" ELSE "ok")
    ELSE Failed(c, IF clock >= Deadline THEN "timeout"
                   ELSE IF c.invalid \/ c.buffer # <<>> THEN "invalid" ELSE "nothing")

Start ==
    /\ client.at = "start"
    /\ IF alive = {}
       THEN client' = Failed(client, "closed") /\ UNCHANGED sent
       ELSE client' = [client EXCEPT !.at = "select"] /\ sent' = <<"initialize">>
    /\ UNCHANGED <<clock, server>>

Readable == (IF pipe # <<>> \/ "out" \notin open THEN {"out"} ELSE {})
            \cup ({"err"} \ open)
Ready    == Readable \ client.closed

(* select() found nothing: poll() comes next, and much may happen between. *)
SelectNothing ==
    /\ client.at = "select" /\ clock < Deadline
    /\ client.closed # {"out", "err"} /\ Ready = {}
    /\ client' = [client EXCEPT !.at = "idle"]
    /\ UNCHANGED <<clock, server, sent>>

Poll ==
    /\ client.at = "idle"
    /\ client' = IF "leader" \in alive THEN [client EXCEPT !.at = "select"]
                 ELSE Finished([client EXCEPT !.raced = pipe # <<>>])
    /\ UNCHANGED <<clock, server, sent>>

(* Faulty: the exit of the leader ends the loop although output is unread. *)
LeavesAtExit(c) == ~Waiting(c) \/ "leader" \notin alive

(* The end of an iteration that read something. *)
Leaves(c) == ~Waiting(c) \/ ("leader" \notin alive /\ "out" \in c.closed)

TooLong(buffer) == Len(buffer) > MaxLine

Receive(n) ==
    LET c == [client EXCEPT !.closed = @ \cup (Ready \cap {"err"}) \cup
                                (IF "out" \in Ready /\ pipe = <<>> THEN {"out"} ELSE {}),
                            !.buffer = @ \o SubSeq(pipe, 1, n)]
        r == IF n > 0 /\ TooLong(c.buffer)
             THEN [client |-> Failed(c, "overlong"), out |-> <<>>] ELSE Consumed(c)
        d == r.client
    IN /\ client.at = "select" /\ clock < Deadline /\ Ready # {}
       /\ n \in 0..Len(pipe) /\ (n = 0 <=> pipe = <<>>)
       /\ pipe' = SubSeq(pipe, n + 1, Len(pipe))
       /\ sent' = sent \o r.out
       /\ client' = IF Over(d) THEN d ELSE IF Leaves(d) THEN Finished(d) ELSE d
       /\ UNCHANGED <<clock, alive, deaf, open, written>>

(* Faulty: the loop waits for the streams to end. *)
NoDeadline == client.closed = {"out", "err"}

LoopOver == clock >= Deadline \/ client.closed = {"out", "err"}

Leave ==
    /\ client.at = "select" /\ LoopOver
    /\ client' = Finished(client)
    /\ UNCHANGED <<clock, server, sent>>

-----------------------------------------------------------------------------
(* stop_process, on every way out of fetch_status. *)

Signalled(left) ==
    /\ alive' = left
    /\ open' = IF left = {} THEN {} ELSE open
    /\ UNCHANGED <<clock, deaf, pipe, written, sent>>

Terminate ==
    /\ client.at = "term"
    /\ Signalled(alive \cap deaf)
    /\ client' = [client EXCEPT !.at = "kill"]

(* Faulty: a leader that has gone needs no SIGKILL. *)
KilledLeader == IF "leader" \in alive THEN {} ELSE alive

Killed == {}

(* After the wait for the leader, or its timeout. *)
Kill ==
    /\ client.at = "kill"
    /\ Signalled(Killed)
    /\ client' = [client EXCEPT !.at = "done"]

Exchange == Start \/ SelectNothing \/ Poll \/ (\E n \in 0..MaxWrites : Receive(n)) \/ Leave
Stop     == Terminate \/ Kill

Next == \/ Tick \/ Exchange \/ Stop
        \/ \E t \in Tokens : Write(t)
        \/ \E p \in Processes : Exit(p)
        \/ \E s \in {"out", "err"} : Close(s)

(* Time passes and the client runs; the server owes nothing. *)
Spec == Init /\ [][Next]_vars /\ WF_vars(Tick) /\ WF_vars(Exchange) /\ WF_vars(Stop)

-----------------------------------------------------------------------------
Outcomes == {"none", "ok", "refused", "closed", "overlong", "unusable", "timeout",
             "invalid", "nothing"}

TypeOK ==
    /\ clock \in 0..Deadline /\ written \in 0..MaxWrites
    /\ alive \subseteq Processes /\ deaf \subseteq Processes /\ open \subseteq {"out", "err"}
    /\ pipe \in Seq(Tokens)
    /\ client.at \in {"start", "select", "idle", "term", "kill", "done"}
    /\ client.outcome \in Outcomes /\ client.closed \subseteq {"out", "err"}
    /\ client.buffer \in Seq(Tokens)
    /\ client.outcome # "overlong" => Len(client.buffer) <= MaxLine
    /\ client.result \in {<<>>} \cup Replies

(* The limits are asked for at most once, and only after the handshake,    *)
(* however often the server repeats its first reply (handle_message).      *)
AskedOnce == sent \in {<<>>, <<"initialize">>, <<"initialize", "initialized", "read">>}

(* A result is the answer to a request: a reply 2 that arrives before the  *)
(* request is neither the result nor a failure of the collection.          *)
AnswersRequest ==
    client.outcome \in {"ok", "unusable"} => "read" \in Range(sent)

(* No process of the group survives the collection, not even a descendant  *)
(* that ignores SIGTERM and whose leader has gone (stop_process).          *)
NoOrphan == client.at = "done" => alive = {}

(* The client never gives up with an answer unread before the deadline     *)
(* because the server has exited, except in the moment between select()    *)
(* and poll().                                                             *)
AnswerRead ==
    [][client'.outcome # client.outcome /\ client'.outcome \in {"nothing", "invalid"}
          /\ client.ready /\ ~client'.raced
       => \A i \in DOMAIN pipe' : pipe'[i].kind # "answer"]_vars

(* The group chosen does not depend on the order in which the server lists *)
(* the groups: a collection never changes owner by itself.                 *)
OrderIrrelevant ==
    client.outcome = "ok" => Snapshot(client.result) = Snapshot(Reverse(client.result))

(* Every collection ends, whatever the server does. *)
Ends == <>(client.at = "done")
=============================================================================
