----------------------------- MODULE AlertRows -----------------------------
(***************************************************************************)
(* The alert delivery journal of src/local/alerts.py as a value: what one  *)
(* alert row is, and what each function of that file does to the document. *)
(* The document is a function from identities to rows.  An identity stands *)
(* for the fields the 24-digit alert_id is hashed from (kind, window,      *)
(* selector and the cycle key, whose owner, epoch and legacy prefix are    *)
(* separate fields here); an identity the document does not hold maps to   *)
(* NoRow.  Wall-clock times, messages and HTTP metadata are abstracted.    *)
(***************************************************************************)
EXTENDS Integers

CONSTANTS
    Keys,       \* the alert identities of the instance
    Channels    \* "discord", "telegram"

Kinds == {"threshold", "reset", "anomaly"}

(* epoch is the reset time of the cycle key; 0 is its `unarmed' segment, and
   for an anomaly it is the id in its `anomaly:' segment.  ns is the prefix
   of the cycle key: "" or the one legacy-vN of the installation. *)
Identities == [kind : Kinds, window : {"5h", "weekly"}, selector : STRING,
               ns : {"", "legacy"}, owner : STRING, epoch : Nat]

ASSUME KeysAssumption == Keys \subseteq Identities

(* The validator refuses a reset with any other selector. *)
ASSUME ResetsAssumption == \A k \in Keys : k.kind = "reset" => k.selector = "reset"

ASSUME ChannelsAssumption == Channels # {}

-----------------------------------------------------------------------------
(* Rows. A failed channel is represented by its error class. *)

FailureClasses == {"permanent", "channel_unconfigured", "expired_after_reset",
                   "superseded", "owner_interrupted", "local_observed"}

ChannelStates == {"none", "pending", "delivered"} \cup FailureClasses

TerminationReasons == {"expired_after_reset", "superseded",
                       "owner_interrupted", "local_observed"}

Reasons == {"null", "delivered", "permanent_failure", "channel_unconfigured"}
             \cup TerminationReasons

Rows == [status : {"absent", "pending", "failed", "delivered"},
         reason : Reasons,
         acked  : BOOLEAN,                   \* detector_acknowledged_at is set
         ch     : [Channels -> ChannelStates]]  \* "none": not a channel of it

NoRow == [status |-> "absent", reason |-> "null", acked |-> FALSE,
          ch |-> [c \in Channels |-> "none"]]

NewRow(chs) ==
    [status |-> "pending", reason |-> "null", acked |-> FALSE,
     ch |-> [c \in Channels |-> IF c \in chs THEN "pending" ELSE "none"]]

Present(r)  == r.status # "absent"
Pending(r)  == r.status = "pending"
Terminal(r) == r.status \in {"failed", "delivered"}
ChannelsOf(r) == {c \in Channels : r.ch[c] # "none"}

(* The aggregate status the validator demands of a row's channels. *)
Aggregate(ch) ==
    IF \E c \in Channels : ch[c] = "pending" THEN "pending"
    ELSE IF \E c \in Channels : ch[c] \in FailureClasses THEN "failed"
    ELSE "delivered"

ValidRow(r) ==
    /\ ChannelsOf(r) # {}
    /\ r.status = Aggregate(r.ch)
    /\ r.status = "pending" <=> r.reason = "null"

AllUnconfigured(ch) ==
    \A c \in Channels : ch[c] \in FailureClasses
                           => ch[c] = "channel_unconfigured"

AggregateReason(ch) ==
    IF Aggregate(ch) # "failed"
    THEN IF Aggregate(ch) = "pending" THEN "null" ELSE "delivered"
    ELSE IF AllUnconfigured(ch) THEN "channel_unconfigured"
                                ELSE "permanent_failure"

Recompute(r) == [r EXCEPT !.status = Aggregate(r.ch),
                          !.reason = AggregateReason(r.ch)]

Terminate(r, reason) ==
    [r EXCEPT
       !.status = "failed", !.reason = reason,
       !.ch = [c \in Channels |-> IF r.ch[c] = "pending" THEN reason
                                                         ELSE r.ch[c]]]

TerminateAll(j, S, reason) ==
    [k \in Keys |-> IF k \in S THEN Terminate(j[k], reason) ELSE j[k]]

-----------------------------------------------------------------------------
(* Cycle equivalence: a legacy cycle key matches the modern one it extends. *)

(* Faulty: the legacy prefix makes a different cycle. *)
SameCycleKey(existing, requested) ==
    /\ existing.owner = requested.owner
    /\ existing.epoch = requested.epoch
    /\ existing.ns = requested.ns

SameCycle(existing, requested) ==
    /\ existing.owner = requested.owner
    /\ existing.epoch = requested.epoch
    /\ existing.ns = requested.ns \/ requested.ns = ""

Unarmed(k) == k.epoch = 0

PendingThresholds(j, w, o) ==
    {k \in Keys : /\ k.kind = "threshold" /\ k.window = w /\ k.owner = o
                  /\ Pending(j[k])}

(* Only the thresholds of the cycle that a reset closes, or of none. *)
ExpireThresholds(j, cycle) ==
    TerminateAll(j, {k \in PendingThresholds(j, cycle.window, cycle.owner) :
                        SameCycle(k, cycle) \/ Unarmed(k)},
                 "expired_after_reset")

ExpireOwnerThresholds(j, w, o) ==
    TerminateAll(j, PendingThresholds(j, w, o), "expired_after_reset")

InterruptOwner(j, o) ==
    TerminateAll(j, {k \in Keys : /\ k.kind # "anomaly" /\ k.owner = o
                                  /\ Pending(j[k])}, "owner_interrupted")

(* preserve is a set of at most one modern reset identity. *)
InterruptOtherOwners(j, current, preserve) ==
    TerminateAll(j, {k \in Keys : /\ k.kind # "anomaly" /\ k.owner # current
                                  /\ Pending(j[k])
                                  /\ \A p \in preserve : ~SameCycle(k, p)},
                 "owner_interrupted")

-----------------------------------------------------------------------------
(* Resets. *)

ResetRows(j, k) ==
    {m \in Keys : /\ m.kind = "reset" /\ m.window = k.window
                  /\ SameCycle(m, k) /\ Present(j[m])}

(* An owner interruption overrides a local classification of the same cycle. *)
Promote(r) ==
    [r EXCEPT !.reason = "owner_interrupted",
              !.ch = [c \in Channels |-> IF r.ch[c] = "local_observed"
                                         THEN "owner_interrupted" ELSE r.ch[c]]]

Tombstone(reason) == Terminate(NewRow(Channels), reason)

(* k is the modern identity of the cycle to suppress. *)
SuppressReset(j, k, reason) ==
    LET rows == ResetRows(j, k) IN
    IF rows = {} THEN [j EXCEPT ![k] = Tombstone(reason)]
    ELSE [m \in Keys |->
            IF m \notin rows THEN j[m]
            ELSE IF Pending(j[m]) THEN Terminate(j[m], reason)
            ELSE IF reason = "owner_interrupted"
                    /\ j[m].reason = "local_observed" THEN Promote(j[m])
            ELSE j[m]]

(* Rows of one reset event, whichever namespace hashed their id. *)
Equivalent(m, k) ==
    /\ m.kind = "reset" /\ k.kind = "reset" /\ m.window = k.window
    /\ SameCycle(m, k) \/ SameCycle(k, m)

Matches(j, k) == {m \in Keys : Equivalent(m, k) /\ Present(j[m])}

Interrupted(j, k) ==
    {m \in Matches(j, k) : Terminal(j[m]) /\ j[m].reason = "owner_interrupted"}

DeliveredChannels(j, M) ==
    {c \in Channels : \E m \in M : j[m].ch[c] = "delivered"}

Canonical(S, k) == IF k \in S THEN {k} ELSE S

(* The rows that may be kept for the event; the code takes the first of them
   in the order of the file. *)
Authorities(j, k) ==
    LET M         == Matches(j, k)
        pending   == {m \in M : Pending(j[m])}
        delivered == {m \in M : j[m].reason = "delivered"}
        uncovered == {m \in pending :
                        ChannelsOf(j[m]) \ DeliveredChannels(j, M) # {}}
    IN IF uncovered # {} THEN Canonical(uncovered, k)
       ELSE IF delivered # {} THEN delivered
       ELSE IF pending # {} THEN Canonical(pending, k)
       ELSE M

(* Faulty: a duplicate that still waits wins over a delivery. *)
MergedPendingFirst(j, a, M, chs) ==
    [c \in Channels |->
       IF \/ \E m \in M : j[m].ch[c] = "pending"
          \/ c \in chs
       THEN "pending"
       ELSE IF c \in DeliveredChannels(j, M) THEN "delivered"
       ELSE j[a].ch[c]]

(* A delivery anywhere wins; a pending authority keeps its schedule; else a
   pending duplicate lends its own, and a requested channel starts afresh. *)
MergedChannels(j, a, M, chs) ==
    [c \in Channels |->
       IF c \in DeliveredChannels(j, M) THEN "delivered"
       ELSE IF \/ j[a].ch[c] = "pending"
               \/ \E m \in M : j[m].ch[c] = "pending"
               \/ c \in chs
            THEN "pending" ELSE j[a].ch[c]]

(* Faulty: the aggregate status of the merged row is left as it was. *)
MergedRowsStale(j, a, M, chs) ==
    {[j[a] EXCEPT !.ch = MergedChannels(j, a, M, chs)]}

(* The row is recomputed when a channel record changed.  Another delivered
   record of the same channel may differ in its metadata alone. *)
MergedRows(j, a, M, chs) ==
    LET merged  == [j[a] EXCEPT !.ch = MergedChannels(j, a, M, chs)]
        twice   == \E c \in Channels, m \in M \ {a} :
                      j[m].ch[c] = "delivered"
    IN IF merged # j[a] THEN {Recompute(merged)}
       ELSE IF twice THEN {j[a], Recompute(j[a])} ELSE {j[a]}

(* The documents that registering or reusing the observed reset k may leave. *)
RegisterOrReuse(j, k, chs) ==
    LET M == Matches(j, k)
        pendingBut(a) == {m \in M \ {a} : Pending(j[m])}
    IN IF M = {} THEN {[j EXCEPT ![k] = NewRow(chs)]}
       ELSE IF Interrupted(j, k) # {}
            THEN {TerminateAll(j, {m \in M : Pending(j[m])},
                               "owner_interrupted")}
       ELSE UNION {{[TerminateAll(j, pendingBut(a), "superseded")
                       EXCEPT ![a] = r] : r \in MergedRows(j, a, M, chs)} :
                   a \in Authorities(j, k)}

-----------------------------------------------------------------------------
(* Faulty: registration looks at its own id alone, as it does for the other
   kinds of alert. *)
RegisterById(j, k, chs, sameContent, closes) ==
    LET j1 == IF closes THEN ExpireThresholds(j, k) ELSE j
    IN IF Present(j1[k])
       THEN IF sameContent /\ ChannelsOf(j1[k]) = chs THEN j1 ELSE j
       ELSE [j1 EXCEPT ![k] = NewRow(chs)]

(* Faulty: an event seen again starts over when its row has come to an end. *)
RegisterUnlessPending(j, k, chs, sameContent, closes) ==
    LET j1 == IF closes THEN ExpireThresholds(j, k) ELSE j
    IN IF Pending(j1[k]) \/ Interrupted(j1, k) # {} THEN j1
       ELSE [j1 EXCEPT ![k] = NewRow(chs)]

(* register: expire the thresholds of the cycle a reset closes, respect an
   interruption, refuse an id with other content, supersede the pending
   thresholds of the cycle.  A refused request raises and writes nothing. *)
Register(j, k, chs, sameContent, closes) ==
    LET j1 == IF closes THEN ExpireThresholds(j, k) ELSE j
        superseded == {m \in PendingThresholds(j1, k.window, k.owner) :
                          SameCycle(m, k)}
    IN IF k.kind = "reset" /\ Interrupted(j1, k) # {}
       THEN TerminateAll(j1, {m \in Matches(j1, k) : Pending(j1[m])},
                         "owner_interrupted")
       ELSE IF Present(j1[k])
       THEN IF sameContent /\ ChannelsOf(j1[k]) = chs THEN j1 ELSE j
       ELSE [IF k.kind = "threshold"
             THEN TerminateAll(j1, superseded, "superseded") ELSE j1
             EXCEPT ![k] = NewRow(chs)]

(* expire_observed_owner_cycle: close the owner's thresholds and every reset
   of the window but the preserved one, suppress the superseded arm, and
   register the new reset -- one document, written once. *)
CloseObservedCycle(j, w, o, preserve) ==
    LET j1 == ExpireOwnerThresholds(j, w, o)
    IN TerminateAll(j1, {k \in Keys : /\ k.kind = "reset" /\ k.window = w
                                      /\ k.owner = o /\ Pending(j1[k])
                                      /\ \A p \in preserve : ~SameCycle(k, p)},
                    "local_observed")

ExpireObservedOwner(j, w, o, superseded, preserve, request, chs) ==
    LET j1 == CloseObservedCycle(j, w, o, preserve)
        j2 == IF superseded \subseteq preserve THEN j1
              ELSE SuppressReset(j1, CHOOSE s \in superseded : TRUE,
                                 "local_observed")
    IN IF request THEN UNION {RegisterOrReuse(j2, p, chs) : p \in preserve}
                  ELSE {j2}
=============================================================================
