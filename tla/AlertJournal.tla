---------------------------- MODULE AlertJournal ----------------------------
(***************************************************************************)
(* The alert journal as the commands of src/local/alerts.py drive it.      *)
(* Each action is one command: it loads the document, changes it and       *)
(* writes it with one atomic rename, so a crash leaves the old document or *)
(* the new one.  Any order of commands is allowed: the callers' own order  *)
(* is left to the modules that model monitor.sh.                           *)
(***************************************************************************)
EXTENDS AlertRows

VARIABLE journal

vars == <<journal>>

Requests == (SUBSET Channels) \ {{}}

ModernResets == {k \in Keys : k.kind = "reset" /\ k.ns = ""}

(* preserve_cycle is absent or names one modern reset. *)
Preserved == {{}} \cup {{k} : k \in ModernResets}

Owners == {k.owner : k \in Keys}

Windows == {k.window : k \in Keys}

-----------------------------------------------------------------------------
(* init: the pending threshold or the due reset that the detector state of an
   older installation holds for each window becomes a row in the legacy
   namespace.  A legacy reset expires the threshold registered before it. *)
LegacyRows(T, R, chs) ==
    [k \in Keys |->
       CASE k \in R -> NewRow(chs)
         [] k \in T -> IF \E r \in R : r.window = k.window
                       THEN Terminate(NewRow(chs), "expired_after_reset")
                       ELSE NewRow(chs)
         [] OTHER   -> NoRow]

OnePerWindow(S) == \A k, m \in S : k.window = m.window => k = m

SameInstallation(T, R) ==
    \A t \in T, r \in R : t.window = r.window =>
        t.owner = r.owner /\ t.epoch = r.epoch

Init ==
    \E T \in SUBSET {k \in Keys : k.ns # "" /\ k.kind = "threshold"},
       R \in SUBSET {k \in Keys : k.ns # "" /\ k.kind = "reset"},
       chs \in Requests :
         /\ OnePerWindow(T)
         /\ OnePerWindow(R)
         /\ SameInstallation(T, R)
         /\ journal = LegacyRows(T, R, chs)

-----------------------------------------------------------------------------
(* One action per command. *)

RegisterAlert(k, chs, sameContent, closes) ==
    /\ k.ns = ""
    /\ closes => k.kind = "reset"
    /\ journal' = Register(journal, k, chs, sameContent, closes)

ExpireThresholdsOfCycle(k) ==
    journal' = ExpireThresholds(journal, k)

ExpireThresholdsOfOwner(w, o) ==
    journal' = ExpireOwnerThresholds(journal, w, o)

ExpireThresholdsAndSuppress(k) ==
    journal' = SuppressReset(ExpireOwnerThresholds(journal, k.window, k.owner),
                             k, "local_observed")

Superseded(w, o) == {{}} \cup {{k} : k \in {m \in ModernResets :
                                            m.window = w /\ m.owner = o}}

(* An observed local refill: nothing new to announce. *)
ObserveLocalReset(w, o) ==
    \E superseded, preserve \in Superseded(w, o) :
        journal' \in ExpireObservedOwner(journal, w, o, superseded, preserve,
                                         FALSE, {})

(* An observed reset that is announced as the modern reset k. *)
ObserveReset(k, chs) ==
    \E superseded \in Superseded(k.window, k.owner) :
        journal' \in ExpireObservedOwner(journal, k.window, k.owner, superseded,
                                         {k}, TRUE, chs)

InterruptPendingOwner(o) ==
    journal' = InterruptOwner(journal, o)

InterruptPendingOthers(o, preserve) ==
    journal' = InterruptOtherOwners(journal, o, preserve)

SuppressLocalReset(k) ==
    journal' = SuppressReset(journal, k, "local_observed")

InterruptResetCycle(k) ==
    journal' = SuppressReset(journal, k, "owner_interrupted")

(* due closes the pending channels that are no longer configured. *)
CloseUnconfigured(r, configured) ==
    IF ~Pending(r) THEN r
    ELSE Recompute([r EXCEPT !.ch =
           [c \in Channels |-> IF r.ch[c] = "pending" /\ c \notin configured
                               THEN "channel_unconfigured" ELSE r.ch[c]]])

Due(configured) ==
    journal' = [k \in Keys |-> CloseUnconfigured(journal[k], configured)]

Outcomes == {"pending", "delivered", "permanent"}

RecordOutcome(r, c, outcome) == Recompute([r EXCEPT !.ch[c] = outcome])

Record(k, c, outcome) ==
    /\ Present(journal[k])
    /\ journal[k].ch[c] = "pending"
    /\ journal' = [journal EXCEPT ![k] = RecordOutcome(@, c, outcome)]

Acknowledge(k) ==
    /\ Terminal(journal[k])
    /\ journal' = [journal EXCEPT ![k].acked = TRUE]

(* Which rows have passed expires_at depends on the clock; an unarmed
   threshold and an anomaly have none. *)
Expirable == {k \in Keys : /\ k.kind # "anomaly" /\ k.epoch # 0
                             /\ Pending(journal[k])}

Expire(S) ==
    journal' = TerminateAll(journal, S, "expired_after_reset")

(* Which of the reconciled rows are the oldest depends on the clock. *)
Reconciled == {k \in Keys : Terminal(journal[k]) /\ journal[k].acked}

Prune(S) ==
    journal' = [k \in Keys |-> IF k \in S THEN NoRow ELSE journal[k]]

-----------------------------------------------------------------------------
Next ==
    \/ \E k \in Keys, chs \in Requests, same, closes \in BOOLEAN :
          RegisterAlert(k, chs, same, closes)
    \/ \E k \in ModernResets : ExpireThresholdsOfCycle(k)
    \/ \E w \in Windows, o \in Owners : ExpireThresholdsOfOwner(w, o)
    \/ \E k \in ModernResets : ExpireThresholdsAndSuppress(k)
    \/ \E w \in Windows, o \in Owners : ObserveLocalReset(w, o)
    \/ \E k \in ModernResets, chs \in Requests : ObserveReset(k, chs)
    \/ \E o \in Owners : InterruptPendingOwner(o)
    \/ \E o \in Owners, preserve \in Preserved :
          InterruptPendingOthers(o, preserve)
    \/ \E k \in ModernResets : SuppressLocalReset(k)
    \/ \E k \in ModernResets : InterruptResetCycle(k)
    \/ \E configured \in SUBSET Channels : Due(configured)
    \/ \E k \in Keys, c \in Channels, outcome \in Outcomes :
          Record(k, c, outcome)
    \/ \E k \in Keys : Acknowledge(k)
    \/ \E S \in SUBSET Expirable : Expire(S)
    \/ \E S \in SUBSET Reconciled : Prune(S)

Spec == Init /\ [][Next]_vars

-----------------------------------------------------------------------------
(* Type invariant. *)
TypeOK == journal \in [Keys -> Rows]

(* Every document a command writes passes validate_document, which the next
   command runs before it does anything else: a document it refuses would
   stop every later alert.  The aggregate status, the reason and the channels
   are written by different functions and have to agree after all of them. *)
RowsValid == \A k \in Keys : Present(journal[k]) => ValidRow(journal[k])

(* Once a reset event is interrupted with its owner, no equivalent row of it
   is or becomes pending, whichever namespace the row was registered under,
   so no notification of that event is sent any more. *)
InterruptionIsFinal ==
    \A k, m \in Keys :
        /\ Equivalent(m, k)
        /\ Terminal(journal[k])
        /\ journal[k].reason = "owner_interrupted"
        => ~Pending(journal[m])

(* A cycle key never has two thresholds waiting: the more critical one takes
   over from the other, also when the other came from an older installation
   and has the key under its legacy prefix.  The key without an arm (epoch 0)
   and the key of the arm that follows are different cycles to the code: a
   threshold of each may wait. *)
OnePendingThreshold ==
    \A k, m \in Keys :
        /\ k.kind = "threshold" /\ m.kind = "threshold"
        /\ k.window = m.window /\ k.owner = m.owner /\ k.epoch = m.epoch
        /\ Pending(journal[k]) /\ Pending(journal[m])
        => k = m

(* A successful delivery is a fact about its channel: no command turns the
   channel back into one to send to, or into a failure. *)
DeliveredIsForever ==
    [][\A k \in Keys, c \in Channels :
          /\ Present(journal[k]) /\ Present(journal'[k])
          /\ journal[k].ch[c] = "delivered"
          => journal'[k].ch[c] = "delivered"]_vars

(* What the recovery of an observed reset k leaves: at most one row of the
   event to send, and unless the event was interrupted every channel that was
   waiting or is asked for is delivered or waiting in that one row, and none
   is sent again. *)
RecoveryOutcome(new, k, chs) ==
    LET before  == Matches(journal, k)
        after   == Matches(new, k)
        waiting == {m \in after : Pending(new[m])}
        asked   == chs \cup {c \in Channels : \E m \in before :
                                journal[m].ch[c] = "pending"}
    IN /\ \A m, n \in waiting : m = n
       /\ Interrupted(new, k) = {} =>
            \E a \in after :
               /\ \A c \in asked : new[a].ch[c] \in {"pending", "delivered"}
               /\ \A c \in DeliveredChannels(journal, before) :
                     new[a].ch[c] = "delivered"
               /\ waiting \subseteq {a}

(* ... and the owner has nothing else waiting in the window: no threshold of
   the ended cycle and no other reset. *)
CycleClosed(new, k) ==
    \A m \in Keys :
        /\ m.window = k.window /\ m.owner = k.owner /\ m.kind # "anomaly"
        /\ Pending(new[m])
        => Equivalent(m, k)

RecoveryKeepsOneAuthority ==
    \A k \in ModernResets, chs \in Requests :
        \A superseded \in Superseded(k.window, k.owner) :
            \A new \in ExpireObservedOwner(journal, k.window, k.owner,
                                           superseded, {k}, TRUE, chs) :
                RecoveryOutcome(new, k, chs) /\ CycleClosed(new, k)
=============================================================================
