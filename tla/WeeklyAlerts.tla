---------------------------- MODULE WeeklyAlerts ----------------------------
(***************************************************************************)
(* The weekly window through one poll of the monitor: check_thresholds     *)
(* detects threshold crossings and resets, deliver_due_alerts sends what   *)
(* the journal owes, reconcile_alert_deliveries moves the results into the *)
(* detector state.  The state file and the journal are written separately; *)
(* the process may die, or a write may fail, between any two writes.       *)
(*                                                                         *)
(* The branches modelled are those of an installation whose samples are    *)
(* complete and of one limit group, whose weekly deadline moves only when  *)
(* it has passed, with alerts enabled, no hook configured and a fixed set  *)
(* of channels: the observed-reset branch is excluded by Refilled, and the *)
(* owner-interruption and hook branches of check_thresholds do nothing.    *)
(*                                                                         *)
(* Time is the number of the current week: week n ends at epoch n.  A poll *)
(* works on the sample it took, so usage and time move between polls.      *)
(***************************************************************************)
EXTENDS Integers

CONSTANTS
    Thresholds,   \* the configured thresholds, by selector
    Percent,      \* the percentage each selector stands for
    Full,         \* 100 percent remaining
    Channels,     \* the configured channels
    Attempts,     \* CURL_RETRIES + 1
    MaxWeek,      \* bound on the weeks
    MaxFaults     \* bound on crashes and failed writes

NoThreshold == ""

ASSUME WeeklyAssumption ==
    /\ Full \in Nat \ {0} /\ Attempts \in Nat \ {0} /\ MaxWeek \in Nat \ {0}
    /\ MaxFaults \in Nat /\ Channels # {}
    /\ Percent \in [Thresholds -> 1..(Full - 1)]
    /\ \A s, t \in Thresholds : Percent[s] = Percent[t] => s = t
    /\ NoThreshold \notin Thresholds

Owner == "limit"

ThresholdKey(t, e) == [kind |-> "threshold", window |-> "weekly", selector |-> t,
                       ns |-> "", owner |-> Owner, epoch |-> e]

ResetKey(e) == [kind |-> "reset", window |-> "weekly", selector |-> "reset",
                ns |-> "", owner |-> Owner, epoch |-> e]

Weeks == 1..MaxWeek

Keys == {ThresholdKey(t, e) : t \in Thresholds, e \in Weeks}
          \cup {ResetKey(e) : e \in Weeks}

INSTANCE AlertRows

Items == Keys \X Channels

VARIABLES
    week, pct,          \* the service: the week and what remains of it
    recent,             \* the week of the last complete sample, 0 when too old
    journal, event,     \* alert-deliveries.json: rows and their event data
    later,              \* ... the channels whose next_attempt_at lies ahead
    disk,               \* the alert state file
    poll,               \* the local variables of the running poll
    sent, lost, faults  \* history: accepted messages, unrecorded ones, faults

vars == <<week, pct, recent, journal, event, later, disk, poll, sent, lost, faults>>

(* The weekly fields of the alert state. seen and obs are the deadline and
   the percentage of the last complete observation. *)
DetectorStates == [arm : 0..MaxWeek, last : 0..MaxWeek, seen : 0..MaxWeek,
                   obs : 0..Full, prev : 0..Full, pending : Thresholds \cup {NoThreshold},
                   notified : SUBSET Thresholds]

FirstState == [arm |-> 0, last |-> 0, seen |-> 0, obs |-> Full, prev |-> Full,
               pending |-> NoThreshold, notified |-> {}]

(* covered_thresholds and remaining_pct of a threshold row. *)
EventData == [covered : SUBSET Thresholds, remaining : 0..Full]

NoEvent == [covered |-> {}, remaining |-> Full]

Answers == {"delivered", "permanent", "retry", "later"}

NoItem == <<>>

Steps == {"idle", "close", "reconcile", "persist", "acknowledge", "expire",
          "detect", "threshold", "save", "due", "send", "record", "finish"}

PollStates == [at : Steps, then : Steps, state : DetectorStates,
               due : BOOLEAN, failed : BOOLEAN, acks : SUBSET Keys,
               queue : SUBSET Items, item : Items \cup {NoItem},
               attempt : 0..Attempts, answer : Answers \cup {"none"}]

Idle == [at |-> "idle", then |-> "idle", state |-> FirstState, due |-> FALSE,
         failed |-> FALSE, acks |-> {}, queue |-> {}, item |-> NoItem,
         attempt |-> 0, answer |-> "none"]

Init ==
    /\ week = 1 /\ pct = Full /\ recent = 0
    /\ journal = [k \in Keys |-> NoRow]
    /\ event = [k \in Keys |-> NoEvent]
    /\ later = {}
    /\ disk = FirstState
    /\ poll = Idle
    /\ sent = [i \in Items |-> 0]
    /\ lost = [i \in Items |-> 0]
    /\ faults = 0

service == <<week, pct, recent>>
stores  == <<journal, event, later, disk>>
history == <<sent, lost, faults>>

Fault == /\ faults < MaxFaults
         /\ faults' = faults + 1

-----------------------------------------------------------------------------
(* The service, between polls.  The monitor may miss whole weeks. *)

UseQuota ==
    /\ poll.at = "idle"
    /\ \E p \in 1..(pct - 1) : pct' = p
    /\ UNCHANGED <<week, recent, stores, poll, history>>

NextWeek ==
    /\ poll.at = "idle"
    /\ week < MaxWeek
    /\ week' = week + 1 /\ pct' = Full
    /\ recent' = IF recent = week THEN week ELSE 0
    /\ UNCHANGED <<stores, poll, history>>

(* The gap since the last complete sample exceeds its bound, which is far
   below a week. *)
SampleAges ==
    /\ poll.at = "idle"
    /\ recent # 0
    /\ recent' = 0
    /\ UNCHANGED <<week, pct, stores, poll, history>>

WaitOver(i) ==
    /\ poll.at = "idle"
    /\ i \in later
    /\ later' = later \ {i}
    /\ UNCHANGED <<service, journal, event, disk, poll, history>>

-----------------------------------------------------------------------------
(* The start of a poll: the state is loaded.  Without an arm, a deadline that
   two samples of a bounded gap straddle becomes the due arm. *)
Loaded(d) ==
    IF d.arm = 0 /\ 0 < d.seen /\ d.seen < week /\ recent # 0
    THEN [d EXCEPT !.arm = d.seen] ELSE d

(* A refill that neither an arm nor a straddled deadline explains is an
   observed reset: the poll that would see it is left out. *)
Refilled == /\ disk.arm = 0 /\ 0 < disk.seen /\ disk.seen < week /\ recent = 0
            /\ disk.obs < pct

StartPoll ==
    /\ poll.at = "idle"
    /\ ~Refilled
    /\ poll' = [Idle EXCEPT !.at = "close", !.state = Loaded(disk)]
    /\ UNCHANGED <<service, stores, history>>

Due(d) == 0 < d.arm /\ d.arm < week

(* A due arm expires its owner's thresholds before anything is delivered. *)
CloseDue ==
    /\ poll.at = "close"
    /\ journal' = IF Due(poll.state)
                  THEN ExpireOwnerThresholds(journal, "weekly", Owner)
                  ELSE journal
    /\ poll' = [poll EXCEPT !.at = "reconcile", !.then = "expire"]
    /\ UNCHANGED <<service, event, later, disk, history>>

(* Faulty: a reset is sent however late it is. *)
ExpiredThreshold(k) == k.kind = "threshold" /\ k.epoch < week

(* now > expires_at: a threshold ends with its week, a reset a week later. *)
Expired(k) == IF k.kind = "threshold" THEN k.epoch < week
                                      ELSE k.epoch + 1 < week

ExpireAlerts ==
    /\ poll.at = "expire"
    /\ journal' = TerminateAll(journal,
                               {k \in Keys : Pending(journal[k]) /\ Expired(k)},
                               "expired_after_reset")
    /\ poll' = [poll EXCEPT !.at = "reconcile", !.then = "detect"]
    /\ UNCHANGED <<service, event, later, disk, history>>

-----------------------------------------------------------------------------
(* reconcile_alert_deliveries. *)

Unacknowledged == {k \in Keys : Terminal(journal[k]) /\ ~journal[k].acked}

(* The order of the rows in the journal is that of their registration. *)
Older(k, m) ==
    \/ k.epoch < m.epoch
    \/ k.epoch = m.epoch /\ k.kind = "threshold" /\ m.kind = "reset"
    \/ /\ k.epoch = m.epoch /\ k.kind = "threshold" /\ m.kind = "threshold"
       /\ Percent[k.selector] > Percent[m.selector]

(* A week that has ended leaves nothing behind in the detector. *)
Retired(d) == [d EXCEPT !.arm = 0, !.notified = {},
                        !.pending = NoThreshold, !.prev = Full]

(* Faulty: the level a message told is not the new baseline. *)
AppliedWithoutBaseline(d, k) ==
    IF k.kind = "threshold"
    THEN [d EXCEPT !.notified = @ \cup event[k].covered,
                   !.pending  = IF @ = k.selector THEN NoThreshold ELSE @]
    ELSE IF d.arm = k.epoch THEN Retired([d EXCEPT !.last = k.epoch])
                            ELSE [d EXCEPT !.last = k.epoch]

Applied(d, k) ==
    IF k.kind = "threshold"
    THEN [d EXCEPT !.notified = @ \cup event[k].covered,
                   !.pending  = IF @ = k.selector THEN NoThreshold ELSE @,
                   !.prev     = event[k].remaining]
    ELSE LET noted == [d EXCEPT !.last = k.epoch]
         IN IF d.arm = k.epoch THEN Retired(noted) ELSE noted

(* A row ended by bookkeeping is acknowledged and changes nothing. *)
Outcome(k) == journal[k].reason \notin TerminationReasons

(* The rows the loop has not read yet. *)
Unread == Unacknowledged \ poll.acks

(* One round of the loop over the rows that wait for acknowledgement. *)
ReconcileRow ==
    /\ poll.at = "reconcile"
    /\ \E k \in Unread :
          /\ \A m \in Unread \ {k} : Older(k, m)
          /\ poll' = [poll EXCEPT !.acks = @ \cup {k},
                        !.state = IF Outcome(k) THEN Applied(@, k) ELSE @]
    /\ UNCHANGED <<service, stores, history>>

ReconcileEnd ==
    /\ poll.at = "reconcile"
    /\ Unread = {}
    /\ poll' = [poll EXCEPT !.at = IF poll.acks = {} THEN poll.then
                                                    ELSE "persist"]
    /\ UNCHANGED <<service, stores, history>>

(* Faulty: the rows are acknowledged before the state is written. *)
PersistAfterwards ==
    /\ poll.at = "persist"
    /\ poll' = [poll EXCEPT !.at = "acknowledge"]
    /\ UNCHANGED <<service, stores, history>>

PersistReconciled ==
    /\ poll.at = "persist"
    /\ disk' = poll.state
    /\ poll' = [poll EXCEPT !.at = "acknowledge"]
    /\ UNCHANGED <<service, journal, event, later, history>>

AcknowledgeNext ==
    /\ poll.at = "acknowledge"
    /\ \E k \in poll.acks :
          /\ \A m \in poll.acks \ {k} : Older(k, m)
          /\ journal' = [journal EXCEPT ![k].acked = TRUE]
          /\ poll' = [poll EXCEPT !.acks = @ \ {k},
                        !.at = IF poll.acks = {k} THEN poll.then ELSE @]
    /\ UNCHANGED <<service, event, later, disk, history>>

-----------------------------------------------------------------------------
(* Detection.  A journal command that fails writes nothing and makes the poll
   skip its deliveries. *)

Observed(d) == [d EXCEPT !.seen = week, !.obs = pct]

(* A due week is announced once; its end retires it, as does a week's delay. *)
Noted(d) ==
    LET stale == d.arm + 1 < week
        heard == d.last # d.arm /\ Terminal(journal[ResetKey(d.arm)])
    IN IF Due(d) THEN [Observed(d) EXCEPT !.last = IF stale \/ heard
                                                   THEN d.arm ELSE @]
                 ELSE d

Announces(d) == /\ Due(d) /\ d.arm + 1 >= week /\ d.last # d.arm
                /\ ~Present(journal[ResetKey(d.arm)])

RetireDue(d) == IF Due(d) /\ d.last = d.arm THEN Retired(d) ELSE d

ArmNext(d) == IF d.arm = 0 /\ pct < Full THEN [d EXCEPT !.arm = week] ELSE d

DetectReset ==
    /\ poll.at = "detect"
    /\ LET d == poll.state IN
       /\ \/ /\ journal' = IF Announces(d)
                           THEN Register(journal, ResetKey(d.arm), Channels,
                                         FALSE, TRUE)
                           ELSE journal
             /\ UNCHANGED faults
          \/ Announces(d) /\ Fault /\ UNCHANGED journal
       /\ poll' = [poll EXCEPT !.at = "threshold", !.due = Due(d),
                     !.failed = Announces(d) /\ journal' = journal,
                     !.state = ArmNext(RetireDue(Noted(d)))]
    /\ UNCHANGED <<service, event, later, disk, sent, lost>>

(* The threshold the detector has pending, unless a more critical one is
   crossed by this sample. *)
Crossed(d) == {t \in Thresholds : /\ pct <= Percent[t] /\ Percent[t] < d.prev
                                  /\ t \notin d.notified}

Candidates(d) == Crossed(d) \cup ({d.pending} \ {NoThreshold})

Critical(d) == CHOOSE t \in Candidates(d) :
                  \A s \in Candidates(d) : Percent[t] <= Percent[s]

Covered(d) == {t \in Thresholds : /\ Percent[Critical(d)] <= Percent[t]
                                  /\ Percent[t] < d.prev}

(* Faulty: the detector's marker is taken for the row itself. *)
SettledByMarker(d) ==
    \/ Critical(d) = d.pending
    \/ Pending(journal[ThresholdKey(Critical(d), d.arm)])

(* A pending threshold that the journal still holds, or that a due reset is
   about to close, is not registered again. *)
Settled(d) ==
    \/ /\ Critical(d) = d.pending
       /\ \/ poll.due
          \/ \E e \in Weeks : Pending(journal[ThresholdKey(d.pending, e)])
    \/ Pending(journal[ThresholdKey(Critical(d), d.arm)])

Registers(d) == Candidates(d) # {} /\ ~Settled(d)

(* A request is refused when its cycle has ended, or when its id exists. *)
Accepted(d) == d.arm >= week /\ ~Present(journal[ThresholdKey(Critical(d), d.arm)])

DetectThreshold ==
    /\ poll.at = "threshold"
    /\ LET d   == poll.state
           key == ThresholdKey(Critical(d), d.arm)
           d1  == IF Candidates(d) = {} THEN [d EXCEPT !.prev = pct]
                  ELSE [d EXCEPT !.pending = Critical(d)]
       IN /\ \/ /\ Registers(d) /\ Accepted(d)
                /\ journal' = Register(journal, key, Channels, FALSE, FALSE)
                /\ event' = [event EXCEPT ![key] = [covered |-> Covered(d),
                                                    remaining |-> pct]]
                /\ UNCHANGED faults
             \/ /\ Registers(d) /\ Fault
                /\ UNCHANGED <<journal, event>>
             \/ /\ Registers(d) => ~Accepted(d)
                /\ UNCHANGED <<journal, event, faults>>
          /\ poll' = [poll EXCEPT !.at = "save",
                        !.state = Observed(d1),
                        !.failed = @ \/ (Registers(d) /\ journal' = journal)]
    /\ UNCHANGED <<service, later, disk, sent, lost>>

(* The state is written before anything is sent; without that, or after a
   failed registration, nothing is. *)
SaveState ==
    /\ poll.at = "save"
    /\ \/ /\ ~poll.failed
          /\ disk' = poll.state
          /\ poll' = [poll EXCEPT !.at = "due"]
          /\ UNCHANGED faults
       \/ /\ IF poll.failed THEN UNCHANGED faults ELSE Fault
          /\ poll' = [poll EXCEPT !.at = "finish"]
          /\ UNCHANGED disk
    /\ UNCHANGED <<service, journal, event, later, sent, lost>>

-----------------------------------------------------------------------------
(* deliver_due_alerts.  The list of due channels is taken once; its order is
   left open.  The answer to a request stands for its class and delay:
   "retry" is tried again within the poll, "later" names a delay beyond it. *)

CollectDue ==
    /\ poll.at = "due"
    /\ LET due == {i \in Items : journal[i[1]].ch[i[2]] = "pending"} \ later
       IN poll' = [poll EXCEPT !.queue = due, !.then = "finish",
                     !.at = IF due = {} THEN "reconcile" ELSE "send"]
    /\ UNCHANGED <<service, stores, history>>

(* The rest of the list, once the current channel is done with. *)
Proceed(i) == [poll EXCEPT !.queue = @ \ {i}, !.item = NoItem, !.attempt = 0,
                 !.answer = "none",
                 !.at = IF poll.queue = {i} THEN "reconcile" ELSE "send"]

Current == IF poll.attempt = 0 THEN poll.queue ELSE {poll.item}

Send(i, answer) ==
    /\ poll.at = "send"
    /\ i \in Current
    /\ poll' = [poll EXCEPT !.at = "record", !.item = i,
                            !.attempt = @ + 1, !.answer = answer]
    /\ sent' = IF answer = "delivered" THEN [sent EXCEPT ![i] = @ + 1] ELSE sent
    /\ UNCHANGED <<service, stores, lost, faults>>

(* No request could be made at all. *)
SkipItem ==
    /\ poll.at = "send"
    /\ Fault
    /\ \E i \in Current : poll' = Proceed(i)
    /\ UNCHANGED <<service, stores, sent, lost>>

(* Faulty: only a delivery ends a channel. *)
EndedByDelivery(answer) == IF answer = "delivered" THEN answer ELSE "pending"

ChannelOutcome(answer) == IF answer \in {"retry", "later"} THEN "pending"
                                                           ELSE answer

(* Faulty: any answer is tried again. *)
TriesAnyAgain == poll.attempt < Attempts

TriesAgain == poll.answer = "retry" /\ poll.attempt < Attempts

(* The last attempt of a poll is due again at once. *)
Waits == poll.answer = "later" \/ TriesAgain

RecordAnswer ==
    /\ poll.at = "record"
    /\ LET k == poll.item[1]
           c == poll.item[2]
       IN journal' = [journal EXCEPT ![k] =
             Recompute([@ EXCEPT !.ch[c] = ChannelOutcome(poll.answer)])]
    /\ later' = IF Waits THEN later \cup {poll.item} ELSE later \ {poll.item}
    /\ poll' = IF TriesAgain THEN [poll EXCEPT !.at = "send", !.answer = "none"]
                             ELSE Proceed(poll.item)
    /\ UNCHANGED <<service, event, disk, history>>

(* The accepted message of a running attempt that is not recorded. *)
Forgotten ==
    IF poll.at = "record" /\ poll.answer = "delivered"
    THEN [lost EXCEPT ![poll.item] = @ + 1] ELSE lost

RecordFails ==
    /\ poll.at = "record"
    /\ Fault
    /\ lost' = Forgotten
    /\ poll' = Proceed(poll.item)
    /\ UNCHANGED <<service, stores, sent>>

(* The final write.  prune keeps rows for longer than the weeks modelled. *)
FinishPoll ==
    /\ poll.at = "finish"
    /\ \/ disk' = poll.state /\ recent' = week /\ UNCHANGED faults
       \/ Fault /\ UNCHANGED <<disk, recent>>
    /\ poll' = Idle
    /\ UNCHANGED <<week, pct, journal, event, later, sent, lost>>

(* After the deliveries a reconciliation that fails does not end the poll. *)
GiveUpReconcile ==
    /\ poll.at \in {"reconcile", "persist", "acknowledge"} /\ poll.then = "finish"
    /\ poll.at = "reconcile" => poll.acks = {}
    /\ Fault
    /\ poll' = [poll EXCEPT !.at = "finish", !.acks = {}]
    /\ UNCHANGED <<service, stores, sent, lost>>

(* The process dies, or gives the poll up at a failed command: the memory is
   gone, the two files stay as they are. *)
Crash ==
    /\ poll.at # "idle"
    /\ Fault
    /\ lost' = Forgotten
    /\ poll' = Idle
    /\ UNCHANGED <<service, stores, sent>>

-----------------------------------------------------------------------------
Progress ==
    \/ StartPoll \/ CloseDue \/ ReconcileRow \/ ReconcileEnd
    \/ PersistReconciled \/ AcknowledgeNext \/ ExpireAlerts \/ DetectReset \/ DetectThreshold
    \/ SaveState \/ CollectDue \/ RecordAnswer \/ FinishPoll
    \/ \E i \in Items, answer \in Answers : Send(i, answer)

Failure == SkipItem \/ RecordFails \/ GiveUpReconcile \/ Crash

Next == \/ UseQuota \/ NextWeek \/ SampleAges
        \/ \E i \in Items : WaitOver(i)
        \/ Progress
        \/ Failure

Spec == Init /\ [][Next]_vars

FinalAnswer == \E i \in Items, answer \in {"delivered", "permanent"} : Send(i, answer)

SomeWaitOver == \E i \in Items : WaitOver(i)

(* After a refill that is left out the quota is used again, as polls must go on. *)
UsedAgain == Refilled /\ UseQuota /\ ~Refilled'

(* The loop polls again and again; waits for a retry pass while it does; as
   long as channels are asked again and again, one answers finally some day. *)
Fairness ==
    /\ WF_vars(Progress) /\ WF_vars(UsedAgain)
    /\ SF_vars(SomeWaitOver) /\ SF_vars(FinalAnswer)

FairSpec == Spec /\ Fairness

-----------------------------------------------------------------------------
TypeOK ==
    /\ week \in Weeks /\ pct \in 1..Full /\ recent \in 0..week
    /\ journal \in [Keys -> Rows]
    /\ event \in [Keys -> EventData]
    /\ later \subseteq Items
    /\ disk \in DetectorStates
    /\ poll \in PollStates
    /\ sent \in [Items -> Nat] /\ lost \in [Items -> Nat]
    /\ faults \in 0..MaxFaults

(* A channel that answered with success is recorded as delivered, or its
   record is about to be written, or a fault came between the answer and the
   record: a success is never forgotten otherwise, never recorded without an
   answer, and every repetition is paid for by a fault. *)
DeliveryAccounted ==
    \A i \in Items :
        sent[i] = lost[i]
                  + (IF journal[i[1]].ch[i[2]] = "delivered" THEN 1 ELSE 0)
                  + (IF poll.at = "record" /\ poll.item = i
                        /\ poll.answer = "delivered" THEN 1 ELSE 0)

(* The message of a row has come to an end with its channels. *)
Told(k) == journal[k].reason \in {"delivered", "permanent_failure"}

(* What has been acknowledged in the journal has reached the state file: a
   crash between the two files may repeat the reconciliation of a result but
   never lose it. *)
AcknowledgedIsApplied ==
    \A k \in Keys :
        journal[k].acked /\ Told(k) =>
            IF k.kind = "threshold"
            THEN disk.arm = k.epoch => event[k].covered \subseteq disk.notified
            ELSE disk.arm # k.epoch /\ disk.last >= k.epoch

(* A threshold the state file calls notified is covered by a message of the
   armed week that came to an end with its channels; no threshold is dropped
   because a message that covers it was superseded or expired. *)
NotifiedIsTold ==
    \A t \in disk.notified :
        \E s \in Thresholds :
            LET k == ThresholdKey(s, disk.arm)
            IN disk.arm # 0 /\ Told(k) /\ t \in event[k].covered

(* When the deliveries of a poll begin, every threshold the sample has crossed
   is notified or covered by a row of the armed week that waits. *)
CrossedIsKnown ==
    poll.at = "due" =>
        \A t \in Thresholds :
            pct <= Percent[t] =>
                \/ t \in disk.notified
                \/ Due(disk)
                \/ \E s \in Thresholds :
                      LET k == ThresholdKey(s, disk.arm)
                      IN Pending(journal[k]) /\ t \in event[k].covered

(* The two files tell one story: what the journal has settled is in the state,
   what the state calls notified was told, and what was crossed is known to
   one of them. *)
StateMatchesJournal ==
    TypeOK /\ AcknowledgedIsApplied /\ NotifiedIsTold /\ CrossedIsKnown

(* Nothing is sent after its time: a threshold only in its own week, a reset
   at most a week after it. *)
NothingStaleIsSent ==
    [][\A i \in Items :
          sent'[i] > sent[i] =>
              IF i[1].kind = "threshold" THEN i[1].epoch = week
                                         ELSE i[1].epoch + 1 >= week]_vars

(* The thresholds that expire are stale: their week is over (the comment at
   monitor.sh:3384).  It fails, see the README. *)
OnlyStaleExpires ==
    \A k \in Keys : k.kind = "threshold" /\ journal[k].reason = "expired_after_reset"
                      => k.epoch < week

(* Every alert comes to an end, delivered, refused or expired: again and
   again none waits.                                                        *)
EveryAlertSettles == []<>(\A k \in Keys : ~Pending(journal[k]))

(* The rows that speak of an event: of a reset its own, of a threshold the
   rows of its week that cover it. *)
Speaks(k, e) == IF e.kind = "reset" THEN k = e
                ELSE /\ k.kind = "threshold" /\ k.epoch = e.epoch
                     /\ e.selector \in event[k].covered

PromiseOf(e) ==
    LET rows == {k \in Keys : Speaks(k, e) /\ Present(journal[k])}
    IN IF \E k \in rows : Pending(journal[k]) THEN "owed"
       ELSE IF \E k \in rows : Told(k) THEN "kept"
       ELSE IF \E k \in rows : journal[k].reason = "expired_after_reset"
       THEN "expired" ELSE "none"

promised == [e \in Keys |-> PromiseOf(e)]

Promise == INSTANCE AlertPromise WITH Events <- Keys, promise <- promised

(* A row of the running week is expired with those of an older one, whose arm
   a fault has left, or a straddled deadline brings back: OnlyStaleExpires.  *)
CutShort(k) == PromiseOf(k) = "expired" /\ faults > 0

(* A threshold that is crossed is announced in its week if that lasts, also
   when its registration fails or is refused or the process dies: unless,
   after a fault, its row is cut short by the arm of an older week.          *)
CrossingIsAnnounced ==
    []<>(\A t \in Thresholds :
            LET k == ThresholdKey(t, week)
            IN pct <= Percent[t] => PromiseOf(k) = "kept" \/ CutShort(k))

(* Each event is announced at most once: a threshold that a more critical row
   takes over stays owed, and what was told is not owed again. *)
KeepsPromise == Promise!Spec
=============================================================================
