------------------------ MODULE WeeklyAlerts_proofs ------------------------
(***************************************************************************)
(* Proofs about the weekly cycle for every set of thresholds and channels  *)
(* and every number of weeks, attempts and faults: the types, what is sent *)
(* and recorded, and that nothing is sent after its time; then that the    *)
(* state file and the journal agree, and that the cycle implements the     *)
(* promise of AlertPromise.                                                *)
(***************************************************************************)
EXTENDS WeeklyAlerts, WellFoundedInduction, TLAPS

Reconciling == {"reconcile", "persist", "acknowledge"}

(* The reasons for which the weekly cycle closes a row by bookkeeping. *)
Closed == {"expired_after_reset", "superseded"}

Answered == {"pending", "delivered", "permanent"}

(* The rows the weekly cycle makes. *)
WeeklyRow(r) ==
    /\ r.status = Aggregate(r.ch)
    /\ \A c \in Channels : r.ch[c] \in Answered \cup Closed
    /\ \/ Pending(r) /\ r.reason = "null" /\ ~r.acked
       \/ Terminal(r) /\ r.reason \in {"delivered", "permanent_failure"} \cup Closed

RowOK(r) == r \in Rows /\ (r = NoRow \/ WeeklyRow(r))

JournalOK(j) == j \in [Keys -> Rows] /\ \A k \in Keys : RowOK(j[k])

(* Between the expiry of a poll and its last answer no row waits that is
   over. *)
Expires == \/ poll.at \in {"detect", "threshold", "save", "due", "send", "record"}
           \/ poll.at \in Reconciling /\ poll.then = "detect"

PollOK ==
    /\ poll.at \in Reconciling => poll.then \in {"expire", "detect", "finish"}
    /\ poll.at \notin {"send", "record"} => poll.attempt = 0
    /\ poll.at = "send" => poll.attempt < Attempts
    /\ poll.at \in {"send", "record"} =>
          \A i \in poll.queue : journal[i[1]].ch[i[2]] = "pending"
    /\ poll.at = "record" \/ (poll.at = "send" /\ poll.attempt # 0)
          => poll.item \in poll.queue
    /\ poll.at = "record" => poll.answer \in Answers
    /\ poll.at \notin Reconciling => poll.acks = {}
    /\ poll.at \in {"send", "record"} => poll.then = "finish"
    /\ \A k \in poll.acks : Terminal(journal[k])

NoneOver == Expires => \A k \in Keys : Pending(journal[k]) => ~Expired(k)

-----------------------------------------------------------------------------
(* Keys and rows. *)

LEMMA WeekFacts == Weeks = 1..MaxWeek /\ MaxWeek \in Nat \ {0}
BY WeeklyAssumption DEF WeeklyAssumption, Weeks

LEMMA PercentFacts ==
    /\ Full \in Nat
    /\ \A t \in Thresholds : Percent[t] \in Nat /\ 1 <= Percent[t] /\ Percent[t] < Full
BY WeeklyAssumption DEF WeeklyAssumption

LEMMA KeyFields ==
    ASSUME NEW k \in Keys
    PROVE  /\ k.window = "weekly" /\ k.owner = Owner /\ k.ns = ""
           /\ k.kind \in {"threshold", "reset"} /\ k.epoch \in Weeks
           /\ k.epoch \in Nat /\ k.epoch # 0
           /\ k.kind = "threshold" => k.selector \in Thresholds
<1>1. \/ \E t \in Thresholds, e \in Weeks : k = ThresholdKey(t, e)
      \/ \E e \in Weeks : k = ResetKey(e)
  BY DEF Keys
<1>2. /\ k.window = "weekly" /\ k.owner = Owner /\ k.ns = ""
      /\ k.kind \in {"threshold", "reset"} /\ k.epoch \in Weeks
      /\ k.kind = "threshold" => k.selector \in Thresholds
  <2>1. CASE \E t \in Thresholds, e \in Weeks : k = ThresholdKey(t, e)
    <3> PICK t \in Thresholds, e \in Weeks : k = ThresholdKey(t, e)
      BY <2>1
    <3> QED BY DEF ThresholdKey
  <2>2. CASE \E e \in Weeks : k = ResetKey(e)
    <3> PICK e \in Weeks : k = ResetKey(e)
      BY <2>2
    <3> QED BY DEF ResetKey
  <2> QED BY <1>1, <2>1, <2>2
<1>3. k.epoch \in Weeks
  BY <1>2
<1>4. k.epoch \in Nat /\ k.epoch # 0
  BY <1>3, WeekFacts
<1> QED BY <1>2, <1>4

LEMMA KeyEpoch ==
    ASSUME NEW k \in Keys
    PROVE  /\ k.epoch \in Nat /\ 1 <= k.epoch /\ k.epoch <= MaxWeek
           /\ k.epoch \in 0..MaxWeek
<1>1. k.epoch \in Weeks
  BY KeyFields
<1> QED BY <1>1, WeekFacts

LEMMA KeyCases ==
    ASSUME NEW k \in Keys
    PROVE  \/ k.kind = "threshold" /\ k = ThresholdKey(k.selector, k.epoch)
           \/ k.kind = "reset" /\ k = ResetKey(k.epoch)
<1>1. ASSUME NEW t \in Thresholds, NEW e \in Weeks, k = ThresholdKey(t, e)
      PROVE  k.kind = "threshold" /\ k = ThresholdKey(k.selector, k.epoch)
  <2>1. k.kind = "threshold" /\ k.selector = t /\ k.epoch = e
    BY <1>1 DEF ThresholdKey
  <2> QED BY <1>1, <2>1
<1>2. ASSUME NEW e \in Weeks, k = ResetKey(e)
      PROVE  k.kind = "reset" /\ k = ResetKey(k.epoch)
  <2>1. k.kind = "reset" /\ k.epoch = e
    BY <1>2 DEF ResetKey
  <2> QED BY <1>2, <2>1
<1> QED BY <1>1, <1>2 DEF Keys

LEMMA ThresholdKeyIsKey ==
    ASSUME NEW t \in Thresholds, NEW e \in Weeks
    PROVE  ThresholdKey(t, e) \in Keys
BY DEF Keys

LEMMA ResetKeyIsKey ==
    ASSUME NEW e \in Weeks
    PROVE  ResetKey(e) \in Keys
BY DEF Keys

(* Two rows of one kind, week and selector are one. *)
LEMMA KeysDiffer ==
    ASSUME NEW k \in Keys, NEW m \in Keys, k.kind = m.kind, k.epoch = m.epoch,
           k.kind = "threshold" => k.selector = m.selector
    PROVE  k = m
BY KeyCases

LEMMA NoRowFacts ==
    /\ NoRow \in Rows /\ RowOK(NoRow)
    /\ ~Present(NoRow) /\ ~Pending(NoRow) /\ ~Terminal(NoRow)
    /\ \A c \in Channels : NoRow.ch[c] = "none"
BY DEF NoRow, Rows, RowOK, Present, Pending, Terminal, ChannelStates, Reasons

(* What the status of a row says of it. *)
LEMMA RowCases ==
    ASSUME NEW r, RowOK(r)
    PROVE  /\ r \in Rows
           /\ Pending(r) => Present(r) /\ ~Terminal(r) /\ ~r.acked /\ r.reason = "null"
           /\ Terminal(r) => Present(r) /\ ~Pending(r)
           /\ Present(r) => Pending(r) \/ Terminal(r)
           /\ ~Present(r) => r = NoRow /\ r.reason = "null" /\ ~r.acked
           /\ r.reason \in {"delivered", "permanent_failure"} \cup Closed => Terminal(r)
           /\ Terminal(r) => r.reason \in {"delivered", "permanent_failure"} \cup Closed
           /\ r.acked => Terminal(r)
           /\ \A c \in Channels : r.ch[c] = "pending" => Pending(r)
<1>1. CASE r = NoRow
  BY <1>1, NoRowFacts DEF NoRow, Closed, RowOK
<1>2. CASE WeeklyRow(r)
  <2>1. r \in Rows /\ r.status = Aggregate(r.ch)
    BY <1>2 DEF RowOK, WeeklyRow
  <2>2. \A c \in Channels : r.ch[c] = "pending" => Pending(r)
    BY <2>1 DEF Aggregate, Pending
  <2> QED BY <1>2, <2>1, <2>2 DEF WeeklyRow, Pending, Present, Terminal, Closed, Rows
<1> QED BY <1>1, <1>2 DEF RowOK

LEMMA NewRowOK ==
    /\ RowOK(NewRow(Channels)) /\ Pending(NewRow(Channels))
    /\ \A c \in Channels : NewRow(Channels).ch[c] = "pending"
<1> DEFINE r == NewRow(Channels)
<1>1. /\ r.status = "pending" /\ r.reason = "null" /\ r.acked = FALSE
      /\ r.ch = [c \in Channels |-> "pending"]
      /\ r \in Rows
  BY DEF NewRow, Rows, ChannelStates, Reasons
<1>2. Aggregate(r.ch) = "pending"
  BY <1>1, WeeklyAssumption DEF Aggregate, WeeklyAssumption
<1> HIDE DEF r
<1>3. WeeklyRow(r)
  BY <1>1, <1>2 DEF WeeklyRow, Pending, Answered
<1> QED BY <1>1, <1>3 DEF RowOK, Pending, r

(* A row that is closed keeps its deliveries. *)
LEMMA CloseRow ==
    ASSUME NEW r, RowOK(r), Pending(r), NEW reason \in Closed
    PROVE  /\ RowOK(Terminate(r, reason))
           /\ Terminal(Terminate(r, reason))
           /\ Terminate(r, reason).reason = reason
           /\ ~Terminate(r, reason).acked
           /\ \A c \in Channels : /\ Terminate(r, reason).ch[c] # "pending"
                                  /\ Terminate(r, reason).ch[c] = "delivered"
                                        <=> r.ch[c] = "delivered"
<1> DEFINE t == Terminate(r, reason)
<1>1. /\ r \in Rows /\ WeeklyRow(r) /\ ~r.acked /\ r.status = Aggregate(r.ch)
  BY RowCases, NoRowFacts DEF RowOK, WeeklyRow
<1>2. /\ reason \in FailureClasses /\ reason \in ChannelStates /\ reason \in Reasons
      /\ reason \notin Answered
  BY DEF Closed, FailureClasses, ChannelStates, Reasons, TerminationReasons, Answered
<1>3. /\ t \in Rows /\ t.status = "failed" /\ t.reason = reason /\ t.acked = r.acked
      /\ \A c \in Channels : t.ch[c] = IF r.ch[c] = "pending" THEN reason ELSE r.ch[c]
  BY <1>1, <1>2 DEF Terminate, Rows
<1>4. PICK c \in Channels : r.ch[c] = "pending"
  BY <1>1 DEF Aggregate, Pending
<1>5. \A d \in Channels : t.ch[d] # "pending" /\ t.ch[d] \in Answered \cup Closed
  BY <1>1, <1>2, <1>3 DEF WeeklyRow, Answered
<1>6. Aggregate(t.ch) = "failed"
  BY <1>2, <1>3, <1>4, <1>5 DEF Aggregate
<1>7. \A d \in Channels : t.ch[d] = "delivered" <=> r.ch[d] = "delivered"
  BY <1>2, <1>3 DEF Answered
<1> HIDE DEF t
<1>8. RowOK(t) /\ Terminal(t)
  BY <1>1, <1>3, <1>5, <1>6 DEF RowOK, WeeklyRow, Terminal
<1> QED BY <1>1, <1>3, <1>5, <1>7, <1>8 DEF t

(* A row that records an answer waits on, or was told. *)
LEMMA AnswerRow ==
    ASSUME NEW r, RowOK(r), NEW c \in Channels, r.ch[c] = "pending",
           NEW o \in Answered
    PROVE  LET new == Recompute([r EXCEPT !.ch[c] = o])
           IN /\ RowOK(new)
              /\ new.ch = [r.ch EXCEPT ![c] = o]
              /\ ~new.acked
              /\ \/ Pending(new)
                 \/ /\ Terminal(new) /\ o # "pending"
                    /\ new.reason \in {"delivered", "permanent_failure"}
<1> DEFINE ch == [r.ch EXCEPT ![c] = o]
           mid == [r EXCEPT !.ch[c] = o]
           new == Recompute(mid)
<1>1. /\ Pending(r) /\ r \in Rows /\ ~r.acked /\ WeeklyRow(r)
  BY RowCases, NoRowFacts DEF RowOK
<1>2. /\ o \in ChannelStates
      /\ ch \in [Channels -> ChannelStates]
      /\ ch[c] = o /\ \A d \in Channels \ {c} : ch[d] = r.ch[d]
  BY <1>1 DEF Answered, ChannelStates, FailureClasses, Rows
<1>3. mid \in Rows /\ mid.ch = ch /\ mid.acked = r.acked
  BY <1>1, <1>2 DEF Rows
<1> HIDE DEF mid
<1>4. \A d \in Channels : ch[d] \in Answered \cup Closed
  BY <1>1, <1>2 DEF WeeklyRow
<1> HIDE DEF ch
<1>5. Aggregate(ch) \in {"pending", "failed", "delivered"}
  BY DEF Aggregate
<1>6. Aggregate(ch) = "failed" => AggregateReason(ch) = "permanent_failure"
  <2>1. SUFFICES ASSUME Aggregate(ch) = "failed"
                 PROVE  ~AllUnconfigured(ch)
    BY DEF AggregateReason
  <2>2. PICK d \in Channels : ch[d] \in FailureClasses
    BY <2>1 DEF Aggregate
  <2>3. ch[d] # "channel_unconfigured"
    BY <1>4 DEF Answered, Closed
  <2> QED BY <2>2, <2>3 DEF AllUnconfigured
<1>7. /\ Aggregate(ch) = "pending" => AggregateReason(ch) = "null"
      /\ Aggregate(ch) = "delivered" => AggregateReason(ch) = "delivered"
  BY DEF AggregateReason
<1>8. /\ new.status = Aggregate(ch) /\ new.reason = AggregateReason(ch)
      /\ new.ch = ch /\ new.acked = r.acked /\ new \in Rows
  <2>1. AggregateReason(ch) \in Reasons
    BY <1>5, <1>6, <1>7 DEF Reasons
  <2> QED BY <1>3, <1>5, <2>1 DEF Recompute, Rows
<1> HIDE DEF new
<1>9. \/ Pending(new) /\ new.reason = "null"
      \/ Terminal(new) /\ new.reason \in {"delivered", "permanent_failure"}
  BY <1>5, <1>6, <1>7, <1>8 DEF Pending, Terminal
<1>10. RowOK(new)
  BY <1>1, <1>4, <1>8, <1>9 DEF RowOK, WeeklyRow
<1>11. o = "pending" => Aggregate(ch) = "pending"
  BY <1>2 DEF Aggregate, ch
<1>12. o = "pending" => Pending(new)
  BY <1>8, <1>11 DEF Pending
<1> QED BY <1>1, <1>8, <1>9, <1>10, <1>12, RowCases DEF new, mid, ch

LEMMA AckRow ==
    ASSUME NEW r, RowOK(r), Terminal(r)
    PROVE  LET new == [r EXCEPT !.acked = TRUE]
           IN /\ RowOK(new) /\ Terminal(new) /\ new.acked
              /\ new.reason = r.reason /\ new.ch = r.ch
<1> DEFINE new == [r EXCEPT !.acked = TRUE]
<1>1. r \in Rows /\ WeeklyRow(r) /\ ~Pending(r)
  BY RowCases, NoRowFacts DEF RowOK
<1>2. /\ new \in Rows /\ new.acked /\ new.status = r.status
      /\ new.reason = r.reason /\ new.ch = r.ch
  BY <1>1 DEF Rows
<1> HIDE DEF new
<1>3. WeeklyRow(new) /\ Terminal(new)
  BY <1>1, <1>2 DEF WeeklyRow, Terminal, Pending
<1> QED BY <1>2, <1>3 DEF RowOK, new

-----------------------------------------------------------------------------
(* The detector. *)

(* Of some thresholds one is the most critical. *)
LEMMA LowestPercent ==
    ASSUME NEW T \in SUBSET Thresholds, T # {}
    PROVE  \E t \in T : \A s \in T : Percent[t] <= Percent[s]
<1> DEFINE V == {Percent[t] : t \in T}
<1>1. V \subseteq Nat /\ V # {}
  BY PercentFacts
<1> HIDE DEF V
<1>2. PICK x \in V : \A y \in V : ~ (<<y, x>> \in OpToRel(<, Nat))
  BY <1>1, NatLessThanWellFounded, WFMin
<1>3. \A y \in V : ~ (y < x)
  BY <1>1, <1>2 DEF OpToRel
<1>4. \A y \in V : x <= y
  BY <1>1, <1>3
<1> QED BY <1>4 DEF V

LEMMA CriticalFacts ==
    ASSUME NEW d \in DetectorStates
    PROVE  /\ Candidates(d) \subseteq Thresholds
           /\ Candidates(d) # {} =>
                 /\ Critical(d) \in Candidates(d)
                 /\ \A s \in Candidates(d) : Percent[Critical(d)] <= Percent[s]
<1>1. Candidates(d) \subseteq Thresholds
  BY DEF Candidates, Crossed, DetectorStates
<1> QED BY <1>1, LowestPercent DEF Critical

(* What is known of the service and the state of a detector. *)
LEMMA WeekIsNat ==
    ASSUME week \in Weeks
    PROVE  week \in Nat /\ 1 <= week /\ week <= MaxWeek
BY WeekFacts

LEMMA LoadedType ==
    ASSUME NEW d \in DetectorStates
    PROVE  Loaded(d) \in DetectorStates
BY DEF Loaded, DetectorStates

LEMMA RetiredType ==
    ASSUME NEW d \in DetectorStates
    PROVE  Retired(d) \in DetectorStates
<1>1. 0 \in 0..MaxWeek /\ Full \in 0..Full
  BY PercentFacts, WeekFacts
<1> QED BY <1>1 DEF Retired, DetectorStates

LEMMA AppliedType ==
    ASSUME NEW d \in DetectorStates, NEW k \in Keys, event \in [Keys -> EventData]
    PROVE  Applied(d, k) \in DetectorStates
<1>1. k.epoch \in 0..MaxWeek
  BY KeyEpoch
<1>2. CASE k.kind = "threshold"
  BY <1>2 DEF Applied, DetectorStates, EventData
<1>3. CASE k.kind # "threshold"
  <2>1. [d EXCEPT !.last = k.epoch] \in DetectorStates
    BY <1>1 DEF DetectorStates
  <2> QED BY <1>3, <2>1, RetiredType DEF Applied
<1> QED BY <1>2, <1>3

LEMMA ObservedType ==
    ASSUME NEW d \in DetectorStates, week \in Weeks, pct \in 1..Full
    PROVE  Observed(d) \in DetectorStates
<1>1. week \in 0..MaxWeek /\ pct \in 0..Full
  BY WeekIsNat, PercentFacts, WeekFacts
<1> QED BY <1>1 DEF Observed, DetectorStates

LEMMA DetectedType ==
    ASSUME NEW d \in DetectorStates, week \in Weeks, pct \in 1..Full
    PROVE  ArmNext(RetireDue(Noted(d))) \in DetectorStates
<1>1. Noted(d) \in DetectorStates
  <2>1. Observed(d) \in DetectorStates
    BY ObservedType
  <2> QED BY <2>1 DEF Noted, DetectorStates
<1>2. RetireDue(Noted(d)) \in DetectorStates
  BY <1>1, RetiredType DEF RetireDue
<1>3. week \in 0..MaxWeek
  BY WeekIsNat, WeekFacts
<1> QED BY <1>2, <1>3 DEF ArmNext, DetectorStates

-----------------------------------------------------------------------------
(* What the commands do with the journal. *)

(* The rows S are closed for the reason; the others stay. *)
Closes(j, new, S, reason) ==
    /\ S \subseteq Keys /\ \A k \in S : Pending(j[k])
    /\ JournalOK(new)
    /\ \A k \in S : /\ Terminal(new[k]) /\ ~Pending(new[k]) /\ Present(new[k])
                     /\ new[k].reason = reason /\ ~new[k].acked
    /\ \A k \in S, c \in Channels :
          /\ new[k].ch[c] # "pending"
          /\ new[k].ch[c] = "delivered" <=> j[k].ch[c] = "delivered"
    /\ \A k \in Keys \ S : new[k] = j[k]

(* The row k is new, and the rows S are closed for it. *)
Opens(j, new, k, S, reason) ==
    /\ k \in Keys /\ ~Present(j[k]) /\ k \notin S
    /\ \E mid : Closes(j, mid, S, reason) /\ new = [mid EXCEPT ![k] = NewRow(Channels)]

LEMMA TerminateAllCloses ==
    ASSUME NEW j, JournalOK(j), NEW S \in SUBSET Keys,
           \A k \in S : Pending(j[k]), NEW reason \in Closed
    PROVE  Closes(j, TerminateAll(j, S, reason), S, reason)
<1> DEFINE new == TerminateAll(j, S, reason)
<1>1. new = [k \in Keys |-> IF k \in S THEN Terminate(j[k], reason) ELSE j[k]]
  BY DEF TerminateAll
<1>2. \A k \in Keys \ S : new[k] = j[k]
  BY <1>1
<1>3. ASSUME NEW k \in S
      PROVE  /\ RowOK(new[k])
             /\ Terminal(new[k]) /\ ~Pending(new[k]) /\ Present(new[k])
             /\ new[k].reason = reason /\ ~new[k].acked
             /\ \A c \in Channels :
                   /\ new[k].ch[c] # "pending"
                   /\ new[k].ch[c] = "delivered" <=> j[k].ch[c] = "delivered"
  <2>1. new[k] = Terminate(j[k], reason)
    BY <1>1
  <2>2. RowOK(j[k]) /\ Pending(j[k])
    BY DEF JournalOK
  <2> HIDE DEF new
  <2>3. RowOK(new[k]) /\ Terminal(new[k])
    BY <2>1, <2>2, CloseRow
  <2> QED BY <2>1, <2>2, <2>3, CloseRow, RowCases
<1>4. JournalOK(new)
  <2>1. new = [k \in Keys |-> new[k]]
    BY <1>1
  <2>2. \A k \in Keys : RowOK(new[k]) /\ new[k] \in Rows
    BY <1>2, <1>3 DEF JournalOK, RowOK
  <2> HIDE DEF new
  <2> QED BY <2>1, <2>2 DEF JournalOK
<1> HIDE DEF new
<1> QED BY <1>2, <1>3, <1>4 DEF Closes, new

LEMMA ClosesNothing ==
    ASSUME NEW j, JournalOK(j), NEW reason
    PROVE  Closes(j, j, {}, reason)
BY DEF Closes

LEMMA OpensFacts ==
    ASSUME NEW j, JournalOK(j), NEW new, NEW k, NEW S, NEW reason,
           Opens(j, new, k, S, reason)
    PROVE  /\ JournalOK(new)
           /\ S \subseteq Keys /\ k \in Keys \ S
           /\ new[k] = NewRow(Channels) /\ ~Present(j[k])
           /\ \A m \in S : /\ Pending(j[m])
                           /\ Terminal(new[m]) /\ ~Pending(new[m]) /\ Present(new[m])
                           /\ new[m].reason = reason /\ ~new[m].acked
           /\ \A m \in S, c \in Channels :
                 /\ new[m].ch[c] # "pending"
                 /\ new[m].ch[c] = "delivered" <=> j[m].ch[c] = "delivered"
           /\ \A m \in Keys : m # k /\ m \notin S => new[m] = j[m]
<1>1. PICK mid : Closes(j, mid, S, reason) /\ new = [mid EXCEPT ![k] = NewRow(Channels)]
  BY DEF Opens
<1>2. k \in Keys /\ k \notin S /\ ~Present(j[k]) /\ mid \in [Keys -> Rows]
  BY <1>1 DEF Opens, Closes, JournalOK
<1>3. new[k] = NewRow(Channels) /\ \A m \in Keys : m # k => new[m] = mid[m]
  BY <1>1, <1>2
<1>4. JournalOK(new)
  <2>1. \A m \in Keys : RowOK(new[m])
    BY <1>1, <1>3, NewRowOK DEF Closes, JournalOK
  <2>2. new \in [Keys -> Rows]
    BY <1>1, <1>2, NewRowOK DEF RowOK
  <2> QED BY <2>1, <2>2 DEF JournalOK
<1>5. S \subseteq Keys /\ \A m \in S : m # k /\ new[m] = mid[m]
  BY <1>1, <1>2, <1>3 DEF Closes
<1>6. \A m \in S : /\ Pending(j[m])
                   /\ Terminal(new[m]) /\ ~Pending(new[m]) /\ Present(new[m])
                   /\ new[m].reason = reason /\ ~new[m].acked
  BY <1>1, <1>5 DEF Closes
<1>7. \A m \in S, c \in Channels :
         /\ new[m].ch[c] # "pending"
         /\ new[m].ch[c] = "delivered" <=> j[m].ch[c] = "delivered"
  BY <1>1, <1>5 DEF Closes
<1>8. \A m \in Keys : m # k /\ m \notin S => new[m] = j[m]
  BY <1>1, <1>3 DEF Closes
<1> QED BY <1>2, <1>3, <1>4, <1>5, <1>6, <1>7, <1>8

(* A reset that the journal does not hold is opened; the thresholds of its
   cycle that wait are closed first. *)
LEMMA RegisterReset ==
    ASSUME NEW j, JournalOK(j), NEW k \in Keys, k.kind = "reset", ~Present(j[k])
    PROVE  \E S \in SUBSET Keys :
              /\ \A m \in S : m.kind = "threshold"
              /\ Opens(j, Register(j, k, Channels, FALSE, TRUE), k, S,
                       "expired_after_reset")
<1> DEFINE S == {m \in PendingThresholds(j, k.window, k.owner) :
                    SameCycle(m, k) \/ Unarmed(m)}
           j1 == ExpireThresholds(j, k)
<1>1. /\ S \in SUBSET Keys /\ k \notin S
      /\ \A m \in S : Pending(j[m]) /\ m.kind = "threshold"
  BY DEF PendingThresholds
<1>2. j1 = TerminateAll(j, S, "expired_after_reset")
  BY DEF ExpireThresholds
<1> HIDE DEF S, j1
<1>3. Closes(j, j1, S, "expired_after_reset")
  BY <1>1, <1>2, TerminateAllCloses DEF Closed
<1>4. ~Present(j1[k])
  BY <1>1, <1>3 DEF Closes
<1>5. \A m \in Keys : j1[m].reason # "owner_interrupted" \/ ~Terminal(j1[m])
  <2> TAKE m \in Keys
  <2>1. RowOK(j1[m])
    BY <1>3 DEF Closes, JournalOK
  <2> QED BY <2>1, RowCases DEF Closed
<1>6. Interrupted(j1, k) = {}
  BY <1>5 DEF Interrupted, Matches
<1>7. Register(j, k, Channels, FALSE, TRUE) = [j1 EXCEPT ![k] = NewRow(Channels)]
  BY <1>4, <1>6 DEF Register, j1
<1> QED BY <1>1, <1>3, <1>7 DEF Opens

(* A threshold that the journal does not hold is opened; the other thresholds
   of its week that wait are superseded. *)
LEMMA RegisterThreshold ==
    ASSUME NEW j, JournalOK(j), NEW k \in Keys, k.kind = "threshold", ~Present(j[k])
    PROVE  Opens(j, Register(j, k, Channels, FALSE, FALSE), k,
                 {m \in Keys : /\ m.kind = "threshold" /\ Pending(j[m])
                               /\ m.epoch = k.epoch},
                 "superseded")
<1> DEFINE S == {m \in Keys : /\ m.kind = "threshold" /\ Pending(j[m])
                              /\ m.epoch = k.epoch}
<1>1. S \in SUBSET Keys /\ \A m \in S : Pending(j[m])
  OBVIOUS
<1>2. k \notin S
  <2>1. RowOK(j[k])
    BY DEF JournalOK
  <2> QED BY <2>1, RowCases
<1>3. {m \in PendingThresholds(j, k.window, k.owner) : SameCycle(m, k)} = S
  BY KeyFields DEF PendingThresholds, SameCycle
<1>4. Register(j, k, Channels, FALSE, FALSE)
        = [TerminateAll(j, S, "superseded") EXCEPT ![k] = NewRow(Channels)]
  BY <1>3 DEF Register
<1> HIDE DEF S
<1>5. Closes(j, TerminateAll(j, S, "superseded"), S, "superseded")
  BY <1>1, TerminateAllCloses DEF Closed
<1> QED BY <1>2, <1>4, <1>5 DEF Opens, S

-----------------------------------------------------------------------------
(* What the actions do with the journal. *)

LEMMA CloseDueEffect ==
    ASSUME JournalOK(journal), CloseDue
    PROVE  Closes(journal, journal',
                  IF Due(poll.state)
                  THEN {k \in Keys : k.kind = "threshold" /\ Pending(journal[k])}
                  ELSE {}, "expired_after_reset")
<1>1. CASE Due(poll.state)
  <2> DEFINE S == {k \in Keys : k.kind = "threshold" /\ Pending(journal[k])}
  <2>1. PendingThresholds(journal, "weekly", Owner) = S
    BY KeyFields DEF PendingThresholds
  <2>2. journal' = TerminateAll(journal, S, "expired_after_reset")
    BY <1>1, <2>1 DEF CloseDue, ExpireOwnerThresholds
  <2>3. S \in SUBSET Keys /\ \A k \in S : Pending(journal[k])
    OBVIOUS
  <2> HIDE DEF S
  <2>4. Closes(journal, journal', S, "expired_after_reset")
    BY <2>2, <2>3, TerminateAllCloses DEF Closed
  <2> QED BY <1>1, <2>4 DEF S
<1>2. CASE ~Due(poll.state)
  BY <1>2, ClosesNothing DEF CloseDue
<1> QED BY <1>1, <1>2

LEMMA ExpireEffect ==
    ASSUME JournalOK(journal), ExpireAlerts
    PROVE  Closes(journal, journal', {k \in Keys : Pending(journal[k]) /\ Expired(k)},
                  "expired_after_reset")
<1> DEFINE S == {k \in Keys : Pending(journal[k]) /\ Expired(k)}
<1>1. S \in SUBSET Keys /\ \A k \in S : Pending(journal[k])
  OBVIOUS
<1>2. journal' = TerminateAll(journal, S, "expired_after_reset")
  BY DEF ExpireAlerts
<1> HIDE DEF S
<1>3. Closes(journal, journal', S, "expired_after_reset")
  BY <1>1, <1>2, TerminateAllCloses DEF Closed
<1> QED BY <1>3 DEF S

LEMMA DueWeek ==
    ASSUME NEW d \in DetectorStates, week \in Weeks, Due(d)
    PROVE  /\ d.arm \in Weeks /\ d.arm < week
           /\ ResetKey(d.arm) \in Keys
           /\ ResetKey(d.arm).kind = "reset" /\ ResetKey(d.arm).epoch = d.arm
<1>1. d.arm \in 0..MaxWeek
  BY DEF DetectorStates
<1>2. d.arm \in Weeks /\ d.arm < week
  BY <1>1, WeekFacts, WeekIsNat DEF Due
<1>3. ResetKey(d.arm) \in Keys
  BY <1>2, ResetKeyIsKey
<1> QED BY <1>2, <1>3 DEF ResetKey

LEMMA DetectResetEffect ==
    ASSUME TypeOK, JournalOK(journal), DetectReset
    PROVE  \/ journal' = journal
           \/ /\ Announces(poll.state) /\ UNCHANGED faults
              /\ \E S \in SUBSET Keys :
                    /\ \A m \in S : m.kind = "threshold"
                    /\ Opens(journal, journal', ResetKey(poll.state.arm), S,
                             "expired_after_reset")
<1> DEFINE k == ResetKey(poll.state.arm)
<1> SUFFICES ASSUME Announces(poll.state), UNCHANGED faults,
                    journal' = Register(journal, k, Channels, FALSE, TRUE)
             PROVE  \E S \in SUBSET Keys :
                       /\ \A m \in S : m.kind = "threshold"
                       /\ Opens(journal, journal', k, S, "expired_after_reset")
  BY DEF DetectReset
<1>1. poll.state \in DetectorStates /\ week \in Weeks
  BY DEF TypeOK, PollStates
<1>2. k \in Keys /\ k.kind = "reset" /\ ~Present(journal[k])
  BY <1>1, DueWeek DEF Announces
<1> HIDE DEF k
<1> QED BY <1>2, RegisterReset

(* The key a threshold step may register. *)
NewKey == ThresholdKey(Critical(poll.state), poll.state.arm)

LEMMA NewKeyFacts ==
    ASSUME TypeOK, Registers(poll.state), Accepted(poll.state)
    PROVE  /\ Critical(poll.state) \in Thresholds /\ poll.state.arm \in Weeks
           /\ poll.state.arm >= week
           /\ NewKey \in Keys /\ NewKey.kind = "threshold"
           /\ NewKey.selector = Critical(poll.state) /\ NewKey.epoch = poll.state.arm
           /\ ~Present(journal[NewKey])
<1>1. poll.state \in DetectorStates /\ week \in Weeks
  BY DEF TypeOK, PollStates
<1>2. Critical(poll.state) \in Thresholds
  BY <1>1, CriticalFacts DEF Registers
<1>3. poll.state.arm \in 0..MaxWeek
  BY <1>1 DEF DetectorStates
<1>4. poll.state.arm \in Weeks /\ poll.state.arm >= week
  BY <1>1, <1>3, WeekFacts, WeekIsNat DEF Accepted
<1>5. NewKey \in Keys
  BY <1>2, <1>4, ThresholdKeyIsKey DEF NewKey
<1>6. ~Present(journal[NewKey])
  BY DEF Accepted, NewKey
<1> QED BY <1>2, <1>4, <1>5, <1>6 DEF NewKey, ThresholdKey

LEMMA DetectThresholdEffect ==
    ASSUME TypeOK, JournalOK(journal), DetectThreshold
    PROVE  \/ UNCHANGED <<journal, event>>
           \/ /\ Registers(poll.state) /\ Accepted(poll.state) /\ UNCHANGED faults
              /\ event' = [event EXCEPT ![NewKey] =
                              [covered |-> Covered(poll.state), remaining |-> pct]]
              /\ Opens(journal, journal', NewKey,
                       {m \in Keys : /\ m.kind = "threshold" /\ Pending(journal[m])
                                     /\ m.epoch = NewKey.epoch},
                       "superseded")
<1> SUFFICES ASSUME Registers(poll.state), Accepted(poll.state), UNCHANGED faults,
                    journal' = Register(journal, NewKey, Channels, FALSE, FALSE),
                    event' = [event EXCEPT ![NewKey] =
                                 [covered |-> Covered(poll.state), remaining |-> pct]]
             PROVE  Opens(journal, journal', NewKey,
                          {m \in Keys : /\ m.kind = "threshold" /\ Pending(journal[m])
                                        /\ m.epoch = NewKey.epoch},
                          "superseded")
  BY DEF DetectThreshold, NewKey
<1>1. NewKey \in Keys /\ NewKey.kind = "threshold" /\ ~Present(journal[NewKey])
  BY NewKeyFacts
<1> QED BY <1>1, RegisterThreshold

LEMMA AcknowledgeEffect ==
    ASSUME TypeOK, JournalOK(journal), \A k \in poll.acks : Terminal(journal[k]),
           NEW k \in poll.acks, journal' = [journal EXCEPT ![k].acked = TRUE]
    PROVE  /\ JournalOK(journal')
           /\ Terminal(journal'[k]) /\ journal'[k].acked
           /\ journal'[k].reason = journal[k].reason
           /\ journal'[k].ch = journal[k].ch
           /\ \A m \in Keys \ {k} : journal'[m] = journal[m]
<1>1. k \in Keys /\ journal \in [Keys -> Rows] /\ RowOK(journal[k])
  BY DEF TypeOK, PollStates, JournalOK
<1>2. /\ journal'[k] = [journal[k] EXCEPT !.acked = TRUE]
      /\ \A m \in Keys \ {k} : journal'[m] = journal[m]
      /\ DOMAIN journal' = Keys /\ journal' = [m \in Keys |-> journal'[m]]
  BY <1>1
<1>3. /\ RowOK(journal'[k]) /\ Terminal(journal'[k]) /\ journal'[k].acked
      /\ journal'[k].reason = journal[k].reason /\ journal'[k].ch = journal[k].ch
  BY <1>1, <1>2, AckRow
<1>4. \A m \in Keys : RowOK(journal'[m]) /\ journal'[m] \in Rows
  BY <1>2, <1>3 DEF JournalOK, RowOK
<1>5. JournalOK(journal')
  BY <1>2, <1>4 DEF JournalOK
<1> QED BY <1>2, <1>3, <1>5

LEMMA RecordEffect ==
    ASSUME TypeOK, JournalOK(journal), PollOK, RecordAnswer
    PROVE  LET k == poll.item[1]
               c == poll.item[2]
               o == ChannelOutcome(poll.answer)
           IN /\ JournalOK(journal')
              /\ poll.item \in poll.queue /\ poll.item = <<k, c>>
              /\ k \in Keys /\ c \in Channels /\ o \in Answered
              /\ journal[k].ch[c] = "pending" /\ Pending(journal[k])
              /\ journal'[k].ch = [journal[k].ch EXCEPT ![c] = o]
              /\ ~journal'[k].acked
              /\ \/ Pending(journal'[k])
                 \/ /\ Terminal(journal'[k]) /\ o # "pending"
                    /\ journal'[k].reason \in {"delivered", "permanent_failure"}
              /\ \A m \in Keys \ {k} : journal'[m] = journal[m]
<1> DEFINE k == poll.item[1]
           c == poll.item[2]
           o == ChannelOutcome(poll.answer)
           mid == [journal[k] EXCEPT !.ch[c] = o]
<1>1. /\ poll.item \in poll.queue /\ poll.queue \subseteq Keys \X Channels
      /\ poll.answer \in Answers
  BY DEF RecordAnswer, PollOK, TypeOK, PollStates, Items
<1>2. k \in Keys /\ c \in Channels /\ poll.item = <<k, c>>
  BY <1>1
<1>3. o \in Answered
  BY <1>1 DEF ChannelOutcome, Answers, Answered
<1>4. journal[k].ch[c] = "pending" /\ RowOK(journal[k]) /\ journal \in [Keys -> Rows]
  BY <1>1, <1>2 DEF PollOK, RecordAnswer, JournalOK
<1>5. Pending(journal[k])
  BY <1>2, <1>4, RowCases
<1>6. journal' = [journal EXCEPT ![k] = Recompute(mid)]
  BY DEF RecordAnswer
<1> HIDE DEF k, c, o
<1>7. /\ RowOK(Recompute(mid)) /\ Recompute(mid).ch = [journal[k].ch EXCEPT ![c] = o]
      /\ ~Recompute(mid).acked
      /\ \/ Pending(Recompute(mid))
         \/ /\ Terminal(Recompute(mid)) /\ o # "pending"
            /\ Recompute(mid).reason \in {"delivered", "permanent_failure"}
  BY <1>2, <1>3, <1>4, AnswerRow
<1> HIDE DEF mid
<1>8. /\ journal'[k] = Recompute(mid)
      /\ \A m \in Keys \ {k} : journal'[m] = journal[m]
  BY <1>2, <1>4, <1>6
<1>9. JournalOK(journal')
  <2>1. \A m \in Keys : RowOK(journal'[m])
    BY <1>7, <1>8 DEF JournalOK
  <2>2. journal' \in [Keys -> Rows]
    BY <1>2, <1>4, <1>6, <1>7 DEF RowOK
  <2> QED BY <2>1, <2>2 DEF JournalOK
<1>10. /\ journal'[k].ch = [journal[k].ch EXCEPT ![c] = o] /\ ~journal'[k].acked
       /\ \/ Pending(journal'[k])
          \/ /\ Terminal(journal'[k]) /\ o # "pending"
             /\ journal'[k].reason \in {"delivered", "permanent_failure"}
  BY <1>7, <1>8
<1> QED BY <1>1, <1>2, <1>3, <1>4, <1>5, <1>8, <1>9, <1>10 DEF k, c, o

-----------------------------------------------------------------------------
(* Types. *)

Sound == TypeOK /\ JournalOK(journal) /\ PollOK /\ NoneOver

LEMMA PollType ==
    ASSUME TypeOK
    PROVE  /\ poll \in PollStates /\ poll.state \in DetectorStates
           /\ poll.at \in Steps /\ poll.then \in Steps
           /\ poll.acks \subseteq Keys /\ poll.queue \subseteq Items
           /\ poll.attempt \in 0..Attempts
BY DEF TypeOK, PollStates

LEMMA IdleType == Idle \in PollStates
<1>1. FirstState \in DetectorStates
  BY PercentFacts, WeekFacts DEF FirstState, DetectorStates
<1>2. 0 \in 0..Attempts
  BY WeeklyAssumption DEF WeeklyAssumption
<1> QED BY <1>1, <1>2 DEF Idle, PollStates, Steps

LEMMA ProceedType ==
    ASSUME TypeOK, NEW i
    PROVE  Proceed(i) \in PollStates
<1>1. 0 \in 0..Attempts
  BY WeeklyAssumption DEF WeeklyAssumption
<1> QED BY <1>1, PollType DEF Proceed, PollStates, Steps

LEMMA NewEventType ==
    ASSUME TypeOK, NEW d \in DetectorStates
    PROVE  [covered |-> Covered(d), remaining |-> pct] \in EventData
<1>1. pct \in 0..Full
  BY PercentFacts DEF TypeOK
<1> QED BY <1>1 DEF EventData, Covered

LEMMA TypeStep ==
    ASSUME Sound, [Next]_vars
    PROVE  TypeOK'
<1> USE DEF Sound
<1>0. /\ poll \in PollStates /\ poll.state \in DetectorStates
      /\ poll.acks \subseteq Keys /\ disk \in DetectorStates
      /\ week \in Weeks /\ pct \in 1..Full /\ recent \in 0..week
      /\ journal \in [Keys -> Rows] /\ event \in [Keys -> EventData]
      /\ later \subseteq Items /\ faults \in 0..MaxFaults
      /\ sent \in [Items -> Nat] /\ lost \in [Items -> Nat]
  BY PollType DEF TypeOK
<1>1. CASE UseQuota
  <2>1. pct' \in 1..Full
    BY <1>0, <1>1, PercentFacts DEF UseQuota
  <2> QED BY <1>0, <1>1, <2>1 DEF UseQuota, TypeOK, stores, history
<1>2. CASE NextWeek
  <2>1. week' \in Weeks /\ pct' \in 1..Full /\ recent' \in 0..week'
    <3>1. Full >= 1
      BY <1>0, PercentFacts
    <3>2. week' = week + 1 /\ week < MaxWeek /\ pct' = Full
          /\ recent' \in {0, week}
      BY <1>2 DEF NextWeek
    <3>3. week' \in Weeks /\ recent' \in 0..week'
      BY <1>0, <3>2, WeekFacts, WeekIsNat
    <3> QED BY <3>1, <3>2, <3>3, PercentFacts
  <2> QED BY <1>0, <1>2, <2>1 DEF NextWeek, TypeOK, stores, history
<1>3. CASE SampleAges
  <2>1. recent' \in 0..week
    BY <1>0, <1>3, WeekIsNat DEF SampleAges
  <2> QED BY <1>0, <1>3, <2>1 DEF SampleAges, TypeOK, stores, history
<1>4. ASSUME NEW i \in Items, WaitOver(i) PROVE TypeOK'
  BY <1>0, <1>4 DEF WaitOver, TypeOK, service, history
<1>5. CASE StartPoll
  <2>1. poll' \in PollStates
    BY <1>0, <1>5, IdleType, LoadedType DEF StartPoll, PollStates, Steps
  <2> QED BY <1>0, <1>5, <2>1 DEF StartPoll, TypeOK, service, stores, history
<1>6. CASE CloseDue
  <2>1. journal' \in [Keys -> Rows]
    BY <1>6, CloseDueEffect DEF Closes, JournalOK
  <2>2. poll' \in PollStates
    BY <1>0, <1>6 DEF CloseDue, PollStates, Steps
  <2> QED BY <1>0, <1>6, <2>1, <2>2 DEF CloseDue, TypeOK, service, history
<1>7. CASE ReconcileRow
  <2>1. poll' \in PollStates
    <3>1. PICK k \in Unread :
             poll' = [poll EXCEPT !.acks = @ \cup {k},
                        !.state = IF Outcome(k) THEN Applied(@, k) ELSE @]
      BY <1>7 DEF ReconcileRow
    <3>2. k \in Keys
      BY DEF Unread, Unacknowledged
    <3>3. Applied(poll.state, k) \in DetectorStates
      BY <1>0, <3>2, AppliedType
    <3> QED BY <1>0, <3>1, <3>2, <3>3 DEF PollStates
  <2> QED BY <1>0, <1>7, <2>1 DEF ReconcileRow, TypeOK, service, stores, history
<1>8. CASE ReconcileEnd
  <2>1. poll' \in PollStates
    BY <1>0, <1>8 DEF ReconcileEnd, PollStates, Steps
  <2> QED BY <1>0, <1>8, <2>1 DEF ReconcileEnd, TypeOK, service, stores, history
<1>9. CASE PersistReconciled
  <2>1. poll' \in PollStates
    BY <1>0, <1>9 DEF PersistReconciled, PollStates, Steps
  <2> QED BY <1>0, <1>9, <2>1 DEF PersistReconciled, TypeOK, service, history
<1>10. CASE AcknowledgeNext
  <2>1. PICK k \in poll.acks :
           /\ journal' = [journal EXCEPT ![k].acked = TRUE]
           /\ poll' = [poll EXCEPT !.acks = @ \ {k},
                        !.at = IF poll.acks = {k} THEN poll.then ELSE @]
    BY <1>10 DEF AcknowledgeNext
  <2>2. journal' \in [Keys -> Rows]
    BY <1>0, <2>1 DEF Rows
  <2>3. poll' \in PollStates
    BY <1>0, <2>1 DEF PollStates
  <2> QED BY <1>0, <1>10, <2>2, <2>3 DEF AcknowledgeNext, TypeOK, service, history
<1>11. CASE ExpireAlerts
  <2>1. journal' \in [Keys -> Rows]
    BY <1>11, ExpireEffect DEF Closes, JournalOK
  <2>2. poll' \in PollStates
    BY <1>0, <1>11 DEF ExpireAlerts, PollStates, Steps
  <2> QED BY <1>0, <1>11, <2>1, <2>2 DEF ExpireAlerts, TypeOK, service, history
<1>12. CASE DetectReset
  <2>1. journal' \in [Keys -> Rows]
    BY <1>0, <1>12, DetectResetEffect, OpensFacts DEF JournalOK
  <2>2. poll' \in PollStates
    <3>1. ArmNext(RetireDue(Noted(poll.state))) \in DetectorStates
      BY <1>0, DetectedType
    <3>2. poll' = [poll EXCEPT !.at = "threshold", !.due = Due(poll.state),
                     !.failed = Announces(poll.state) /\ journal' = journal,
                     !.state = ArmNext(RetireDue(Noted(poll.state)))]
      BY <1>12 DEF DetectReset
    <3>3. Due(poll.state) \in BOOLEAN /\ (Announces(poll.state) /\ journal' = journal) \in BOOLEAN
      BY DEF Due
    <3> QED BY <1>0, <3>1, <3>2, <3>3 DEF PollStates, Steps
  <2>3. faults' \in 0..MaxFaults
    <3>1. Fault \/ UNCHANGED faults
      BY <1>12 DEF DetectReset
    <3> QED BY <1>0, <3>1, WeeklyAssumption DEF Fault, WeeklyAssumption
  <2> QED BY <1>0, <1>12, <2>1, <2>2, <2>3 DEF DetectReset, TypeOK, service
<1>13. CASE DetectThreshold
  <2>1. journal' \in [Keys -> Rows]
    BY <1>0, <1>13, DetectThresholdEffect, OpensFacts DEF JournalOK
  <2>2. event' \in [Keys -> EventData]
    BY <1>0, <1>13, DetectThresholdEffect, NewEventType, NewKeyFacts
  <2>3. poll' \in PollStates
    <3> DEFINE d1 == IF Candidates(poll.state) = {} THEN [poll.state EXCEPT !.prev = pct]
                     ELSE [poll.state EXCEPT !.pending = Critical(poll.state)]
    <3>1. d1 \in DetectorStates
      <4>1. pct \in 0..Full
        BY <1>0, PercentFacts
      <4>2. Candidates(poll.state) # {} => Critical(poll.state) \in Thresholds
        BY <1>0, CriticalFacts
      <4> QED BY <1>0, <4>1, <4>2 DEF DetectorStates
    <3>2. poll' = [poll EXCEPT !.at = "save", !.state = Observed(d1),
                     !.failed = @ \/ (Registers(poll.state) /\ journal' = journal)]
      BY <1>13 DEF DetectThreshold
    <3> HIDE DEF d1
    <3>3. Observed(d1) \in DetectorStates
      BY <1>0, <3>1, ObservedType
    <3>4. (poll.failed \/ (Registers(poll.state) /\ journal' = journal)) \in BOOLEAN
      OBVIOUS
    <3> QED BY <1>0, <3>2, <3>3, <3>4 DEF PollStates, Steps
  <2>4. faults' \in 0..MaxFaults
    <3>1. Fault \/ UNCHANGED faults
      BY <1>13 DEF DetectThreshold
    <3> QED BY <1>0, <3>1, WeeklyAssumption DEF Fault, WeeklyAssumption
  <2> QED BY <1>0, <1>13, <2>1, <2>2, <2>3, <2>4 DEF DetectThreshold, TypeOK, service
<1>14. CASE SaveState
  <2>1. poll' \in PollStates /\ disk' \in DetectorStates
    BY <1>0, <1>14 DEF SaveState, PollStates, Steps
  <2>2. faults' \in 0..MaxFaults
    BY <1>0, <1>14, WeeklyAssumption DEF SaveState, Fault, WeeklyAssumption
  <2> QED BY <1>0, <1>14, <2>1, <2>2 DEF SaveState, TypeOK, service
<1>15. CASE CollectDue
  <2>1. poll' \in PollStates
    <3> DEFINE due == {i \in Items : journal[i[1]].ch[i[2]] = "pending"} \ later
    <3>1. poll' = [poll EXCEPT !.queue = due, !.then = "finish",
                     !.at = IF due = {} THEN "reconcile" ELSE "send"]
      BY <1>15 DEF CollectDue
    <3>2. due \subseteq Items
      OBVIOUS
    <3> HIDE DEF due
    <3> QED BY <1>0, <3>1, <3>2 DEF PollStates, Steps
  <2> QED BY <1>0, <1>15, <2>1 DEF CollectDue, TypeOK, service, stores, history
<1>16. CASE RecordAnswer
  <2>1. journal' \in [Keys -> Rows] /\ poll.item \in Items
    BY <1>0, <1>16, RecordEffect, PollType DEF JournalOK
  <2>2. poll' \in PollStates
    BY <1>0, <1>16, ProceedType DEF RecordAnswer, PollStates, Steps
  <2>3. later' \subseteq Items
    BY <1>0, <1>16, <2>1 DEF RecordAnswer
  <2> QED BY <1>0, <1>16, <2>1, <2>2, <2>3 DEF RecordAnswer, TypeOK, service, history
<1>17. CASE FinishPoll
  <2>1. poll' \in PollStates /\ disk' \in DetectorStates /\ recent' \in 0..week
    BY <1>0, <1>17, IdleType, WeekIsNat DEF FinishPoll
  <2>2. faults' \in 0..MaxFaults
    BY <1>0, <1>17, WeeklyAssumption DEF FinishPoll, Fault, WeeklyAssumption
  <2> QED BY <1>0, <1>17, <2>1, <2>2 DEF FinishPoll, TypeOK
<1>18. ASSUME NEW i \in Items, NEW answer \in Answers, Send(i, answer) PROVE TypeOK'
  <2>1. poll.attempt + 1 \in 0..Attempts
    BY <1>0, <1>18, WeeklyAssumption DEF Send, PollOK, PollStates, WeeklyAssumption
  <2>2. poll' \in PollStates
    BY <1>0, <1>18, <2>1 DEF Send, PollStates, Steps
  <2>3. sent' \in [Items -> Nat]
    BY <1>0, <1>18 DEF Send
  <2> QED BY <1>0, <1>18, <2>2, <2>3 DEF Send, TypeOK, service, stores
<1>19. CASE SkipItem
  <2>1. poll' \in PollStates
    BY <1>19, ProceedType DEF SkipItem
  <2>2. faults' \in 0..MaxFaults
    BY <1>0, <1>19, WeeklyAssumption DEF SkipItem, Fault, WeeklyAssumption
  <2> QED BY <1>0, <1>19, <2>1, <2>2 DEF SkipItem, TypeOK, service, stores
<1>20. lost' = Forgotten => lost' \in [Items -> Nat]
  <2>1. CASE poll.at = "record" /\ poll.answer = "delivered"
    <3>1. poll.item \in Items
      BY <1>0, <2>1, PollType DEF PollOK
    <3> QED BY <1>0, <2>1, <3>1 DEF Forgotten
  <2>2. CASE ~ (poll.at = "record" /\ poll.answer = "delivered")
    BY <1>0, <2>2 DEF Forgotten
  <2> QED BY <2>1, <2>2
<1>21. CASE RecordFails
  <2>1. poll' \in PollStates
    BY <1>21, ProceedType DEF RecordFails
  <2>2. faults' \in 0..MaxFaults
    BY <1>0, <1>21, WeeklyAssumption DEF RecordFails, Fault, WeeklyAssumption
  <2> QED BY <1>0, <1>20, <1>21, <2>1, <2>2 DEF RecordFails, TypeOK, service, stores
<1>22. CASE GiveUpReconcile
  <2>1. poll' \in PollStates
    BY <1>0, <1>22 DEF GiveUpReconcile, PollStates, Steps
  <2>2. faults' \in 0..MaxFaults
    BY <1>0, <1>22, WeeklyAssumption DEF GiveUpReconcile, Fault, WeeklyAssumption
  <2> QED BY <1>0, <1>22, <2>1, <2>2 DEF GiveUpReconcile, TypeOK, service, stores
<1>23. CASE Crash
  <2>1. poll' \in PollStates
    BY <1>23, IdleType DEF Crash
  <2>2. faults' \in 0..MaxFaults
    BY <1>0, <1>23, WeeklyAssumption DEF Crash, Fault, WeeklyAssumption
  <2> QED BY <1>0, <1>20, <1>23, <2>1, <2>2 DEF Crash, TypeOK, service, stores
<1>24. CASE UNCHANGED vars
  BY <1>0, <1>24 DEF vars, TypeOK
<1> QED BY <1>1, <1>2, <1>3, <1>4, <1>5, <1>6, <1>7, <1>8, <1>9, <1>10, <1>11, <1>12,
          <1>13, <1>14, <1>15, <1>16, <1>17, <1>18, <1>19, <1>21, <1>22, <1>23, <1>24
       DEF Next, Progress, Failure

-----------------------------------------------------------------------------
(* The journal, and the rows that wait. *)

JournalActs == CloseDue \/ ExpireAlerts \/ DetectReset \/ DetectThreshold
                 \/ AcknowledgeNext \/ RecordAnswer

LEMMA JournalMoves ==
    ASSUME [Next]_vars
    PROVE  JournalActs \/ UNCHANGED journal
<1>1. ASSUME NEW i \in Items, WaitOver(i) PROVE UNCHANGED journal
  BY <1>1 DEF WaitOver
<1>2. ASSUME NEW i \in Items, NEW answer \in Answers, Send(i, answer)
      PROVE  UNCHANGED journal
  BY <1>2 DEF Send, stores
<1>3. UseQuota \/ NextWeek \/ SampleAges => UNCHANGED journal
  BY DEF UseQuota, NextWeek, SampleAges, stores
<1>4. StartPoll \/ ReconcileRow \/ ReconcileEnd \/ PersistReconciled \/ SaveState
        \/ CollectDue \/ FinishPoll => UNCHANGED journal
  BY DEF StartPoll, ReconcileRow, ReconcileEnd, PersistReconciled, SaveState,
         CollectDue, FinishPoll, stores
<1>5. Failure => UNCHANGED journal
  BY DEF Failure, SkipItem, RecordFails, GiveUpReconcile, Crash, stores
<1>6. CASE UNCHANGED vars
  BY <1>6 DEF vars
<1> QED BY <1>1, <1>2, <1>3, <1>4, <1>5, <1>6 DEF Next, Progress, JournalActs

LEMMA JournalStep ==
    ASSUME Sound, [Next]_vars
    PROVE  JournalOK(journal')
<1> USE DEF Sound
<1>1. CASE CloseDue
  BY <1>1, CloseDueEffect DEF Closes
<1>2. CASE ExpireAlerts
  BY <1>2, ExpireEffect DEF Closes
<1>3. CASE DetectReset
  BY <1>3, DetectResetEffect, OpensFacts
<1>4. CASE DetectThreshold
  BY <1>4, DetectThresholdEffect, OpensFacts
<1>5. CASE AcknowledgeNext
  <2>1. PICK k \in poll.acks : journal' = [journal EXCEPT ![k].acked = TRUE]
    BY <1>5 DEF AcknowledgeNext
  <2>2. \A m \in poll.acks : Terminal(journal[m])
    BY DEF PollOK
  <2> QED BY <2>1, <2>2, AcknowledgeEffect
<1>6. CASE RecordAnswer
  BY <1>6, RecordEffect
<1>7. CASE UNCHANGED journal
  BY <1>7 DEF JournalOK
<1> QED BY <1>1, <1>2, <1>3, <1>4, <1>5, <1>6, <1>7, JournalMoves DEF JournalActs

(* A row that begins to wait is the one a detection step registers. *)
LEMMA NewlyPending ==
    ASSUME Sound, [Next]_vars, NEW k \in Keys, Pending(journal'[k])
    PROVE  \/ Pending(journal[k])
           \/ /\ DetectReset /\ Announces(poll.state)
              /\ k = ResetKey(poll.state.arm)
           \/ /\ DetectThreshold /\ Registers(poll.state) /\ Accepted(poll.state)
              /\ k = NewKey
<1> USE DEF Sound
<1>1. CASE CloseDue
  BY <1>1, CloseDueEffect DEF Closes
<1>2. CASE ExpireAlerts
  BY <1>2, ExpireEffect DEF Closes
<1>3. CASE DetectReset
  BY <1>3, DetectResetEffect, OpensFacts
<1>4. CASE DetectThreshold
  BY <1>4, DetectThresholdEffect, OpensFacts
<1>5. CASE AcknowledgeNext
  <2>1. PICK m \in poll.acks : journal' = [journal EXCEPT ![m].acked = TRUE]
    BY <1>5 DEF AcknowledgeNext
  <2>2. /\ \A n \in poll.acks : Terminal(journal[n])
        /\ RowOK(journal'[m])
    BY <2>1, JournalStep, PollType DEF PollOK, JournalOK
  <2>3. Terminal(journal'[m]) /\ \A n \in Keys \ {m} : journal'[n] = journal[n]
    BY <2>1, <2>2, AcknowledgeEffect
  <2>4. k # m
    BY <2>2, <2>3, RowCases
  <2> QED BY <2>3, <2>4
<1>6. CASE RecordAnswer
  BY <1>6, RecordEffect
<1>7. CASE UNCHANGED journal
  BY <1>7
<1> QED BY <1>1, <1>2, <1>3, <1>4, <1>5, <1>6, <1>7, JournalMoves DEF JournalActs

(* A row that has come to an end changes no more, but for its
   acknowledgement. *)
LEMMA TerminalStays ==
    ASSUME Sound, [Next]_vars, NEW k \in Keys, Terminal(journal[k])
    PROVE  /\ Terminal(journal'[k])
           /\ journal'[k].reason = journal[k].reason /\ journal'[k].ch = journal[k].ch
           /\ journal[k].acked => journal'[k].acked
           /\ \/ journal'[k] = journal[k]
              \/ /\ AcknowledgeNext /\ k \in poll.acks /\ journal'[k].acked
                 /\ journal' = [journal EXCEPT ![k].acked = TRUE]
<1> USE DEF Sound
<1>0. Present(journal[k]) /\ ~Pending(journal[k])
  BY RowCases DEF JournalOK
<1>1. CASE CloseDue
  BY <1>0, <1>1, CloseDueEffect DEF Closes
<1>2. CASE ExpireAlerts
  BY <1>0, <1>2, ExpireEffect DEF Closes
<1>3. CASE DetectReset
  BY <1>0, <1>3, DetectResetEffect, OpensFacts
<1>4. CASE DetectThreshold
  BY <1>0, <1>4, DetectThresholdEffect, OpensFacts
<1>5. CASE AcknowledgeNext
  <2>1. PICK m \in poll.acks : journal' = [journal EXCEPT ![m].acked = TRUE]
    BY <1>5 DEF AcknowledgeNext
  <2>2. \A n \in poll.acks : Terminal(journal[n])
    BY DEF PollOK
  <2>3. /\ Terminal(journal'[m]) /\ journal'[m].acked
        /\ journal'[m].reason = journal[m].reason
        /\ journal'[m].ch = journal[m].ch
        /\ \A n \in Keys \ {m} : journal'[n] = journal[n]
    BY <2>1, <2>2, AcknowledgeEffect
  <2> QED BY <1>5, <2>1, <2>3
<1>6. CASE RecordAnswer
  BY <1>0, <1>6, RecordEffect
<1>7. CASE UNCHANGED journal
  BY <1>7
<1> QED BY <1>1, <1>2, <1>3, <1>4, <1>5, <1>6, <1>7, JournalMoves DEF JournalActs

(* A row that is there stays. *)
LEMMA PresentStays ==
    ASSUME Sound, [Next]_vars, NEW k \in Keys, Present(journal[k])
    PROVE  Present(journal'[k])
<1> USE DEF Sound
<1>1. CASE CloseDue
  BY <1>1, CloseDueEffect DEF Closes
<1>2. CASE ExpireAlerts
  BY <1>2, ExpireEffect DEF Closes
<1>3. CASE DetectReset
  BY <1>3, DetectResetEffect, OpensFacts
<1>4. CASE DetectThreshold
  BY <1>4, DetectThresholdEffect, OpensFacts
<1>5. CASE AcknowledgeNext
  <2>1. CASE Terminal(journal[k])
    BY <2>1, TerminalStays, JournalStep, RowCases DEF JournalOK
  <2>2. CASE ~Terminal(journal[k])
    <3>1. PICK m \in poll.acks : journal' = [journal EXCEPT ![m].acked = TRUE]
      BY <1>5 DEF AcknowledgeNext
    <3>2. \A n \in poll.acks : Terminal(journal[n])
      BY DEF PollOK
    <3>3. journal'[k] = journal[k]
      BY <2>2, <3>1, <3>2, AcknowledgeEffect
    <3> QED BY <3>3
  <2> QED BY <2>1, <2>2
<1>6. CASE RecordAnswer
  <2>1. RowOK(journal'[poll.item[1]])
    BY <1>6, RecordEffect DEF JournalOK
  <2>2. Present(journal'[poll.item[1]])
    BY <1>6, <2>1, RecordEffect, RowCases
  <2> QED BY <1>6, <2>2, RecordEffect
<1>7. CASE UNCHANGED journal
  BY <1>7
<1> QED BY <1>1, <1>2, <1>3, <1>4, <1>5, <1>6, <1>7, JournalMoves DEF JournalActs

-----------------------------------------------------------------------------
(* The invariant of a poll. *)

LEMMA NotExpiredStays ==
    ASSUME Sound, [Next]_vars, Expires',
           poll.at # "expire" => Expires /\ week' = week,
           poll.at = "expire" => ExpireAlerts /\ week' = week,
           NEW k \in Keys, Pending(journal'[k])
    PROVE  ~Expired(k)'
<1> USE DEF Sound
<1>1. week' = week
  OBVIOUS
<1>2. Expired(k)' <=> Expired(k)
  BY <1>1 DEF Expired
<1>3. CASE ExpireAlerts
  BY <1>2, <1>3, ExpireEffect DEF Closes
<1>4. ASSUME poll.at # "expire" PROVE ~Expired(k)
  <2>1. CASE Pending(journal[k])
    BY <1>4, <2>1 DEF NoneOver
  <2>2. CASE /\ DetectReset /\ Announces(poll.state)
             /\ k = ResetKey(poll.state.arm)
    <3>1. poll.state \in DetectorStates /\ week \in Weeks
      BY PollType DEF TypeOK
    <3>2. k.kind = "reset" /\ k.epoch \in Nat /\ week \in Nat /\ k.epoch + 1 >= week
      BY <2>2, <3>1, DueWeek, WeekIsNat, KeyEpoch DEF Announces
    <3> QED BY <3>2 DEF Expired
  <2>3. CASE /\ DetectThreshold /\ Registers(poll.state) /\ Accepted(poll.state)
             /\ k = NewKey
    <3>1. k.kind = "threshold" /\ k.epoch \in Nat /\ k.epoch >= week /\ week \in Nat
      <4>1. week \in Nat
        BY WeekIsNat DEF TypeOK
      <4> QED BY <2>3, <4>1, NewKeyFacts, KeyEpoch
    <3> QED BY <3>1 DEF Expired
  <2> QED BY <2>1, <2>2, <2>3, NewlyPending
<1> QED BY <1>2, <1>3, <1>4


LEMMA AcksStay ==
    ASSUME Sound, [Next]_vars, poll'.acks \subseteq poll.acks
    PROVE  \A k \in poll'.acks : Terminal(journal'[k])
BY TerminalStays, PollType DEF Sound, PollOK

LEMMA ProceedFacts ==
    ASSUME TypeOK, NEW i, poll' = Proceed(i)
    PROVE  /\ poll'.at = IF poll.queue = {i} THEN "reconcile" ELSE "send"
           /\ poll'.queue = poll.queue \ {i} /\ poll'.attempt = 0
           /\ poll'.then = poll.then /\ poll'.acks = poll.acks
           /\ poll'.state = poll.state
BY PollType DEF Proceed, PollStates

LEMMA PollStep ==
    ASSUME Sound, [Next]_vars
    PROVE  PollOK' /\ (Expires' => /\ week' = week
                                   /\ Expires \/ ExpireAlerts)
<1> USE DEF Sound
<1>0. /\ poll \in PollStates /\ poll.acks \subseteq Keys /\ poll.queue \subseteq Items
      /\ poll.attempt \in 0..Attempts /\ Attempts \in Nat \ {0}
  BY PollType, WeeklyAssumption DEF WeeklyAssumption
<1>00. ASSUME poll' = Idle PROVE PollOK' /\ ~Expires'
  BY <1>00 DEF Idle, PollOK, Expires, Reconciling
<1>1. CASE UseQuota \/ NextWeek \/ SampleAges \/ \E i \in Items : WaitOver(i)
  <2>1. poll.at = "idle" /\ poll' = poll /\ journal' = journal
    BY <1>1 DEF UseQuota, NextWeek, SampleAges, WaitOver, stores, history
  <2> QED BY <2>1 DEF PollOK, Expires, Reconciling
<1>2. CASE StartPoll
  BY <1>2 DEF StartPoll, Idle, PollOK, Expires, Reconciling
<1>3. CASE CloseDue
  <2>1. poll' = [poll EXCEPT !.at = "reconcile", !.then = "expire"]
        /\ poll.at = "close" /\ poll.acks = {} /\ poll.attempt = 0
    BY <1>3 DEF CloseDue, PollOK, Reconciling
  <2> QED BY <1>0, <2>1 DEF PollOK, Expires, Reconciling, PollStates
<1>4. CASE ReconcileRow
  <2>1. PICK k \in Unread :
           poll' = [poll EXCEPT !.acks = @ \cup {k},
                      !.state = IF Outcome(k) THEN Applied(@, k) ELSE @]
    BY <1>4 DEF ReconcileRow
  <2>2. Terminal(journal[k]) /\ poll.at = "reconcile" /\ journal' = journal /\ week' = week
    BY <1>4 DEF ReconcileRow, Unread, Unacknowledged, service, stores
  <2>3. /\ poll'.at = poll.at /\ poll'.then = poll.then /\ poll'.attempt = poll.attempt
        /\ poll'.acks = poll.acks \cup {k}
    BY <1>0, <2>1 DEF PollStates
  <2> QED BY <2>2, <2>3 DEF PollOK, Expires, Reconciling
<1>5. CASE ReconcileEnd
  <2>1. /\ poll' = [poll EXCEPT !.at = IF poll.acks = {} THEN poll.then ELSE "persist"]
        /\ poll.at = "reconcile" /\ journal' = journal /\ week' = week
        /\ poll.then \in {"expire", "detect", "finish"} /\ poll.attempt = 0
    BY <1>5 DEF ReconcileEnd, service, stores, PollOK, Reconciling
  <2>2. /\ poll'.at = IF poll.acks = {} THEN poll.then ELSE "persist"
        /\ poll'.then = poll.then /\ poll'.attempt = 0 /\ poll'.acks = poll.acks
    BY <1>0, <2>1 DEF PollStates
  <2> QED BY <2>1, <2>2 DEF PollOK, Expires, Reconciling
<1>6. CASE PersistReconciled
  <2>1. /\ poll' = [poll EXCEPT !.at = "acknowledge"]
        /\ poll.at = "persist" /\ journal' = journal /\ week' = week /\ poll.attempt = 0
    BY <1>6 DEF PersistReconciled, service, PollOK
  <2> QED BY <1>0, <2>1 DEF PollOK, Expires, Reconciling, PollStates
<1>7. CASE AcknowledgeNext
  <2>1. PICK k \in poll.acks :
           poll' = [poll EXCEPT !.acks = @ \ {k},
                      !.at = IF poll.acks = {k} THEN poll.then ELSE @]
    BY <1>7 DEF AcknowledgeNext
  <2>2. /\ poll.at = "acknowledge" /\ week' = week /\ poll.attempt = 0
        /\ poll.then \in {"expire", "detect", "finish"}
    BY <1>7 DEF AcknowledgeNext, service, PollOK, Reconciling
  <2>3. /\ poll'.at = IF poll.acks = {k} THEN poll.then ELSE "acknowledge"
        /\ poll'.then = poll.then /\ poll'.attempt = 0 /\ poll'.acks = poll.acks \ {k}
    BY <1>0, <2>1, <2>2 DEF PollStates
  <2>4. \A m \in poll'.acks : Terminal(journal'[m])
    BY <2>3, AcksStay
  <2> QED BY <2>2, <2>3, <2>4 DEF PollOK, Expires, Reconciling
<1>8. CASE ExpireAlerts
  <2>1. /\ poll' = [poll EXCEPT !.at = "reconcile", !.then = "detect"]
        /\ poll.at = "expire" /\ poll.acks = {} /\ poll.attempt = 0 /\ week' = week
    BY <1>8 DEF ExpireAlerts, PollOK, Reconciling, service
  <2> QED BY <1>0, <1>8, <2>1 DEF PollOK, Expires, Reconciling, PollStates
<1>9. CASE DetectReset \/ DetectThreshold \/ SaveState
  <2>1. /\ poll.at \in {"detect", "threshold", "save"} /\ week' = week
        /\ poll'.at \in {"threshold", "save", "due", "finish"}
        /\ poll'.acks = poll.acks /\ poll'.attempt = poll.attempt
    BY <1>0, <1>9 DEF DetectReset, DetectThreshold, SaveState, service, PollStates
  <2>2. poll.acks = {} /\ poll.attempt = 0
    BY <2>1 DEF PollOK, Reconciling
  <2> QED BY <2>1, <2>2 DEF PollOK, Expires, Reconciling
<1>10. CASE CollectDue
  <2> DEFINE due == {i \in Items : journal[i[1]].ch[i[2]] = "pending"} \ later
  <2>1. /\ poll' = [poll EXCEPT !.queue = due, !.then = "finish",
                     !.at = IF due = {} THEN "reconcile" ELSE "send"]
        /\ poll.at = "due" /\ journal' = journal /\ week' = week
        /\ poll.acks = {} /\ poll.attempt = 0
    BY <1>10 DEF CollectDue, service, stores, PollOK, Reconciling
  <2>2. \A i \in due : journal[i[1]].ch[i[2]] = "pending"
    OBVIOUS
  <2> HIDE DEF due
  <2>3. /\ poll'.at \in {"reconcile", "send"} /\ poll'.then = "finish"
        /\ poll'.attempt = 0 /\ poll'.acks = {} /\ poll'.queue = due
    BY <1>0, <2>1 DEF PollStates
  <2> QED BY <1>0, <2>1, <2>2, <2>3 DEF PollOK, Expires, Reconciling

<1>11. ASSUME NEW i \in Items, NEW answer \in Answers, Send(i, answer)
       PROVE  PollOK' /\ (Expires' => week' = week /\ Expires)
  <2>1. /\ poll' = [poll EXCEPT !.at = "record", !.item = i,
                                !.attempt = @ + 1, !.answer = answer]
        /\ poll.at = "send" /\ journal' = journal /\ week' = week
        /\ i \in Current /\ poll.acks = {}
    BY <1>11 DEF Send, service, stores, PollOK, Reconciling
  <2>2. i \in poll.queue
    BY <1>0, <2>1 DEF Current, PollOK
  <2>3. /\ poll'.at = "record" /\ poll'.item = i /\ poll'.answer = answer
        /\ poll'.queue = poll.queue /\ poll'.acks = {}
    BY <1>0, <2>1 DEF PollStates
  <2> QED BY <2>1, <2>2, <2>3 DEF PollOK, Expires, Reconciling
<1>12. CASE RecordAnswer
  <2>1. /\ poll.at = "record" /\ week' = week /\ poll.acks = {}
        /\ \A i \in poll.queue : journal[i[1]].ch[i[2]] = "pending"
        /\ poll.item \in poll.queue
    BY <1>12 DEF RecordAnswer, service, PollOK, Reconciling
  <2>2. ASSUME NEW i \in poll.queue, i # poll.item \/ TriesAgain
        PROVE  journal'[i[1]].ch[i[2]] = "pending"
    <3>1. i \in Items /\ poll.item \in Items /\ i[1] \in Keys /\ i[2] \in Channels
      BY <1>0, <2>1 DEF Items
    <3>2. journal[i[1]].ch[i[2]] = "pending" /\ journal[i[1]] \in Rows
      BY <2>1, <3>1 DEF TypeOK
    <3>3. CASE i[1] # poll.item[1]
      BY <1>12, <3>1, <3>2, <3>3, RecordEffect
    <3>4. CASE i[1] = poll.item[1] /\ i[2] # poll.item[2]
      <4>1. journal'[i[1]].ch = [journal[i[1]].ch EXCEPT ![poll.item[2]] =
                                   ChannelOutcome(poll.answer)]
        BY <1>12, <3>4, RecordEffect
      <4> QED BY <3>1, <3>2, <3>4, <4>1 DEF Rows
    <3>5. CASE i[1] = poll.item[1] /\ i[2] = poll.item[2]
      <4>1. i = poll.item
        BY <3>1, <3>5 DEF Items
      <4>2. ChannelOutcome(poll.answer) = "pending"
        BY <2>2, <4>1 DEF TriesAgain, ChannelOutcome
      <4>3. journal'[i[1]].ch = [journal[i[1]].ch EXCEPT ![poll.item[2]] = "pending"]
        BY <1>12, <3>5, <4>2, RecordEffect
      <4> QED BY <3>1, <3>2, <3>5, <4>3 DEF Rows
    <3> QED BY <3>3, <3>4, <3>5
  <2>3. CASE TriesAgain
    <3>1. poll' = [poll EXCEPT !.at = "send", !.answer = "none"]
          /\ poll.attempt < Attempts
      BY <1>12, <2>3 DEF RecordAnswer, TriesAgain
    <3>2. /\ poll'.at = "send" /\ poll'.attempt = poll.attempt /\ poll'.item = poll.item
          /\ poll'.queue = poll.queue /\ poll'.acks = {}
      BY <1>0, <2>1, <3>1 DEF PollStates
    <3>3. \A i \in poll.queue : journal'[i[1]].ch[i[2]] = "pending"
      BY <2>2, <2>3
    <3> QED BY <2>1, <3>1, <3>2, <3>3 DEF PollOK, Expires, Reconciling
  <2>4. CASE ~TriesAgain
    <3>1. poll' = Proceed(poll.item)
      BY <1>12, <2>4 DEF RecordAnswer
    <3>2. /\ poll'.at \in {"reconcile", "send"} /\ poll'.then = poll.then
          /\ poll'.attempt = 0 /\ poll'.acks = {} /\ poll'.queue = poll.queue \ {poll.item}
      BY <2>1, <3>1, ProceedFacts
    <3>3. \A i \in poll.queue \ {poll.item} : journal'[i[1]].ch[i[2]] = "pending"
      BY <2>2
    <3>4. poll.then = "finish"
      BY <2>1 DEF PollOK
    <3> QED BY <1>0, <2>1, <3>2, <3>3, <3>4 DEF PollOK, Expires, Reconciling
  <2> QED BY <2>3, <2>4
<1>13. CASE SkipItem \/ RecordFails
  <2>1. /\ poll.at \in {"send", "record"} /\ week' = week /\ journal' = journal
        /\ poll.acks = {} /\ poll.then = "finish"
        /\ \A i \in poll.queue : journal[i[1]].ch[i[2]] = "pending"
    BY <1>13 DEF SkipItem, RecordFails, service, stores, PollOK, Reconciling
  <2>2. PICK i : poll' = Proceed(i)
    BY <1>13 DEF SkipItem, RecordFails
  <2>3. /\ poll'.at \in {"reconcile", "send"} /\ poll'.then = poll.then
        /\ poll'.attempt = 0 /\ poll'.acks = {} /\ poll'.queue = poll.queue \ {i}
    BY <2>1, <2>2, ProceedFacts
  <2> QED BY <1>0, <2>1, <2>3 DEF PollOK, Expires, Reconciling
<1>14. CASE FinishPoll \/ Crash
  BY <1>00, <1>14 DEF FinishPoll, Crash
<1>15. CASE GiveUpReconcile
  <2>1. /\ poll' = [poll EXCEPT !.at = "finish", !.acks = {}]
        /\ poll.at \in Reconciling /\ journal' = journal /\ week' = week
    BY <1>15 DEF GiveUpReconcile, service, stores, Reconciling
  <2>2. poll.attempt = 0
    BY <2>1 DEF PollOK, Reconciling
  <2> QED BY <1>0, <2>1, <2>2 DEF PollOK, Expires, Reconciling, PollStates
<1>16. CASE UNCHANGED vars
  BY <1>16 DEF vars, PollOK, Expires, Reconciling
<1> QED BY <1>1, <1>2, <1>3, <1>4, <1>5, <1>6, <1>7, <1>8, <1>9, <1>10, <1>11, <1>12,
          <1>13, <1>14, <1>15, <1>16
       DEF Next, Progress, Failure

LEMMA SoundStep ==
    ASSUME Sound, [Next]_vars
    PROVE  Sound'
<1>1. TypeOK' /\ JournalOK(journal')
  BY TypeStep, JournalStep
<1>2. PollOK'
  BY PollStep
<1>3. NoneOver'
  <2>1. SUFFICES ASSUME Expires', NEW k \in Keys, Pending(journal'[k])
                 PROVE  ~Expired(k)'
    BY DEF NoneOver
  <2>2. week' = week /\ (Expires \/ ExpireAlerts)
    BY <2>1, PollStep
  <2>3. Expires => poll.at # "expire"
    BY DEF Expires, Reconciling
  <2>4. ExpireAlerts => poll.at = "expire"
    BY DEF ExpireAlerts
  <2> QED BY <2>1, <2>2, <2>3, <2>4, NotExpiredStays
<1> QED BY <1>1, <1>2, <1>3 DEF Sound

LEMMA SoundInit == Init => Sound
<1> SUFFICES ASSUME Init PROVE Sound
  OBVIOUS
<1>1. /\ week = 1 /\ pct = Full /\ recent = 0 /\ poll = Idle /\ disk = FirstState
      /\ journal = [k \in Keys |-> NoRow] /\ event = [k \in Keys |-> NoEvent]
      /\ later = {} /\ faults = 0
      /\ sent = [i \in Items |-> 0] /\ lost = [i \in Items |-> 0]
  BY DEF Init
<1>2. JournalOK(journal) /\ journal \in [Keys -> Rows]
  BY <1>1, NoRowFacts DEF JournalOK
<1>3. Full >= 1 /\ Full \in Nat
  BY WeeklyAssumption DEF WeeklyAssumption
<1>4. week \in Weeks /\ pct \in 1..Full /\ recent \in 0..week
  BY <1>1, <1>3, WeekFacts
<1>5. event \in [Keys -> EventData]
  BY <1>1, <1>3 DEF NoEvent, EventData
<1>6. disk \in DetectorStates /\ poll \in PollStates
  BY <1>1, IdleType DEF Idle, PollStates
<1>7. /\ later \subseteq Items /\ faults \in 0..MaxFaults
      /\ sent \in [Items -> Nat] /\ lost \in [Items -> Nat]
  BY <1>1, WeeklyAssumption DEF WeeklyAssumption
<1>8. TypeOK
  BY <1>2, <1>4, <1>5, <1>6, <1>7 DEF TypeOK
<1>9. PollOK /\ NoneOver
  BY <1>1 DEF Idle, PollOK, NoneOver, Expires, Reconciling
<1> QED BY <1>2, <1>8, <1>9 DEF Sound

(* The variables keep their types: in particular the threshold the detector
   calls pending, its levels and the number of attempts stay within their
   ranges, through failed writes and crashes. *)
THEOREM WeeklyTypeCorrect == Spec => []TypeOK
<1>1. Init => Sound
  BY SoundInit
<1>2. Sound /\ [Next]_vars => Sound'
  BY SoundStep
<1>3. Sound => TypeOK
  BY DEF Sound
<1> QED BY <1>1, <1>2, <1>3, PTL DEF Spec

-----------------------------------------------------------------------------
(* What the steps of a poll make of the detector state. *)

LEMMA LoadedFields ==
    ASSUME NEW d \in DetectorStates
    PROVE  LET s == Loaded(d)
           IN /\ s.last = d.last /\ s.seen = d.seen /\ s.obs = d.obs
              /\ s.prev = d.prev /\ s.pending = d.pending /\ s.notified = d.notified
              /\ \/ s.arm = d.arm /\ s = d
                 \/ /\ d.arm = 0 /\ 0 < d.seen /\ d.seen < week /\ recent # 0
                    /\ s.arm = d.seen
BY DEF Loaded, DetectorStates

LEMMA RetiredFields ==
    ASSUME NEW d \in DetectorStates
    PROVE  LET s == Retired(d)
           IN /\ s.arm = 0 /\ s.notified = {} /\ s.pending = NoThreshold /\ s.prev = Full
              /\ s.last = d.last /\ s.seen = d.seen /\ s.obs = d.obs
BY DEF Retired, DetectorStates

LEMMA AppliedThreshold ==
    ASSUME NEW d \in DetectorStates, NEW k \in Keys, k.kind = "threshold"
    PROVE  LET s == Applied(d, k)
           IN /\ s.arm = d.arm /\ s.last = d.last /\ s.seen = d.seen /\ s.obs = d.obs
              /\ s.notified = d.notified \cup event[k].covered
              /\ s.pending = IF d.pending = k.selector THEN NoThreshold ELSE d.pending
              /\ s.prev = event[k].remaining
BY DEF Applied, DetectorStates

LEMMA AppliedReset ==
    ASSUME NEW d \in DetectorStates, NEW k \in Keys, k.kind = "reset"
    PROVE  LET s == Applied(d, k)
           IN /\ s.last = k.epoch /\ s.seen = d.seen /\ s.obs = d.obs
              /\ d.arm = k.epoch => /\ s.arm = 0 /\ s.notified = {}
                                    /\ s.pending = NoThreshold /\ s.prev = Full
              /\ d.arm # k.epoch => /\ s.arm = d.arm /\ s.notified = d.notified
                                    /\ s.pending = d.pending /\ s.prev = d.prev
<1> DEFINE noted == [d EXCEPT !.last = k.epoch]
<1>1. noted \in DetectorStates
  BY KeyEpoch DEF DetectorStates
<1>2. /\ noted.last = k.epoch /\ noted.seen = d.seen /\ noted.obs = d.obs
      /\ noted.arm = d.arm /\ noted.notified = d.notified
      /\ noted.pending = d.pending /\ noted.prev = d.prev
  BY DEF DetectorStates
<1>3. Applied(d, k) = IF d.arm = k.epoch THEN Retired(noted) ELSE noted
  BY DEF Applied
<1> HIDE DEF noted
<1> QED BY <1>1, <1>2, <1>3, RetiredFields

LEMMA ObservedFields ==
    ASSUME NEW d \in DetectorStates
    PROVE  LET s == Observed(d)
           IN /\ s.seen = week /\ s.obs = pct /\ s.arm = d.arm /\ s.last = d.last
              /\ s.prev = d.prev /\ s.pending = d.pending /\ s.notified = d.notified
BY DEF Observed, DetectorStates

(* What DetectReset makes of the loaded state: a due week is retired when its
   reset is settled or too old, else kept; the next week is armed by the first
   use of it. *)
LEMMA DetectedFields ==
    ASSUME NEW d \in DetectorStates, week \in Weeks, pct \in 1..Full
    PROVE  LET s == ArmNext(RetireDue(Noted(d)))
           IN \/ /\ Due(d)
                 /\ \/ d.last = d.arm \/ d.arm + 1 < week
                    \/ Terminal(journal[ResetKey(d.arm)])
                 /\ s.seen = week /\ s.last = d.arm
                 /\ s.arm = (IF pct < Full THEN week ELSE 0)
                 /\ s.notified = {} /\ s.pending = NoThreshold /\ s.prev = Full
              \/ /\ Due(d) /\ d.last # d.arm /\ d.arm + 1 >= week
                 /\ ~Terminal(journal[ResetKey(d.arm)])
                 /\ s.seen = week /\ s.last = d.last /\ s.arm = d.arm
                 /\ s.notified = d.notified /\ s.pending = d.pending /\ s.prev = d.prev
              \/ /\ ~Due(d)
                 /\ s.seen = d.seen /\ s.last = d.last
                 /\ s.arm = (IF d.arm = 0 /\ pct < Full THEN week ELSE d.arm)
                 /\ s.notified = d.notified /\ s.pending = d.pending /\ s.prev = d.prev
                 /\ s.arm = d.arm => s = d
<1> DEFINE n == Noted(d)
           r == RetireDue(n)
           s == ArmNext(r)
<1>0. week \in Nat /\ d.arm \in Nat
  BY WeekIsNat, WeekFacts DEF DetectorStates
<1>1. CASE Due(d)
  <2> DEFINE stale == d.arm + 1 < week
             heard == d.last # d.arm /\ Terminal(journal[ResetKey(d.arm)])
             o == Observed(d)
  <2>1. n = [o EXCEPT !.last = IF stale \/ heard THEN d.arm ELSE @]
    BY <1>1 DEF Noted
  <2>2. /\ o \in DetectorStates /\ o.seen = week /\ o.arm = d.arm /\ o.last = d.last
        /\ o.prev = d.prev /\ o.pending = d.pending /\ o.notified = d.notified
    BY ObservedType, ObservedFields
  <2> HIDE DEF o, n
  <2>3. /\ n \in DetectorStates /\ n.seen = week /\ n.arm = d.arm
        /\ n.last = (IF stale \/ heard THEN d.arm ELSE d.last)
        /\ n.prev = d.prev /\ n.pending = d.pending /\ n.notified = d.notified
    BY <2>1, <2>2 DEF DetectorStates
  <2>4. Due(n)
    BY <1>1, <2>3 DEF Due
  <2>5. CASE n.last = d.arm
    <3>1. r = Retired(n)
      BY <2>3, <2>4, <2>5 DEF RetireDue
    <3>2. /\ r \in DetectorStates /\ r.arm = 0 /\ r.notified = {}
          /\ r.pending = NoThreshold /\ r.prev = Full /\ r.last = d.arm /\ r.seen = week
      BY <2>3, <2>5, <3>1, RetiredType, RetiredFields
    <3> HIDE DEF r
    <3>3. /\ s.seen = week /\ s.last = d.arm
          /\ s.arm = (IF pct < Full THEN week ELSE 0)
          /\ s.notified = {} /\ s.pending = NoThreshold /\ s.prev = Full
      BY <3>2 DEF ArmNext, DetectorStates
    <3>4. \/ d.last = d.arm \/ d.arm + 1 < week
          \/ Terminal(journal[ResetKey(d.arm)])
      BY <2>3, <2>5
    <3> HIDE DEF s
    <3> QED BY <1>1, <3>3, <3>4 DEF s, r, n
  <2>6. CASE n.last # d.arm
    <3>1. r = n
      BY <2>3, <2>6 DEF RetireDue
    <3>2. s = n
      BY <1>0, <1>1, <2>3, <3>1 DEF ArmNext, Due
    <3>3. ~stale /\ ~heard /\ n.last = d.last
      BY <2>3, <2>6
    <3>4. d.last # d.arm /\ d.arm + 1 >= week /\ ~Terminal(journal[ResetKey(d.arm)])
      BY <1>0, <2>6, <3>3
    <3>5. /\ s.seen = week /\ s.last = d.last /\ s.arm = d.arm
          /\ s.notified = d.notified /\ s.pending = d.pending /\ s.prev = d.prev
      BY <2>3, <3>2, <3>3
    <3> HIDE DEF s
    <3> QED BY <1>1, <3>4, <3>5 DEF s, r, n
  <2> QED BY <2>5, <2>6
<1>2. CASE ~Due(d)
  <2>1. r = d
    BY <1>2 DEF Noted, RetireDue
  <2> HIDE DEF r
  <2>2. /\ s.seen = d.seen /\ s.last = d.last
        /\ s.arm = (IF d.arm = 0 /\ pct < Full THEN week ELSE d.arm)
        /\ s.notified = d.notified /\ s.pending = d.pending /\ s.prev = d.prev
        /\ s.arm = d.arm => s = d
    BY <1>0, <2>1, WeekIsNat DEF ArmNext, DetectorStates
  <2> HIDE DEF s
  <2> QED BY <1>2, <2>2 DEF s, r, n
<1> QED BY <1>1, <1>2


(* The state DetectThreshold leaves: the level is the new baseline when there
   is nothing to announce, else the threshold is pending. *)
Marked(d) == IF Candidates(d) = {} THEN [d EXCEPT !.prev = pct]
             ELSE [d EXCEPT !.pending = Critical(d)]

LEMMA MarkedFields ==
    ASSUME NEW d \in DetectorStates, pct \in 1..Full
    PROVE  LET s == Observed(Marked(d))
           IN /\ s.seen = week /\ s.arm = d.arm /\ s.last = d.last
              /\ s.notified = d.notified
              /\ Candidates(d) = {} => s.prev = pct /\ s.pending = d.pending
              /\ Candidates(d) # {} => s.prev = d.prev /\ s.pending = Critical(d)
<1> DEFINE m == Marked(d)
<1>1. pct \in 0..Full /\ (Candidates(d) # {} => Critical(d) \in Thresholds)
  BY PercentFacts, CriticalFacts
<1>2. /\ m \in DetectorStates /\ m.arm = d.arm /\ m.last = d.last
      /\ m.notified = d.notified
      /\ Candidates(d) = {} => m.prev = pct /\ m.pending = d.pending
      /\ Candidates(d) # {} => m.prev = d.prev /\ m.pending = Critical(d)
  BY <1>1 DEF Marked, DetectorStates
<1> HIDE DEF m
<1> QED BY <1>2, ObservedFields DEF m

-----------------------------------------------------------------------------
(* No row and no arm is of a week to come. *)

Reached(s) == s.arm <= week /\ s.seen <= week

NotAhead ==
    /\ Reached(disk) /\ Reached(poll.state)
    /\ \A k \in Keys : Present(journal[k]) =>
          IF k.kind = "reset" THEN k.epoch < week ELSE k.epoch <= week

(* What the steps do to the three copies of the state. *)
LEMMA StateMoves ==
    ASSUME Sound, [Next]_vars
    PROVE  \/ poll'.state = FirstState
           \/ poll'.state = poll.state
           \/ StartPoll /\ poll'.state = Loaded(disk)
           \/ /\ ReconcileRow
              /\ \E k \in Unread : /\ \A m \in Unread \ {k} : Older(k, m)
                                   /\ poll'.acks = poll.acks \cup {k}
                                   /\ poll'.state = IF Outcome(k) THEN Applied(poll.state, k)
                                                                  ELSE poll.state
           \/ DetectReset /\ poll'.state = ArmNext(RetireDue(Noted(poll.state)))
           \/ DetectThreshold /\ poll'.state = Observed(Marked(poll.state))
<1>0. poll \in PollStates /\ TypeOK
  BY DEF Sound, TypeOK
<1>1. CASE UseQuota \/ NextWeek \/ SampleAges \/ \E i \in Items : WaitOver(i)
  BY <1>1 DEF UseQuota, NextWeek, SampleAges, WaitOver
<1>2. CASE StartPoll
  BY <1>2 DEF StartPoll, Idle
<1>3. CASE ReconcileRow
  BY <1>0, <1>3 DEF ReconcileRow, PollStates
<1>4. CASE CloseDue \/ ReconcileEnd \/ PersistReconciled \/ ExpireAlerts
             \/ CollectDue \/ GiveUpReconcile
  BY <1>0, <1>4 DEF CloseDue, ReconcileEnd, PersistReconciled, ExpireAlerts,
                    CollectDue, GiveUpReconcile, PollStates
<1>5. CASE AcknowledgeNext
  BY <1>0, <1>5 DEF AcknowledgeNext, PollStates
<1>6. CASE DetectReset
  BY <1>0, <1>6 DEF DetectReset, PollStates
<1>7. CASE DetectThreshold
  BY <1>0, <1>7 DEF DetectThreshold, Marked, PollStates
<1>8. CASE SaveState
  BY <1>0, <1>8 DEF SaveState, PollStates
<1>9. CASE \E i \in Items, answer \in Answers : Send(i, answer)
  BY <1>0, <1>9 DEF Send, PollStates
<1>10. CASE RecordAnswer \/ SkipItem \/ RecordFails
  <2>1. CASE RecordAnswer /\ TriesAgain
    BY <1>0, <2>1 DEF RecordAnswer, PollStates
  <2>2. CASE \E i : poll' = Proceed(i)
    BY <1>0, <2>2, ProceedFacts
  <2> QED BY <1>10, <2>1, <2>2 DEF RecordAnswer, SkipItem, RecordFails
<1>11. CASE FinishPoll \/ Crash
  BY <1>11 DEF FinishPoll, Crash, Idle
<1>12. CASE UNCHANGED vars
  BY <1>12 DEF vars
<1> QED BY <1>1, <1>2, <1>3, <1>4, <1>5, <1>6, <1>7, <1>8, <1>9, <1>10, <1>11, <1>12
       DEF Next, Progress, Failure

(* The state file takes the state of the poll, or stays. *)
LEMMA DiskMoves ==
    ASSUME Sound, [Next]_vars
    PROVE  \/ disk' = disk
           \/ /\ PersistReconciled \/ (SaveState /\ poll'.at = "due") \/ FinishPoll
              /\ disk' = poll.state
<1>1. UseQuota \/ NextWeek \/ SampleAges \/ (\E i \in Items : WaitOver(i))
         => disk' = disk
  BY DEF UseQuota, NextWeek, SampleAges, WaitOver, stores
<1>2. StartPoll \/ ReconcileRow \/ ReconcileEnd \/ CollectDue \/ Failure
        \/ (\E i \in Items, answer \in Answers : Send(i, answer)) => disk' = disk
  BY DEF StartPoll, ReconcileRow, ReconcileEnd, CollectDue, Send, Failure, SkipItem,
         RecordFails, GiveUpReconcile, Crash, stores
<1>3. CloseDue \/ ExpireAlerts \/ AcknowledgeNext \/ DetectReset \/ DetectThreshold
        \/ RecordAnswer => disk' = disk
  BY DEF CloseDue, ExpireAlerts, AcknowledgeNext, DetectReset, DetectThreshold,
         RecordAnswer
<1>4. PersistReconciled \/ FinishPoll => disk' \in {disk, poll.state}
  BY DEF PersistReconciled, FinishPoll
<1>5. SaveState => disk' = disk \/ (disk' = poll.state /\ poll'.at = "due")
  BY DEF SaveState, Sound, TypeOK, PollStates
<1>6. UNCHANGED vars => disk' = disk
  BY DEF vars
<1> QED BY <1>1, <1>2, <1>3, <1>4, <1>5, <1>6 DEF Next, Progress


(* A row that comes to an end has waited before. *)
LEMMA NewlyTerminal ==
    ASSUME Sound, [Next]_vars, NEW k \in Keys, Terminal(journal'[k])
    PROVE  \/ Terminal(journal[k])
           \/ /\ Pending(journal[k]) /\ ~journal'[k].acked
              /\ \/ /\ CloseDue /\ Due(poll.state) /\ k.kind = "threshold"
                    /\ journal'[k].reason \in Closed
                 \/ ExpireAlerts /\ Expired(k) /\ journal'[k].reason \in Closed
                 \/ /\ DetectReset /\ Announces(poll.state) /\ k.kind = "threshold"
                    /\ journal'[k].reason \in Closed
                 \/ /\ DetectThreshold /\ Registers(poll.state) /\ Accepted(poll.state)
                    /\ k.kind = "threshold" /\ k.epoch = NewKey.epoch /\ k # NewKey
                    /\ journal'[k].reason \in Closed
                 \/ /\ RecordAnswer /\ poll.item \in poll.queue /\ k = poll.item[1]
                    /\ journal'[k].reason \in {"delivered", "permanent_failure"}
<1> USE DEF Sound
<1>0. RowOK(journal'[k]) /\ ~Pending(journal'[k])
  BY JournalStep, RowCases DEF JournalOK
<1>1. CASE CloseDue
  BY <1>1, CloseDueEffect DEF Closes, Closed
<1>2. CASE ExpireAlerts
  BY <1>2, ExpireEffect DEF Closes, Closed
<1>3. CASE DetectReset
  BY <1>0, <1>3, DetectResetEffect, OpensFacts, NewRowOK DEF Closed
<1>4. CASE DetectThreshold
  BY <1>0, <1>4, DetectThresholdEffect, OpensFacts, NewRowOK DEF Closed
<1>5. CASE AcknowledgeNext
  <2>1. PICK m \in poll.acks : journal' = [journal EXCEPT ![m].acked = TRUE]
    BY <1>5 DEF AcknowledgeNext
  <2>2. \A n \in poll.acks : Terminal(journal[n])
    BY DEF PollOK
  <2>3. \A n \in Keys \ {m} : journal'[n] = journal[n]
    BY <2>1, <2>2, AcknowledgeEffect
  <2> QED BY <2>2, <2>3
<1>6. CASE RecordAnswer
  BY <1>0, <1>6, RecordEffect
<1>7. CASE UNCHANGED journal
  BY <1>7
<1> QED BY <1>1, <1>2, <1>3, <1>4, <1>5, <1>6, <1>7, JournalMoves DEF JournalActs

LEMMA WeekMoves ==
    ASSUME Sound, [Next]_vars
    PROVE  /\ week \in Nat /\ week' \in Nat /\ week <= week'
           /\ \/ week' = week
              \/ /\ NextWeek /\ week' = week + 1 /\ poll' = poll /\ disk' = disk
                 /\ journal' = journal /\ event' = event
<1>1. week \in Nat
  BY WeekIsNat DEF Sound, TypeOK
<1>2. UseQuota \/ SampleAges \/ StartPoll \/ CloseDue \/ ReconcileRow \/ ReconcileEnd
        \/ PersistReconciled \/ AcknowledgeNext \/ ExpireAlerts \/ DetectReset
        => week' = week
  BY DEF UseQuota, SampleAges, StartPoll, CloseDue, ReconcileRow, ReconcileEnd,
         PersistReconciled, AcknowledgeNext, ExpireAlerts, DetectReset, service
<1>3. DetectThreshold \/ SaveState \/ CollectDue \/ RecordAnswer \/ FinishPoll \/ Failure
        \/ (\E i \in Items : WaitOver(i))
        \/ (\E i \in Items, answer \in Answers : Send(i, answer)) => week' = week
  BY DEF DetectThreshold, SaveState, CollectDue, RecordAnswer, FinishPoll, WaitOver,
         Send, Failure, SkipItem, RecordFails, GiveUpReconcile, Crash, service
<1>4. UNCHANGED vars => week' = week
  BY DEF vars
<1>5. NextWeek => /\ week' = week + 1 /\ poll' = poll /\ disk' = disk
                  /\ journal' = journal /\ event' = event
  BY DEF NextWeek, stores
<1>6. week' = week \/ NextWeek
  BY <1>2, <1>3, <1>4 DEF Next, Progress
<1> QED BY <1>1, <1>5, <1>6

LEMMA ReachedStep ==
    ASSUME Sound, NotAhead, [Next]_vars
    PROVE  Reached(disk)' /\ Reached(poll.state)'
<1>0. /\ week \in Nat /\ week' \in Nat /\ week <= week' /\ week \in Weeks /\ pct \in 1..Full
      /\ disk \in DetectorStates /\ poll.state \in DetectorStates
  BY WeekMoves, PollType DEF Sound, TypeOK
<1>1. \A d \in DetectorStates : d.arm \in Nat /\ d.seen \in Nat
  BY WeekFacts DEF DetectorStates
<1>2. \A d \in DetectorStates : Reached(d) => d.arm <= week' /\ d.seen <= week'
  BY <1>0, <1>1 DEF Reached
<1>3. disk'.arm <= week' /\ disk'.seen <= week'
  BY <1>0, <1>2, DiskMoves DEF NotAhead
<1>4. poll'.state.arm <= week' /\ poll'.state.seen <= week'
  <2> DEFINE d == poll.state
  <2>0. d \in DetectorStates /\ d.arm <= week /\ d.seen <= week
        /\ d.arm \in Nat /\ d.seen \in Nat
    BY <1>0, <1>1 DEF NotAhead, Reached
  <2>1. CASE poll'.state = FirstState
    BY <1>0, <2>1 DEF FirstState
  <2>2. CASE poll'.state = d
    BY <1>0, <2>0, <2>2
  <2>3. CASE StartPoll /\ poll'.state = Loaded(disk)
    <3>1. disk.arm <= week /\ disk.seen <= week /\ disk.arm \in Nat /\ disk.seen \in Nat
      BY <1>0, <1>1 DEF NotAhead, Reached
    <3>2. poll'.state.arm \in {disk.arm, disk.seen} /\ poll'.state.seen = disk.seen
      BY <1>0, <2>3, LoadedFields
    <3> QED BY <1>0, <3>1, <3>2
  <2>4. CASE \E k \in Unread : poll'.state = IF Outcome(k) THEN Applied(d, k) ELSE d
    <3>1. PICK k \in Unread : poll'.state \in {Applied(d, k), d}
      BY <2>4
    <3>2. k \in Keys /\ k.kind \in {"threshold", "reset"}
      BY KeyFields DEF Unread, Unacknowledged
    <3>3. Applied(d, k).arm \in {d.arm, 0} /\ Applied(d, k).seen = d.seen
      BY <2>0, <3>2, AppliedThreshold, AppliedReset
    <3> QED BY <1>0, <2>0, <3>1, <3>3
  <2>5. CASE poll'.state = ArmNext(RetireDue(Noted(d)))
    <3>1. poll'.state.arm \in {d.arm, week, 0} /\ poll'.state.seen \in {d.seen, week}
      BY <1>0, <2>0, <2>5, DetectedFields
    <3> QED BY <1>0, <2>0, <3>1
  <2>6. CASE poll'.state = Observed(Marked(d))
    <3>1. poll'.state.arm = d.arm /\ poll'.state.seen = week
      BY <1>0, <2>0, <2>6, MarkedFields
    <3> QED BY <1>0, <2>0, <3>1
  <2> QED BY <2>1, <2>2, <2>3, <2>4, <2>5, <2>6, StateMoves
<1> QED BY <1>3, <1>4 DEF Reached

LEMMA NotAheadStep ==
    ASSUME Sound, NotAhead, [Next]_vars
    PROVE  NotAhead'
<1>1. ASSUME NEW k \in Keys, Present(journal'[k])
      PROVE  IF k.kind = "reset" THEN k.epoch < week' ELSE k.epoch <= week'
  <2>0. week \in Nat /\ week' \in Nat /\ week <= week' /\ k.epoch \in Nat
    BY WeekMoves, KeyEpoch
  <2>1. CASE Present(journal[k])
    BY <2>0, <2>1 DEF NotAhead
  <2>2. CASE ~Present(journal[k])
    <3>1. RowOK(journal[k]) /\ RowOK(journal'[k])
      BY JournalStep DEF Sound, JournalOK
    <3>2. ~Terminal(journal[k]) /\ ~Pending(journal[k])
      BY <2>2, <3>1, RowCases
    <3>3. Pending(journal'[k])
      BY <1>1, <3>1, <3>2, NewlyTerminal, RowCases
    <3>4. CASE /\ DetectReset /\ Announces(poll.state)
               /\ k = ResetKey(poll.state.arm)
      <4>1. k.kind = "reset" /\ k.epoch < week
        BY <3>4, DueWeek, PollType DEF Announces, Sound, TypeOK
      <4> QED BY <2>0, <4>1
    <3>5. CASE /\ DetectThreshold /\ Registers(poll.state) /\ Accepted(poll.state)
               /\ k = NewKey
      <4>1. k.kind = "threshold" /\ k.epoch <= week
        BY <3>5, NewKeyFacts DEF NotAhead, Reached, Sound
      <4> QED BY <2>0, <4>1
    <3> QED BY <3>2, <3>3, <3>4, <3>5, NewlyPending
  <2> QED BY <2>1, <2>2
<1> QED BY <1>1, ReachedStep DEF NotAhead


LEMMA NotAheadInit == Init => NotAhead
<1> SUFFICES ASSUME Init PROVE NotAhead
  OBVIOUS
<1>1. \A k \in Keys : ~Present(journal[k])
  BY NoRowFacts DEF Init
<1> QED BY <1>1 DEF Init, Idle, FirstState, NotAhead, Reached

-----------------------------------------------------------------------------
(* What is sent and recorded. *)

LEMMA SendFacts ==
    ASSUME Sound, poll.at = "send", NEW i \in Current
    PROVE  /\ i \in poll.queue /\ i[1] \in Keys /\ i[2] \in Channels
           /\ journal[i[1]].ch[i[2]] = "pending" /\ Pending(journal[i[1]])
           /\ ~Expired(i[1])
<1>2. i \in poll.queue
  BY PollType DEF Current, Sound, PollOK
<1>3. i[1] \in Keys /\ i[2] \in Channels
  BY <1>2, PollType DEF Items, Sound
<1>4. journal[i[1]].ch[i[2]] = "pending" /\ RowOK(journal[i[1]])
  BY <1>2, <1>3 DEF Sound, PollOK, JournalOK
<1>5. Pending(journal[i[1]])
  BY <1>3, <1>4, RowCases
<1>6. ~Expired(i[1])
  BY <1>3, <1>5 DEF Sound, NoneOver, Expires
<1> QED BY <1>2, <1>3, <1>4, <1>5, <1>6

LEMMA SentMoves ==
    ASSUME Sound, [Next]_vars
    PROVE  \/ UNCHANGED sent
           \/ \E i \in Items : Send(i, "delivered") /\ sent' = [sent EXCEPT ![i] = @ + 1]
<1>1. UseQuota \/ NextWeek \/ SampleAges \/ (\E i \in Items : WaitOver(i)) \/ StartPoll
        \/ CloseDue \/ ReconcileRow \/ ReconcileEnd \/ PersistReconciled
        \/ AcknowledgeNext \/ ExpireAlerts => UNCHANGED sent
  BY DEF UseQuota, NextWeek, SampleAges, WaitOver, StartPoll, CloseDue, ReconcileRow,
         ReconcileEnd, PersistReconciled, AcknowledgeNext, ExpireAlerts, history
<1>2. DetectReset \/ DetectThreshold \/ SaveState \/ CollectDue \/ RecordAnswer
        \/ FinishPoll \/ Failure => UNCHANGED sent
  BY DEF DetectReset, DetectThreshold, SaveState, CollectDue, RecordAnswer, FinishPoll,
         Failure, SkipItem, RecordFails, GiveUpReconcile, Crash, history
<1>3. ASSUME NEW i \in Items, NEW answer \in Answers, Send(i, answer)
      PROVE  \/ UNCHANGED sent
             \/ Send(i, "delivered") /\ sent' = [sent EXCEPT ![i] = @ + 1]
  BY <1>3 DEF Send
<1>4. UNCHANGED vars => UNCHANGED sent
  BY DEF vars
<1> QED BY <1>1, <1>2, <1>3, <1>4 DEF Next, Progress

(* Nothing is sent after its time: the rows that are over expire at the start
   of a poll, a row that opens later is of a week that is not, and a poll
   sends what waits of the week it has read. *)
THEOREM WeeklyNeverStale == Spec => NothingStaleIsSent
<1> DEFINE Timely == \A i \in Items :
              sent'[i] > sent[i] => IF i[1].kind = "threshold" THEN i[1].epoch = week
                                    ELSE i[1].epoch + 1 >= week
<1>1. Init => Sound /\ NotAhead
  BY SoundInit, NotAheadInit
<1>2. Sound /\ NotAhead /\ [Next]_vars => (Sound /\ NotAhead)'
  BY SoundStep, NotAheadStep
<1>3. ASSUME Sound, NotAhead, [Next]_vars PROVE Timely
  <2>1. SUFFICES ASSUME NEW i \in Items, sent'[i] > sent[i]
                 PROVE  IF i[1].kind = "threshold" THEN i[1].epoch = week
                        ELSE i[1].epoch + 1 >= week
    OBVIOUS
  <2>2. sent \in [Items -> Nat]
    BY <1>3 DEF Sound, TypeOK
  <2>3. PICK j \in Items : Send(j, "delivered") /\ sent' = [sent EXCEPT ![j] = @ + 1]
    BY <1>3, <2>1, <2>2, SentMoves
  <2>4. i = j
    BY <2>1, <2>2, <2>3
  <2>5. i[1] \in Keys /\ Pending(journal[i[1]]) /\ ~Expired(i[1])
    BY <1>3, <2>3, <2>4, SendFacts DEF Send
  <2>6. Present(journal[i[1]])
    BY <1>3, <2>5, RowCases DEF Sound, JournalOK
  <2>7. /\ i[1].kind # "reset" => i[1].epoch <= week
        /\ i[1].kind \in {"threshold", "reset"} /\ i[1].epoch \in Nat /\ week \in Nat
    BY <1>3, <2>5, <2>6, KeyFields, WeekMoves DEF NotAhead
  <2> QED BY <2>5, <2>7 DEF Expired
<1>4. Sound /\ NotAhead /\ [Next]_vars => [Timely]_vars
  BY <1>3
<1> QED BY <1>1, <1>2, <1>4, PTL DEF Spec, NothingStaleIsSent


LEMMA DeliveredStays ==
    ASSUME Sound, [Next]_vars, ~RecordAnswer, NEW k \in Keys, NEW c \in Channels
    PROVE  journal'[k].ch[c] = "delivered" <=> journal[k].ch[c] = "delivered"
<1> USE DEF Sound
<1>1. CASE CloseDue
  BY <1>1, CloseDueEffect DEF Closes
<1>2. CASE ExpireAlerts
  BY <1>2, ExpireEffect DEF Closes
<1>3. ASSUME NEW n, NEW S, NEW reason, Opens(journal, journal', n, S, reason)
      PROVE  journal'[k].ch[c] = "delivered" <=> journal[k].ch[c] = "delivered"
  <2>1. CASE k = n
    <3>1. journal'[k] = NewRow(Channels) /\ ~Present(journal[k]) /\ RowOK(journal[k])
      BY <1>3, <2>1, OpensFacts DEF JournalOK
    <3>2. journal[k] = NoRow
      BY <3>1, RowCases
    <3>3. journal'[k].ch[c] = "pending" /\ journal[k].ch[c] = "none"
      BY <3>1, <3>2, NewRowOK, NoRowFacts
    <3> QED BY <3>3
  <2>2. CASE k # n
    BY <1>3, <2>2, OpensFacts
  <2> QED BY <2>1, <2>2
<1>4. CASE DetectReset
  BY <1>3, <1>4, DetectResetEffect
<1>5. CASE DetectThreshold
  BY <1>3, <1>5, DetectThresholdEffect
<1>6. CASE AcknowledgeNext
  <2>1. PICK m \in poll.acks : journal' = [journal EXCEPT ![m].acked = TRUE]
    BY <1>6 DEF AcknowledgeNext
  <2>2. \A n \in poll.acks : Terminal(journal[n])
    BY DEF PollOK
  <2>3. journal'[k].ch = journal[k].ch
    BY <2>1, <2>2, AcknowledgeEffect
  <2> QED BY <2>3
<1>7. CASE UNCHANGED journal
  BY <1>7
<1> QED BY <1>1, <1>2, <1>4, <1>5, <1>6, <1>7, JournalMoves DEF JournalActs

(* The message whose answer is not yet in the journal. *)
InFlight(i) == poll.at = "record" /\ poll.item = i /\ poll.answer = "delivered"

Recorded(i) == journal[i[1]].ch[i[2]] = "delivered"

LEMMA LostMoves ==
    ASSUME Sound, [Next]_vars
    PROVE  \/ UNCHANGED lost
           \/ RecordFails \/ Crash
<1>1. UseQuota \/ NextWeek \/ SampleAges \/ (\E i \in Items : WaitOver(i)) \/ StartPoll
        \/ CloseDue \/ ReconcileRow \/ ReconcileEnd \/ PersistReconciled
        \/ AcknowledgeNext \/ ExpireAlerts => UNCHANGED lost
  BY DEF UseQuota, NextWeek, SampleAges, WaitOver, StartPoll, CloseDue, ReconcileRow,
         ReconcileEnd, PersistReconciled, AcknowledgeNext, ExpireAlerts, history
<1>2. DetectReset \/ DetectThreshold \/ SaveState \/ CollectDue \/ RecordAnswer
        \/ FinishPoll \/ SkipItem \/ GiveUpReconcile
        \/ (\E i \in Items, answer \in Answers : Send(i, answer)) => UNCHANGED lost
  BY DEF DetectReset, DetectThreshold, SaveState, CollectDue, RecordAnswer, FinishPoll,
         SkipItem, GiveUpReconcile, Send, history
<1>3. UNCHANGED vars => UNCHANGED lost
  BY DEF vars
<1> QED BY <1>1, <1>2, <1>3 DEF Next, Progress, Failure

(* Besides an answer's arrival and its record or loss nothing is in flight. *)
LEMMA FlightMoves ==
    ASSUME Sound, [Next]_vars, ~RecordAnswer, ~RecordFails, ~Crash, NEW i \in Items
    PROVE  \/ InFlight(i)' <=> InFlight(i)
           \/ \E j \in Items, answer \in Answers : Send(j, answer)
<1>0. poll \in PollStates /\ TypeOK
  BY DEF Sound, TypeOK
<1>1. CASE poll' = poll
  BY <1>1 DEF InFlight
<1>2. CASE poll.at # "record" /\ poll'.at # "record"
  BY <1>2 DEF InFlight
<1>3. UseQuota \/ NextWeek \/ SampleAges \/ (\E j \in Items : WaitOver(j))
        \/ UNCHANGED vars => poll' = poll
  BY DEF UseQuota, NextWeek, SampleAges, WaitOver, vars
<1>4. StartPoll \/ FinishPoll => poll.at # "record" /\ poll'.at # "record"
  <2>1. StartPoll => poll.at = "idle" /\ poll' = [Idle EXCEPT !.at = "close", !.state = Loaded(disk)]
    BY DEF StartPoll
  <2>2. FinishPoll => poll.at = "finish" /\ poll' = Idle
    BY DEF FinishPoll
  <2>3. StartPoll => poll'.at = "close"
    <3>1. [Idle EXCEPT !.at = "close", !.state = Loaded(disk)].at = "close"
      BY DEF Idle
    <3> QED BY <2>1, <3>1
  <2>4. FinishPoll => poll'.at = "idle"
    BY <2>2 DEF Idle
  <2> QED BY <2>1, <2>2, <2>3, <2>4
<1>5. CloseDue \/ ReconcileRow \/ PersistReconciled \/ ExpireAlerts \/ DetectReset
        \/ DetectThreshold \/ SaveState \/ CollectDue
        => poll.at # "record" /\ poll'.at # "record"
  BY <1>0 DEF CloseDue, ReconcileRow, PersistReconciled, ExpireAlerts, DetectReset,
              DetectThreshold, SaveState, CollectDue, PollStates
<1>6. ReconcileEnd \/ AcknowledgeNext \/ GiveUpReconcile
        => poll.at # "record" /\ poll'.at # "record"
  BY <1>0 DEF ReconcileEnd, AcknowledgeNext, GiveUpReconcile, PollStates, Sound,
              PollOK, Reconciling
<1>7. SkipItem => poll.at # "record" /\ poll'.at # "record"
  BY <1>0, ProceedFacts DEF SkipItem
<1> QED BY <1>1, <1>2, <1>3, <1>4, <1>5, <1>6, <1>7 DEF Next, Progress, Failure

LEMMA AccountStep ==
    ASSUME Sound, [Next]_vars, DeliveryAccounted
    PROVE  DeliveryAccounted'
<1> DEFINE Count(b) == IF b THEN 1 ELSE 0
<1>0. SUFFICES ASSUME NEW i \in Items
      PROVE  sent'[i] = lost'[i] + Count(Recorded(i)') + Count(InFlight(i)')
  BY DEF DeliveryAccounted, Recorded, InFlight
<1>1. /\ sent[i] = lost[i] + Count(Recorded(i)) + Count(InFlight(i))
      /\ sent[i] \in Nat /\ lost[i] \in Nat
      /\ i[1] \in Keys /\ i[2] \in Channels
      /\ sent \in [Items -> Nat] /\ lost \in [Items -> Nat] /\ poll \in PollStates
  BY DEF DeliveryAccounted, Recorded, InFlight, Sound, TypeOK, Items
<1>2. CASE RecordAnswer
  <2>1. /\ poll.at = "record" /\ poll.item \in Items /\ UNCHANGED <<sent, lost>>
        /\ poll.item[1] \in Keys /\ poll.item[2] \in Channels
        /\ ~Recorded(poll.item)
        /\ journal'[poll.item[1]].ch = [journal[poll.item[1]].ch EXCEPT
                ![poll.item[2]] = ChannelOutcome(poll.answer)]
        /\ \A m \in Keys \ {poll.item[1]} : journal'[m] = journal[m]
        /\ journal[poll.item[1]] \in Rows
    BY <1>2, RecordEffect, PollType DEF RecordAnswer, Sound, history, Recorded, Items, TypeOK
  <2>2. poll'.at # "record"
    BY <1>1, <1>2, <2>1, ProceedFacts DEF RecordAnswer, PollStates, Sound
  <2>3. ~InFlight(i)'
    BY <2>2 DEF InFlight
  <2>4. CASE i = poll.item
    <3>1. Recorded(i)' <=> ChannelOutcome(poll.answer) = "delivered"
      BY <2>1, <2>4 DEF Recorded, Rows
    <3>2. Recorded(i)' <=> InFlight(i)
      BY <2>1, <2>4, <3>1 DEF ChannelOutcome, InFlight
    <3> QED BY <1>1, <2>1, <2>3, <2>4, <3>2
  <2>5. CASE i # poll.item
    <3>1. ~InFlight(i)
      BY <2>5 DEF InFlight
    <3>2. i[1] # poll.item[1] \/ i[2] # poll.item[2]
      BY <2>1, <2>5 DEF Items
    <3>3. Recorded(i)' <=> Recorded(i)
      BY <1>1, <2>1, <3>2 DEF Recorded, Rows
    <3> QED BY <1>1, <2>1, <2>3, <3>1, <3>3
  <2> QED BY <2>4, <2>5
<1>3. CASE RecordFails \/ Crash
  <2>1. /\ lost' = Forgotten /\ UNCHANGED sent /\ journal' = journal
    BY <1>3 DEF RecordFails, Crash, stores
  <2>2. poll'.at # "record"
    BY <1>3, ProceedFacts DEF RecordFails, Crash, Idle, Sound
  <2>3. (Recorded(i)' <=> Recorded(i)) /\ ~InFlight(i)'
    BY <2>1, <2>2 DEF Recorded, InFlight
  <2>4. lost'[i] = lost[i] + Count(InFlight(i))
    BY <1>1, <2>1 DEF Forgotten, InFlight
  <2> QED BY <1>1, <2>1, <2>3, <2>4
<1>4. ASSUME NEW j \in Items, NEW answer \in Answers, Send(j, answer)
      PROVE  sent'[i] = lost'[i] + Count(Recorded(i)') + Count(InFlight(i)')
  <2>1. /\ poll.at = "send" /\ UNCHANGED lost /\ journal' = journal
        /\ poll'.at = "record" /\ poll'.item = j /\ poll'.answer = answer
        /\ sent' = IF answer = "delivered" THEN [sent EXCEPT ![j] = @ + 1] ELSE sent
    BY <1>1, <1>4 DEF Send, stores, PollStates
  <2>2. (Recorded(i)' <=> Recorded(i)) /\ ~InFlight(i)
    BY <2>1 DEF Recorded, InFlight
  <2>3. InFlight(i)' <=> i = j /\ answer = "delivered"
    BY <2>1 DEF InFlight
  <2>4. sent'[i] = sent[i] + Count(InFlight(i)')
    BY <1>1, <2>1, <2>3
  <2> QED BY <1>1, <2>1, <2>2, <2>4
<1>5. CASE /\ ~RecordAnswer /\ ~RecordFails /\ ~Crash
           /\ ~ \E j \in Items, answer \in Answers : Send(j, answer)
  <2>1. UNCHANGED sent /\ UNCHANGED lost
    BY <1>5, SentMoves, LostMoves DEF Answers
  <2>2. Recorded(i)' <=> Recorded(i)
    BY <1>1, <1>5, DeliveredStays DEF Recorded
  <2>3. InFlight(i)' <=> InFlight(i)
    BY <1>5, FlightMoves
  <2> QED BY <1>1, <2>1, <2>2, <2>3
<1> QED BY <1>2, <1>3, <1>4, <1>5

(* A success is recorded, about to be recorded, or followed by a fault: no
   interleaving of attempts, failed writes and crashes forgets one, records
   one that was not received, or repeats one without a fault to pay for it. *)
THEOREM WeeklyAccounted == Spec => []DeliveryAccounted
<1>1. Init => Sound /\ DeliveryAccounted
  <2>1. Init => \A i \in Items : i[1] \in Keys /\ i[2] \in Channels
                   /\ sent[i] = 0 /\ lost[i] = 0 /\ journal[i[1]] = NoRow
                   /\ poll.at = "idle"
    BY DEF Init, Items, Idle
  <2>2. Init => DeliveryAccounted
    BY <2>1, NoRowFacts DEF DeliveryAccounted
  <2> QED BY <2>2, SoundInit
<1>2. Sound /\ DeliveryAccounted /\ [Next]_vars => (Sound /\ DeliveryAccounted)'
  BY SoundStep, AccountStep
<1> QED BY <1>1, <1>2, PTL DEF Spec

-----------------------------------------------------------------------------
(* The state file and the journal tell one story.

   The inductive invariant relates each copy of the detector state (the file,
   and the memory of the running poll) to the rows of the journal; says in
   which order rows wait, are told and are acknowledged; and what the two
   copies have in common at each point of a poll.  Its parts are operators of
   a state s, the rows j and their data e, the week w and the remaining
   percentage p, so that one lemma serves for both copies and for the state
   before and after a step. *)

Threshold(k) == k.kind = "threshold"
Reset(k)     == k.kind = "reset"

ToldRow(r)   == r.reason \in {"delivered", "permanent_failure"}
Unsettled(r) == ToldRow(r) /\ ~r.acked
Live(r)      == Pending(r) \/ Unsettled(r)

-----------------------------------------------------------------------------
(* A state and the journal. *)

(* Without an arm there is nothing to remember. *)
Blank(s) == s.arm = 0 => s.notified = {} /\ s.pending = NoThreshold /\ s.prev = Full

(* What lies at or above the level was notified. *)
LevelKnown(s) == \A t \in Thresholds : s.prev <= Percent[t] => t \in s.notified

(* What was notified was told. *)
NotifiedTold(s, j, e) ==
    \A t \in s.notified : \E k \in Keys :
        Threshold(k) /\ k.epoch = s.arm /\ ToldRow(j[k]) /\ t \in e[k].covered

(* The pending threshold of this week is crossed and new. *)
PendingCrossed(s, w, p) ==
    s.arm = w /\ s.pending # NoThreshold =>
        p <= Percent[s.pending] /\ Percent[s.pending] < s.prev

(* No week is armed again once its reset is there. *)
ResetsArmed(s, j) ==
    \A k \in Keys : Reset(k) /\ Present(j[k]) => s.arm = 0 \/ s.arm >= k.epoch

(* What was told belongs to the armed week, or was seen to be over. *)
ToldSeen(s, j) ==
    \A k \in Keys : ToldRow(j[k]) => (Threshold(k) /\ s.arm = k.epoch) \/ s.seen > k.epoch

(* A result that the state waits for is the one it has pending. *)
UnsettledArmed(s, j) ==
    \A k \in Keys : Threshold(k) /\ Unsettled(j[k]) =>
        s.arm = k.epoch /\ s.pending \in {NoThreshold, k.selector}

(* A row that waits covers all that it has seen crossed and is not notified. *)
LiveCovers(s, j, e) ==
    \A k \in Keys : Threshold(k) /\ Live(j[k]) =>
        \A t \in Thresholds : e[k].remaining <= Percent[t] =>
            t \in e[k].covered \/ (s.arm = k.epoch /\ t \in s.notified)

(* ... and nothing that is notified. *)
WaitsBelow(s, j, e, w) ==
    \A k \in Keys : Threshold(k) /\ Pending(j[k]) /\ k.epoch = w /\ s.arm \in {0, w} =>
        \A t \in e[k].covered : Percent[t] < s.prev /\ t \notin s.notified

Agrees(s, j, e, w, p) ==
    /\ Blank(s) /\ LevelKnown(s) /\ NotifiedTold(s, j, e) /\ PendingCrossed(s, w, p)
    /\ ResetsArmed(s, j) /\ ToldSeen(s, j) /\ UnsettledArmed(s, j)
    /\ LiveCovers(s, j, e) /\ WaitsBelow(s, j, e, w)

(* The result k is in the state. *)
RowApplied(s, e, w, k) ==
    IF Threshold(k)
    THEN /\ s.arm = k.epoch => e[k].covered \subseteq s.notified
         /\ k.epoch = w => \A t \in e[k].covered : s.prev <= Percent[t]
    ELSE s.arm # k.epoch /\ s.last >= k.epoch

(* The acknowledged results, and those of the set, are in the state. *)
Counted(s, j, e, w, S) ==
    \A k \in Keys : ToldRow(j[k]) /\ (j[k].acked \/ k \in S) => RowApplied(s, e, w, k)

-----------------------------------------------------------------------------
(* The rows among themselves. *)

EventsOK(j, e, w, p) ==
    \A k \in Keys : Threshold(k) /\ Present(j[k]) =>
        /\ k.selector \in e[k].covered
        /\ \A t \in e[k].covered : Percent[k.selector] <= Percent[t]
        /\ e[k].remaining <= Percent[k.selector]
        /\ k.epoch = w => p <= e[k].remaining

(* A reset is the last word of its week. *)
ResetLast(j) ==
    \A m, k \in Keys : Reset(m) /\ Present(j[m]) /\ k # m /\ k.epoch <= m.epoch =>
        ~Live(j[k])

(* Of the thresholds of a week one row waits, the latest. *)
OneWaits(j, e) ==
    \A k, m \in Keys :
        /\ Threshold(k) /\ Threshold(m) /\ k # m /\ k.epoch = m.epoch
        /\ Present(j[k]) /\ Live(j[m])
        => ~Live(j[k]) /\ e[m].remaining <= e[k].remaining

RecentOK == recent # 0 => recent + 1 >= week /\ disk.seen >= recent

-----------------------------------------------------------------------------
(* The points of a poll. *)

NoneWaits(j) == \A k \in Keys : Threshold(k) => ~Pending(j[k])

Running == poll.at # "idle"

(* The state is the one read from the file. *)
Fresh == \/ poll.at \in {"close", "expire", "detect", "acknowledge"}
         \/ poll.at = "reconcile" /\ poll.acks = {}

Delivering == poll.at \in {"due", "send", "record"}

(* Before the detection, which retires the week that is due. *)
Closing == \/ poll.at \in {"expire", "detect"}
           \/ poll.at \in Reconciling /\ poll.then \in {"expire", "detect"}

Saved == (poll.at = "save" /\ ~poll.failed) \/ Delivering

SeenNow == \/ poll.at \in {"save", "finish"} \/ Delivering
           \/ poll.at \in Reconciling /\ poll.then = "finish"

CopiesOK ==
    /\ Running => poll.state.seen >= disk.seen
    /\ Fresh => poll.state \in {disk, Loaded(disk)}
    /\ Delivering => poll.state = disk
    /\ SeenNow => poll.state.seen = week

ThresholdOK ==
    poll.at = "threshold" =>
        /\ disk.arm = week => poll.state = disk
        /\ poll.state.notified # {} =>
              poll.state.notified = disk.notified /\ poll.state.arm = disk.arm
        /\ poll.state.arm = 0 => pct = Full
        /\ poll.due => Due(poll.state) \/ poll.state.pending = NoThreshold

SettledOK ==
    /\ poll.at \in {"detect", "threshold", "save", "due"} =>
          \A k \in Keys : ~Unsettled(journal[k])
    /\ poll.at \in {"persist", "acknowledge"} => Unacknowledged \subseteq poll.acks

WaitingOK ==
    /\ Closing /\ Due(poll.state) => NoneWaits(journal)
    /\ poll.at \in {"threshold", "save"} \/ Delivering =>
          NoneWaits(journal) \/ poll.state.arm = week
    /\ Saved => \A k \in Keys : Threshold(k) /\ Pending(journal[k]) =>
                   poll.state.pending = k.selector

(* Every threshold crossed is notified or covered by a row that waits. *)
KnownOK ==
    (poll.at = "save" /\ ~poll.failed) \/ poll.at = "due" =>
        \A t \in Thresholds : pct <= Percent[t] =>
            \/ t \in poll.state.notified
            \/ Due(poll.state)
            \/ \E k \in Keys : /\ Threshold(k) /\ k.epoch = poll.state.arm
                               /\ Pending(journal[k]) /\ t \in event[k].covered

AppliedOK ==
    /\ Counted(disk, journal, event, week, {})
    /\ Running => Counted(poll.state, journal, event, week, poll.acks)
    /\ poll.at = "acknowledge" => Counted(disk, journal, event, week, poll.acks)

Agreement ==
    /\ Sound /\ NotAhead /\ RecentOK
    /\ EventsOK(journal, event, week, pct)
    /\ ResetLast(journal) /\ OneWaits(journal, event)
    /\ Agrees(disk, journal, event, week, pct)
    /\ Running => Agrees(poll.state, journal, event, week, pct)
    /\ CopiesOK /\ ThresholdOK /\ SettledOK /\ WaitingOK /\ KnownOK /\ AppliedOK

-----------------------------------------------------------------------------
(* What a step does to a row. *)

OpensReset(k) == /\ DetectReset /\ Announces(poll.state)
                 /\ k = ResetKey(poll.state.arm) /\ ~Present(journal[k])

(* A threshold is registered, and the others of its week no longer wait. *)
Registered ==
    /\ DetectThreshold /\ Registers(poll.state) /\ Accepted(poll.state)
    /\ NewKey \in Keys /\ Threshold(NewKey)
    /\ NewKey.selector = Critical(poll.state) /\ NewKey.epoch = poll.state.arm
    /\ event'[NewKey] = [covered |-> Covered(poll.state), remaining |-> pct]
    /\ \A m \in Keys \ {NewKey} : event'[m] = event[m]
    /\ Pending(journal'[NewKey]) /\ ~Present(journal[NewKey])
    /\ \A m \in Keys \ {NewKey} :
          Threshold(m) /\ m.epoch = NewKey.epoch => ~Pending(journal'[m])

OpensThreshold(k) == Registered /\ k = NewKey

AnswersRow(k) == RecordAnswer /\ poll.item \in poll.queue /\ k = poll.item[1]

LEMMA RegisterCases ==
    ASSUME Sound, DetectThreshold
    PROVE  \/ UNCHANGED <<journal, event>>
           \/ Registered /\ journal' # journal
<1> DEFINE S == {m \in Keys : /\ m.kind = "threshold" /\ Pending(journal[m])
                              /\ m.epoch = NewKey.epoch}
<1>1. CASE ~UNCHANGED <<journal, event>>
  <2>1. /\ Registers(poll.state) /\ Accepted(poll.state)
        /\ event' = [event EXCEPT ![NewKey] =
                        [covered |-> Covered(poll.state), remaining |-> pct]]
        /\ Opens(journal, journal', NewKey, S, "superseded")
    BY <1>1, DetectThresholdEffect DEF Sound
  <2>2. /\ NewKey \in Keys /\ NewKey.kind = "threshold"
        /\ NewKey.selector = Critical(poll.state) /\ NewKey.epoch = poll.state.arm
        /\ ~Present(journal[NewKey])
    BY <2>1, NewKeyFacts DEF Sound
  <2>3. /\ event'[NewKey] = [covered |-> Covered(poll.state), remaining |-> pct]
        /\ \A m \in Keys \ {NewKey} : event'[m] = event[m]
    BY <2>1, <2>2 DEF Sound, TypeOK
  <2>4. /\ journal'[NewKey] = NewRow(Channels)
        /\ \A m \in S : ~Pending(journal'[m])
        /\ \A m \in Keys : m # NewKey /\ m \notin S => journal'[m] = journal[m]
    BY <2>1, OpensFacts DEF Sound
  <2>5. Pending(journal'[NewKey]) /\ RowOK(journal[NewKey])
    BY <2>2, <2>4, NewRowOK DEF Sound, JournalOK
  <2>6. journal' # journal
    BY <2>2, <2>5, RowCases
  <2>7. \A m \in Keys \ {NewKey} :
           Threshold(m) /\ m.epoch = NewKey.epoch => ~Pending(journal'[m])
    BY <2>4 DEF Threshold
  <2> HIDE DEF S
  <2> QED BY <2>1, <2>2, <2>3, <2>5, <2>6, <2>7 DEF Registered, Threshold
<1> QED BY <1>1

LEMMA EventMoves ==
    ASSUME Sound, [Next]_vars, NEW k \in Keys, Present(journal[k])
    PROVE  event'[k] = event[k]
<1>1. UseQuota \/ NextWeek \/ SampleAges \/ (\E i \in Items : WaitOver(i)) \/ StartPoll
        \/ CloseDue \/ ReconcileRow \/ ReconcileEnd \/ PersistReconciled
        \/ AcknowledgeNext \/ ExpireAlerts \/ DetectReset => event' = event
  BY DEF UseQuota, NextWeek, SampleAges, WaitOver, StartPoll, CloseDue, ReconcileRow,
         ReconcileEnd, PersistReconciled, AcknowledgeNext, ExpireAlerts, DetectReset, stores
<1>2. SaveState \/ CollectDue \/ RecordAnswer \/ FinishPoll \/ Failure
        \/ (\E i \in Items, answer \in Answers : Send(i, answer)) => event' = event
  BY DEF SaveState, CollectDue, RecordAnswer, FinishPoll, Send, Failure, SkipItem,
         RecordFails, GiveUpReconcile, Crash, stores
<1>3. CASE DetectThreshold
  <2>1. CASE event' = event
    BY <2>1
  <2>2. CASE /\ Registers(poll.state) /\ Accepted(poll.state)
             /\ event' = [event EXCEPT ![NewKey] =
                             [covered |-> Covered(poll.state), remaining |-> pct]]
    <3>1. NewKey # k
      BY <2>2, NewKeyFacts DEF Sound
    <3>2. event \in [Keys -> EventData]
      BY DEF Sound, TypeOK
    <3> QED BY <2>2, <3>1, <3>2
  <2> QED BY <1>3, <2>1, <2>2, DetectThresholdEffect DEF Sound
<1>4. UNCHANGED vars => event' = event
  BY DEF vars
<1> QED BY <1>1, <1>2, <1>3, <1>4 DEF Next, Progress

LEMMA RowFacts ==
    ASSUME Sound, NEW k \in Keys
    PROVE  /\ Pending(journal[k]) => /\ Present(journal[k]) /\ ~ToldRow(journal[k])
                                     /\ ~Terminal(journal[k]) /\ ~journal[k].acked
           /\ ToldRow(journal[k]) => /\ Terminal(journal[k]) /\ Present(journal[k])
                                     /\ ~Pending(journal[k])
           /\ Live(journal[k]) => Present(journal[k])
           /\ Told(k) <=> ToldRow(journal[k])
<1>1. RowOK(journal[k])
  BY DEF Sound, JournalOK
<1> QED BY <1>1, RowCases DEF ToldRow, Told, Live, Unsettled

LEMMA RowMoves ==
    ASSUME Sound, [Next]_vars, NEW k \in Keys
    PROVE  /\ Present(journal[k]) => Present(journal'[k]) /\ event'[k] = event[k]
           /\ Present(journal'[k]) => Present(journal[k]) \/ OpensReset(k) \/ OpensThreshold(k)
           /\ Pending(journal'[k]) => Pending(journal[k]) \/ OpensReset(k) \/ OpensThreshold(k)
           /\ ToldRow(journal[k]) => /\ ToldRow(journal'[k])
                                     /\ journal[k].acked => journal'[k].acked
           /\ ToldRow(journal'[k]) =>
                 ToldRow(journal[k]) \/ (AnswersRow(k) /\ Pending(journal[k]))
           /\ Unsettled(journal'[k]) =>
                 Unsettled(journal[k]) \/ (AnswersRow(k) /\ Pending(journal[k]))
           /\ ToldRow(journal'[k]) /\ journal'[k].acked /\ ~journal[k].acked =>
                 AcknowledgeNext /\ k \in poll.acks
<1>1. Sound'
  BY SoundStep
<1>2. /\ RowOK(journal[k]) /\ RowOK(journal'[k])
  BY <1>1 DEF Sound, JournalOK
<1>3. Present(journal[k]) => Present(journal'[k])
  BY PresentStays
<1>4. Present(journal[k]) => event'[k] = event[k]
  BY EventMoves
<1>5. Pending(journal'[k]) => Pending(journal[k]) \/ OpensReset(k) \/ OpensThreshold(k)
  <2>1. SUFFICES ASSUME Pending(journal'[k]), ~Pending(journal[k])
                 PROVE  OpensReset(k) \/ OpensThreshold(k)
    OBVIOUS
  <2>2. ~Terminal(journal[k])
    <3>1. Terminal(journal[k]) => Terminal(journal'[k])
      BY TerminalStays
    <3> QED BY <1>2, <2>1, <3>1, RowCases
  <2>3. ~Present(journal[k]) /\ journal' # journal
    BY <1>2, <2>1, <2>2, RowCases
  <2>4. CASE /\ DetectReset /\ Announces(poll.state)
             /\ k = ResetKey(poll.state.arm)
    BY <2>3, <2>4 DEF OpensReset
  <2>5. CASE DetectThreshold /\ k = NewKey
    BY <2>3, <2>5, RegisterCases DEF OpensThreshold
  <2> QED BY <2>1, <2>4, <2>5, NewlyPending
<1>6. Present(journal'[k]) => Present(journal[k]) \/ OpensReset(k) \/ OpensThreshold(k)
  <2>1. CASE Terminal(journal'[k])
    BY <1>2, <2>1, NewlyTerminal, RowCases
  <2>2. CASE Pending(journal'[k])
    BY <1>2, <1>5, <2>2, RowCases
  <2> QED BY <1>2, <2>1, <2>2, RowCases
<1>7. ToldRow(journal[k]) => /\ ToldRow(journal'[k])
                             /\ journal[k].acked => journal'[k].acked
  BY TerminalStays, RowFacts DEF ToldRow
<1>8. ToldRow(journal'[k]) /\ ~ToldRow(journal[k]) =>
         /\ AnswersRow(k) /\ Pending(journal[k]) /\ ~journal'[k].acked
  <2>1. SUFFICES ASSUME ToldRow(journal'[k]), ~ToldRow(journal[k])
                 PROVE  AnswersRow(k) /\ Pending(journal[k]) /\ ~journal'[k].acked
    OBVIOUS
  <2>2. Terminal(journal'[k])
    BY <1>2, <2>1, RowCases DEF ToldRow
  <2>3. ~Terminal(journal[k])
    <3>1. Terminal(journal[k]) => journal'[k].reason = journal[k].reason
      BY TerminalStays
    <3> QED BY <2>1, <3>1 DEF ToldRow
  <2> QED BY <2>1, <2>2, <2>3, NewlyTerminal DEF ToldRow, Closed, AnswersRow
<1>9. ToldRow(journal[k]) /\ journal'[k].acked /\ ~journal[k].acked =>
         AcknowledgeNext /\ k \in poll.acks
  BY TerminalStays, RowFacts
<1> QED BY <1>3, <1>4, <1>5, <1>6, <1>7, <1>8, <1>9 DEF Unsettled


-----------------------------------------------------------------------------
(* Types, spelled out. *)

LEMMA KeyKinds ==
    ASSUME NEW k \in Keys
    PROVE  /\ Threshold(k) \/ Reset(k)
           /\ ~(Threshold(k) /\ Reset(k))
           /\ k.epoch \in Nat /\ k.epoch # 0
           /\ Threshold(k) => k.selector \in Thresholds
<1>1. /\ k.kind \in {"threshold", "reset"} /\ k.epoch \in Nat /\ k.epoch # 0
      /\ k.kind = "threshold" => k.selector \in Thresholds
  BY KeyFields, Zenon
<1> QED BY <1>1 DEF Threshold, Reset

LEMMA StateFacts ==
    ASSUME NEW d \in DetectorStates
    PROVE  /\ d.arm \in Nat /\ d.last \in Nat /\ d.seen \in Nat /\ d.arm \in 0..MaxWeek
           /\ d.prev \in Nat /\ d.prev <= Full
           /\ d.notified \subseteq Thresholds
           /\ d.pending \in Thresholds \cup {NoThreshold}
BY WeekFacts, PercentFacts DEF DetectorStates

LEMMA WorldFacts ==
    ASSUME Sound
    PROVE  /\ week \in Nat /\ 1 <= week /\ pct \in Nat /\ 1 <= pct /\ pct <= Full
           /\ week \in Weeks /\ pct \in 1..Full /\ recent \in Nat /\ recent <= week
           /\ disk \in DetectorStates /\ poll.state \in DetectorStates
           /\ poll.acks \subseteq Keys
           /\ \A k \in Keys : /\ event[k].covered \subseteq Thresholds
                              /\ event[k].remaining \in Nat
<1>1. /\ week \in Weeks /\ pct \in 1..Full /\ recent \in 0..week
      /\ event \in [Keys -> EventData] /\ disk \in DetectorStates
      /\ poll.state \in DetectorStates /\ poll.acks \subseteq Keys
  BY PollType DEF Sound, TypeOK
<1>2. \A k \in Keys : event[k].covered \subseteq Thresholds /\ event[k].remaining \in Nat
  <2> TAKE k \in Keys
  <2>1. event[k] \in EventData
    BY <1>1
  <2> QED BY <2>1, PercentFacts DEF EventData
<1>3. week \in Nat /\ 1 <= week
  BY <1>1, WeekIsNat
<1>4. recent \in Nat /\ recent <= week /\ pct \in Nat /\ 1 <= pct /\ pct <= Full
  BY <1>1, <1>3, PercentFacts
<1> QED BY <1>1, <1>2, <1>3, <1>4

(* Where the service moves nothing else does. *)
LEMMA ServiceMoves ==
    ASSUME Sound, [Next]_vars
    PROVE  \/ week' = week /\ pct' = pct
           \/ /\ UseQuota \/ NextWeek
              /\ poll' = poll /\ disk' = disk /\ journal' = journal /\ event' = event
              /\ poll.at = "idle"
              /\ \/ week' = week /\ pct' <= pct
                 \/ week' = week + 1 /\ pct' = Full
<1>1. /\ week \in Nat /\ pct \in 1..Full
  BY WorldFacts
<1>2. SampleAges \/ StartPoll \/ CloseDue \/ ReconcileRow \/ ReconcileEnd
        \/ PersistReconciled \/ AcknowledgeNext \/ ExpireAlerts \/ DetectReset
        => week' = week /\ pct' = pct
  BY DEF SampleAges, StartPoll, CloseDue, ReconcileRow, ReconcileEnd,
         PersistReconciled, AcknowledgeNext, ExpireAlerts, DetectReset, service
<1>3. DetectThreshold \/ SaveState \/ CollectDue \/ RecordAnswer \/ FinishPoll \/ Failure
        \/ (\E i \in Items : WaitOver(i))
        \/ (\E i \in Items, answer \in Answers : Send(i, answer))
        => week' = week /\ pct' = pct
  BY DEF DetectThreshold, SaveState, CollectDue, RecordAnswer, FinishPoll, WaitOver,
         Send, Failure, SkipItem, RecordFails, GiveUpReconcile, Crash, service
<1>4. UNCHANGED vars => week' = week /\ pct' = pct
  BY DEF vars
<1>5. CASE UseQuota
  <2>1. /\ poll' = poll /\ disk' = disk /\ journal' = journal /\ event' = event
        /\ poll.at = "idle" /\ week' = week /\ pct' \in 1..(pct - 1)
    BY <1>5 DEF UseQuota, stores
  <2>2. pct' <= pct
    BY <1>1, <2>1, PercentFacts
  <2> QED BY <1>5, <2>1, <2>2
<1>6. CASE NextWeek
  BY <1>6 DEF NextWeek, stores
<1> QED BY <1>2, <1>3, <1>4, <1>5, <1>6 DEF Next, Progress

-----------------------------------------------------------------------------
(* The rows among themselves. *)

(* What a threshold step may register is crossed and new. *)
LEMMA CriticalCrossed ==
    ASSUME NEW d \in DetectorStates, PendingCrossed(d, week, pct), d.arm = week,
           Candidates(d) # {}
    PROVE  /\ Critical(d) \in Thresholds
           /\ pct <= Percent[Critical(d)] /\ Percent[Critical(d)] < d.prev
           /\ Critical(d) \in Covered(d)
           /\ \A t \in Candidates(d) : Percent[Critical(d)] <= Percent[t]
           /\ \A t \in Covered(d) : /\ Percent[Critical(d)] <= Percent[t]
                                    /\ Percent[t] < d.prev
<1>1. /\ Critical(d) \in Candidates(d) /\ Critical(d) \in Thresholds
      /\ \A t \in Candidates(d) : Percent[Critical(d)] <= Percent[t]
  BY CriticalFacts
<1>2. pct <= Percent[Critical(d)] /\ Percent[Critical(d)] < d.prev
  BY <1>1 DEF Candidates, Crossed, PendingCrossed
<1>3. Percent[Critical(d)] \in Nat
  BY <1>1, PercentFacts
<1>4. Critical(d) \in Covered(d)
  BY <1>1, <1>2, <1>3 DEF Covered
<1> QED BY <1>1, <1>2, <1>4 DEF Covered

LEMMA EventsStep ==
    ASSUME Sound, NotAhead, [Next]_vars, EventsOK(journal, event, week, pct),
           Running => PendingCrossed(poll.state, week, pct)
    PROVE  EventsOK(journal, event, week, pct)'
<1>0. /\ week \in Nat /\ pct \in Nat
  BY WorldFacts
<1>1. SUFFICES ASSUME NEW k \in Keys, Threshold(k), Present(journal'[k])
      PROVE  /\ k.selector \in event'[k].covered
             /\ \A t \in event'[k].covered : Percent[k.selector] <= Percent[t]
             /\ event'[k].remaining <= Percent[k.selector]
             /\ k.epoch = week' => pct' <= event'[k].remaining
  BY DEF EventsOK
<1>2. CASE Present(journal[k])
  <2>1. event'[k] = event[k] /\ k.epoch <= week /\ k.epoch \in Nat
    BY <1>1, <1>2, RowMoves, KeyEpoch DEF NotAhead, Threshold
  <2>2. /\ k.selector \in event[k].covered
        /\ \A t \in event[k].covered : Percent[k.selector] <= Percent[t]
        /\ event[k].remaining <= Percent[k.selector] /\ event[k].remaining \in Nat
        /\ k.epoch = week => pct <= event[k].remaining
    BY <1>1, <1>2, WorldFacts DEF EventsOK
  <2>3. k.epoch = week' => pct' <= event[k].remaining
    <3>1. SUFFICES ASSUME k.epoch = week' PROVE pct' <= event[k].remaining
      OBVIOUS
    <3>2. week' # week + 1
      BY <1>0, <2>1, <3>1
    <3>3. week' = week /\ pct' <= pct
      BY <1>0, <3>2, ServiceMoves
    <3>4. pct' \in Nat
      <4>1. pct' \in 1..Full
        BY TypeStep DEF TypeOK
      <4> QED BY <4>1, PercentFacts
    <3> QED BY <1>0, <2>2, <3>1, <3>3, <3>4
  <2> QED BY <2>1, <2>2, <2>3
<1>3. CASE ~Present(journal[k])
  <2>1. Registered /\ k = NewKey
    <3>1. OpensReset(k) \/ OpensThreshold(k)
      BY <1>1, <1>3, RowMoves
    <3>2. ResetKey(poll.state.arm).kind = "reset"
      BY DEF ResetKey
    <3>3. ~OpensReset(k)
      BY <1>1, <3>2 DEF OpensReset, Threshold
    <3> QED BY <3>1, <3>3 DEF OpensThreshold
  <2> DEFINE d == poll.state
  <2>2. /\ event'[k].covered = Covered(d) /\ event'[k].remaining = pct
        /\ k.selector = Critical(d) /\ d.arm >= week /\ Running
        /\ week' = week /\ pct' = pct /\ Candidates(d) # {} /\ d \in DetectorStates
    BY <2>1, WorldFacts DEF Registered, Accepted, Registers, Running, DetectThreshold, service
  <2>3. d.arm = week
    BY <1>0, <2>2, StateFacts DEF NotAhead, Reached
  <2>4. /\ Critical(d) \in Covered(d) /\ pct <= Percent[Critical(d)]
        /\ \A t \in Covered(d) : Percent[Critical(d)] <= Percent[t]
    BY <2>2, <2>3, CriticalCrossed
  <2> QED BY <1>0, <2>2, <2>4
<1> QED BY <1>2, <1>3


LEMMA OpensResetFacts ==
    ASSUME Sound, NEW k \in Keys, OpensReset(k)
    PROVE  /\ poll.at = "detect" /\ Running /\ Closing /\ Expires
           /\ Reset(k) /\ ~Threshold(k) /\ k.epoch = poll.state.arm
           /\ Due(poll.state) /\ poll.state.arm # 0
           /\ k.epoch < week /\ k.epoch + 1 >= week
           /\ ~Present(journal[k])
<1>1. poll.state \in DetectorStates /\ week \in Weeks /\ Due(poll.state)
  BY WorldFacts DEF OpensReset, Announces
<1>2. k.kind = "reset" /\ k.epoch = poll.state.arm /\ poll.state.arm < week
  BY <1>1, DueWeek DEF OpensReset
<1>3. poll.at = "detect"
  BY DEF OpensReset, DetectReset
<1>4. poll.state.arm # 0
  BY <1>1, StateFacts DEF Due
<1> QED BY <1>1, <1>2, <1>3, <1>4
        DEF OpensReset, Announces, Running, Closing, Expires, Reset, Threshold

LEMMA OpensThresholdFacts ==
    ASSUME Sound, NotAhead, NEW k \in Keys, OpensThreshold(k)
    PROVE  /\ poll.at = "threshold" /\ Running /\ Expires
           /\ Threshold(k) /\ ~Reset(k) /\ k.epoch = week /\ poll.state.arm = week
           /\ k.selector = Critical(poll.state) /\ Candidates(poll.state) # {}
           /\ event'[k].covered = Covered(poll.state) /\ event'[k].remaining = pct
           /\ week' = week /\ pct' = pct
           /\ ~Present(journal[k]) /\ Pending(journal'[k])
<1>1. /\ k.epoch = poll.state.arm /\ poll.state.arm >= week /\ Threshold(k)
      /\ Candidates(poll.state) # {} /\ k.selector = Critical(poll.state)
      /\ event'[k] = [covered |-> Covered(poll.state), remaining |-> pct]
      /\ DetectThreshold /\ ~Present(journal[k]) /\ Pending(journal'[k])
  BY DEF OpensThreshold, Registered, Accepted, Registers
<1>2. poll.state.arm \in Nat /\ week \in Nat /\ poll.state.arm <= week
  BY WorldFacts, StateFacts DEF NotAhead, Reached
<1>3. poll.state.arm = week
  BY <1>1, <1>2
<1>4. poll.at = "threshold" /\ week' = week /\ pct' = pct
  BY <1>1 DEF DetectThreshold, service
<1>5. ~Reset(k)
  BY <1>1 DEF Threshold, Reset
<1> QED BY <1>1, <1>3, <1>4, <1>5 DEF Running, Expires

(* Between the expiry and the deliveries a waiting threshold is of the week,
   a waiting reset of the week before. *)
LEMMA WaitingEpoch ==
    ASSUME Sound, NotAhead, Expires, NEW k \in Keys, Pending(journal[k])
    PROVE  /\ Threshold(k) => k.epoch = week
           /\ Reset(k) => k.epoch + 1 = week
<1>1. ~Expired(k) /\ Present(journal[k])
  BY RowFacts DEF Sound, NoneOver
<1>2. k.epoch \in Nat /\ week \in Nat
  BY KeyEpoch, WorldFacts
<1>3. IF Reset(k) THEN k.epoch < week ELSE k.epoch <= week
  BY <1>1 DEF NotAhead, Reset
<1> QED BY <1>1, <1>2, <1>3 DEF Expired, Threshold, Reset

LEMMA LiveMoves ==
    ASSUME Sound, [Next]_vars, NEW k \in Keys, Live(journal'[k])
    PROVE  Live(journal[k]) \/ OpensReset(k) \/ OpensThreshold(k)
BY RowMoves DEF Live

LEMMA ResetLastStep ==
    ASSUME Sound, NotAhead, [Next]_vars, ResetLast(journal), SettledOK, WaitingOK,
           Running => ResetsArmed(poll.state, journal)
    PROVE  ResetLast(journal')
<1>1. SUFFICES ASSUME NEW m \in Keys, NEW k \in Keys, Reset(m), Present(journal'[m]),
                      k # m, k.epoch <= m.epoch, Live(journal'[k])
               PROVE  FALSE
  BY DEF ResetLast
<1>2. Live(journal[k]) \/ OpensReset(k) \/ OpensThreshold(k)
  BY <1>1, LiveMoves
<1>3. k.epoch \in Nat /\ m.epoch \in Nat /\ week \in Nat
  BY KeyEpoch, WorldFacts
<1>4. CASE Present(journal[m])
  <2>1. ~Live(journal[k])
    BY <1>1, <1>4 DEF ResetLast
  <2>2. m.epoch < week
    BY <1>1, <1>4 DEF NotAhead, Reset
  <2>3. ~OpensThreshold(k)
    <3>1. OpensThreshold(k) => k.epoch = week
      BY OpensThresholdFacts
    <3> QED BY <1>1, <1>3, <2>2, <3>1
  <2>4. ~OpensReset(k)
    <3>1. SUFFICES ASSUME OpensReset(k) PROVE FALSE
      OBVIOUS
    <3>2. Running /\ Reset(k) /\ k.epoch = poll.state.arm /\ poll.state.arm # 0
      BY <3>1, OpensResetFacts
    <3>3. k.epoch >= m.epoch
      BY <1>1, <1>4, <3>2 DEF ResetsArmed
    <3>4. k.epoch = m.epoch
      BY <1>1, <1>3, <3>3
    <3> QED BY <1>1, <3>2, <3>4, KeysDiffer DEF Reset
  <2> QED BY <1>2, <2>1, <2>3, <2>4
<1>5. CASE ~Present(journal[m])
  <2>1. OpensReset(m)
    <3>1. OpensReset(m) \/ OpensThreshold(m)
      BY <1>1, <1>5, RowMoves
    <3>2. OpensThreshold(m) => ~Reset(m)
      BY OpensThresholdFacts
    <3> QED BY <1>1, <3>1, <3>2
  <2>2. /\ poll.at = "detect" /\ Closing /\ Expires /\ Due(poll.state)
        /\ m.epoch = poll.state.arm /\ m.epoch < week
    BY <2>1, OpensResetFacts
  <2>3. ~OpensThreshold(k)
    BY <2>2, OpensThresholdFacts
  <2>4. ~OpensReset(k)
    BY <1>1, <2>1 DEF OpensReset
  <2>5. Pending(journal[k])
    BY <1>2, <2>2, <2>3, <2>4 DEF SettledOK, Live
  <2>6. ~Threshold(k)
    BY <2>2, <2>5 DEF WaitingOK, NoneWaits
  <2>7. Reset(k)
    BY <2>6, KeyKinds
  <2>8. k.epoch + 1 = week
    BY <2>2, <2>5, <2>7, WaitingEpoch
  <2>9. k.epoch = m.epoch
    BY <1>1, <1>3, <2>2, <2>8
  <2> QED BY <1>1, <2>7, <2>9, KeysDiffer DEF Reset
<1> QED BY <1>4, <1>5

LEMMA OneWaitsStep ==
    ASSUME Sound, NotAhead, [Next]_vars, OneWaits(journal, event), SettledOK,
           EventsOK(journal, event, week, pct)
    PROVE  OneWaits(journal', event')
<1>1. SUFFICES ASSUME NEW k \in Keys, NEW m \in Keys, Threshold(k), Threshold(m),
                      k # m, k.epoch = m.epoch, Present(journal'[k]), Live(journal'[m])
               PROVE  ~Live(journal'[k]) /\ event'[m].remaining <= event'[k].remaining
  BY DEF OneWaits
<1>2. \A n \in Keys : Threshold(n) => ~OpensReset(n)
  BY OpensResetFacts
<1>3. Present(journal[k]) \/ OpensThreshold(k)
  BY <1>1, <1>2, RowMoves
<1>4. Live(journal[m]) \/ OpensThreshold(m)
  BY <1>1, <1>2, LiveMoves
<1>5. CASE OpensThreshold(k)
  <2>1. ~OpensThreshold(m)
    BY <1>1, <1>5 DEF OpensThreshold
  <2>2. poll.at = "threshold" /\ Registered /\ k = NewKey
    BY <1>5, OpensThresholdFacts DEF OpensThreshold
  <2>3. Pending(journal[m]) /\ ~Unsettled(journal[m])
    BY <1>4, <2>1, <2>2 DEF SettledOK, Live
  <2>4. ~Pending(journal'[m])
    BY <1>1, <2>2 DEF Registered
  <2>5. Unsettled(journal'[m])
    BY <1>1, <2>4 DEF Live
  <2>6. RecordAnswer
    BY <2>3, <2>5, RowMoves DEF AnswersRow
  <2> QED BY <2>2, <2>6 DEF RecordAnswer
<1>6. CASE Present(journal[k]) /\ OpensThreshold(m)
  <2>1. /\ poll.at = "threshold" /\ Registered /\ m = NewKey
        /\ m.epoch = week /\ event'[m].remaining = pct
    BY <1>6, OpensThresholdFacts DEF OpensThreshold
  <2>2. ~Pending(journal'[k])
    BY <1>1, <2>1 DEF Registered
  <2>3. ~Unsettled(journal'[k])
    <3>1. Unsettled(journal'[k]) => Unsettled(journal[k]) \/ RecordAnswer
      BY RowMoves DEF AnswersRow
    <3> QED BY <2>1, <3>1 DEF SettledOK, RecordAnswer
  <2>4. event'[k] = event[k]
    BY <1>6, RowMoves
  <2>5. pct <= event[k].remaining
    BY <1>1, <1>6, <2>1 DEF EventsOK
  <2> QED BY <2>1, <2>2, <2>3, <2>4, <2>5 DEF Live
<1>7. CASE Present(journal[k]) /\ Live(journal[m])
  <2>1. event'[k] = event[k] /\ event'[m] = event[m]
    BY <1>7, RowMoves, RowFacts
  <2>2. ~Live(journal[k]) /\ event[m].remaining <= event[k].remaining
    BY <1>1, <1>7 DEF OneWaits
  <2>3. ~OpensThreshold(k)
    BY <1>7, OpensThresholdFacts
  <2>4. ~Live(journal'[k])
    BY <1>1, <1>2, <2>2, <2>3, LiveMoves
  <2> QED BY <2>1, <2>2, <2>4
<1> QED BY <1>3, <1>4, <1>5, <1>6, <1>7


LEMMA RecentMoves ==
    ASSUME [Next]_vars
    PROVE  \/ recent' = 0
           \/ recent' = recent /\ (week' = week \/ recent = week)
           \/ FinishPoll /\ recent' = week /\ week' = week /\ disk' = poll.state
<1>1. UseQuota \/ StartPoll \/ CloseDue \/ ReconcileRow \/ ReconcileEnd
        \/ PersistReconciled \/ AcknowledgeNext \/ ExpireAlerts \/ DetectReset
        => recent' = recent /\ week' = week
  BY DEF UseQuota, StartPoll, CloseDue, ReconcileRow, ReconcileEnd, PersistReconciled,
         AcknowledgeNext, ExpireAlerts, DetectReset, service
<1>2. DetectThreshold \/ SaveState \/ CollectDue \/ RecordAnswer \/ Failure
        \/ (\E i \in Items : WaitOver(i))
        \/ (\E i \in Items, answer \in Answers : Send(i, answer))
        => recent' = recent /\ week' = week
  BY DEF DetectThreshold, SaveState, CollectDue, RecordAnswer, WaitOver, Send, Failure,
         SkipItem, RecordFails, GiveUpReconcile, Crash, service
<1>3. NextWeek \/ SampleAges => recent' = 0 \/ (recent' = recent /\ recent = week)
  BY DEF NextWeek, SampleAges
<1>4. FinishPoll => /\ week' = week
                    /\ recent' = recent \/ (recent' = week /\ disk' = poll.state)
  BY DEF FinishPoll
<1>5. UNCHANGED vars => recent' = recent /\ week' = week
  BY DEF vars
<1> QED BY <1>1, <1>2, <1>3, <1>4, <1>5 DEF Next, Progress

LEMMA RecentStep ==
    ASSUME Sound, [Next]_vars, RecentOK, CopiesOK
    PROVE  RecentOK'
<1>0. /\ week \in Nat /\ week' \in Nat /\ recent \in Nat /\ week' <= week + 1
      /\ disk.seen \in Nat /\ poll.state.seen \in Nat
  BY WorldFacts, WeekMoves, StateFacts
<1>1. disk'.seen >= disk.seen
  <2>1. disk' = disk \/ (disk' = poll.state /\ Running)
    BY DiskMoves DEF PersistReconciled, SaveState, FinishPoll, Running
  <2> QED BY <1>0, <2>1 DEF CopiesOK
<1>2. disk'.seen \in Nat
  BY <1>0, DiskMoves
<1>3. SUFFICES ASSUME recent' # 0 PROVE recent' + 1 >= week' /\ disk'.seen >= recent'
  BY DEF RecentOK
<1>4. CASE recent' = recent /\ (week' = week \/ recent = week)
  <2>1. recent + 1 >= week /\ disk.seen >= recent
    BY <1>3, <1>4 DEF RecentOK
  <2>2. recent + 1 >= week'
    BY <1>0, <1>4, <2>1
  <2>3. disk'.seen >= recent
    BY <1>0, <1>1, <1>2, <2>1
  <2> QED BY <1>4, <2>2, <2>3
<1>5. CASE FinishPoll /\ recent' = week /\ week' = week /\ disk' = poll.state
  <2>1. poll.state.seen = week
    BY <1>5 DEF CopiesOK, SeenNow, FinishPoll
  <2> QED BY <1>0, <1>5, <2>1
<1> QED BY <1>3, <1>4, <1>5, RecentMoves

-----------------------------------------------------------------------------
(* A state that stays agrees with the journal that moves. *)

LEMMA NotifiedStays ==
    ASSUME Sound, [Next]_vars, NEW s \in DetectorStates,
           NotifiedTold(s, journal, event)
    PROVE  NotifiedTold(s, journal', event')
<1>1. SUFFICES ASSUME NEW t \in s.notified
               PROVE  \E k \in Keys : /\ Threshold(k) /\ k.epoch = s.arm
                                      /\ ToldRow(journal'[k]) /\ t \in event'[k].covered
  BY DEF NotifiedTold
<1>2. PICK k \in Keys : /\ Threshold(k) /\ k.epoch = s.arm
                        /\ ToldRow(journal[k]) /\ t \in event[k].covered
  BY <1>1 DEF NotifiedTold
<1>3. ToldRow(journal'[k]) /\ event'[k] = event[k]
  BY <1>2, RowMoves, RowFacts
<1> QED BY <1>2, <1>3

(* What the step of an answer finds: a row that waits for it. *)
LEMMA AnswerFacts ==
    ASSUME Agreement, NEW k \in Keys, AnswersRow(k), Pending(journal[k])
    PROVE  /\ poll.state = disk /\ disk.seen = week
           /\ k.epoch < week \/ Threshold(k)
           /\ Threshold(k) => /\ disk.arm = week /\ k.epoch = week
                              /\ disk.pending = k.selector
<1>1. poll.at = "record"
  BY DEF AnswersRow, RecordAnswer
<1>2. Expires /\ Delivering /\ SeenNow /\ Saved
  BY <1>1 DEF Expires, Delivering, SeenNow, Saved
<1>3. poll.state = disk /\ disk.seen = week
  BY <1>2 DEF Agreement, CopiesOK
<1>4. Threshold(k) => k.epoch = week
  BY <1>2, WaitingEpoch DEF Agreement
<1>5. Threshold(k) => disk.arm = week /\ disk.pending = k.selector
  BY <1>2, <1>3 DEF Agreement, WaitingOK, NoneWaits
<1>6. Reset(k) => k.epoch < week
  BY RowFacts DEF Agreement, NotAhead, Reset
<1>7. Threshold(k) \/ Reset(k)
  BY KeyKinds
<1> QED BY <1>3, <1>4, <1>5, <1>6, <1>7

(* What DetectThreshold registers is new to the state that asks for it, and
   what it leaves out is notified. *)
LEMMA RegisteredCovers ==
    ASSUME Agreement, NEW k \in Keys, OpensThreshold(k), NEW t \in Thresholds
    PROVE  /\ t \in event'[k].covered =>
                 Percent[t] < poll.state.prev /\ t \notin poll.state.notified
           /\ event'[k].remaining <= Percent[t] =>
                 t \in event'[k].covered \/ t \in poll.state.notified
<1> DEFINE d == poll.state
<1>1. /\ poll.at = "threshold" /\ Running /\ d.arm = week /\ Candidates(d) # {}
      /\ event'[k].covered = Covered(d) /\ event'[k].remaining = pct
  BY OpensThresholdFacts DEF Agreement
<1>2. /\ LevelKnown(d) /\ NotifiedTold(d, journal, event)
      /\ PendingCrossed(d, week, pct) /\ d \in DetectorStates
  BY <1>1, WorldFacts DEF Agreement, Agrees
<1>3. /\ Critical(d) \in Thresholds
      /\ pct <= Percent[Critical(d)] /\ Percent[Critical(d)] < d.prev
      /\ \A u \in Candidates(d) : Percent[Critical(d)] <= Percent[u]
  BY <1>1, <1>2, CriticalCrossed
<1>4. ASSUME t \in Covered(d)
      PROVE  Percent[t] < d.prev /\ t \notin d.notified
  <2>1. Percent[t] < d.prev
    BY <1>4 DEF Covered
  <2>2. SUFFICES ASSUME t \in d.notified PROVE FALSE
    BY <2>1
  <2>3. PICK m \in Keys : /\ Threshold(m) /\ m.epoch = week
                          /\ ToldRow(journal[m]) /\ t \in event[m].covered
    BY <1>1, <1>2, <2>2 DEF NotifiedTold
  <2>4. journal[m].acked
    BY <1>1, <2>3 DEF Agreement, SettledOK, Unsettled
  <2>5. RowApplied(d, event, week, m)
    BY <1>1, <2>3, <2>4 DEF Agreement, AppliedOK, Counted
  <2>6. d.prev <= Percent[t]
    BY <2>3, <2>5 DEF RowApplied
  <2>7. d.prev \in Nat /\ Percent[t] \in Nat
    BY <1>2, StateFacts, PercentFacts
  <2> QED BY <2>1, <2>6, <2>7
<1>5. ASSUME pct <= Percent[t], t \notin Covered(d)
      PROVE  t \in d.notified
  <2>1. d.prev \in Nat /\ Percent[t] \in Nat /\ Percent[Critical(d)] \in Nat
    BY <1>2, <1>3, StateFacts, PercentFacts
  <2>2. CASE d.prev <= Percent[t]
    BY <1>2, <2>2 DEF LevelKnown
  <2>3. CASE Percent[t] < Percent[Critical(d)]
    <3>1. t \notin Candidates(d)
      BY <1>3, <2>1, <2>3
    <3>2. Percent[t] < d.prev
      BY <1>3, <2>1, <2>3
    <3> QED BY <1>5, <3>1, <3>2 DEF Candidates, Crossed
  <2> QED BY <1>5, <2>1, <2>2, <2>3 DEF Covered
<1> QED BY <1>1, <1>4, <1>5

LEMMA AgreesStays ==
    ASSUME Agreement, [Next]_vars, NEW s \in DetectorStates,
           s = disk \/ (Running /\ s = poll.state)
    PROVE  Agrees(s, journal', event', week', pct')
<1>0. /\ Agrees(s, journal, event, week, pct) /\ Sound /\ NotAhead
      /\ week \in Nat /\ pct \in Nat /\ s.arm \in Nat /\ s.prev \in Nat
      /\ s.arm <= week
  BY WorldFacts, StateFacts DEF Agreement, NotAhead, Reached
<1>1. Blank(s) /\ LevelKnown(s) /\ NotifiedTold(s, journal', event')
  BY <1>0, NotifiedStays DEF Agrees
<1>2. PendingCrossed(s, week', pct')
  <2>1. SUFFICES ASSUME s.arm = week', s.pending # NoThreshold
                 PROVE  pct' <= Percent[s.pending] /\ Percent[s.pending] < s.prev
    BY DEF PendingCrossed
  <2>2. week' = week /\ pct' <= pct /\ pct' \in Nat
    <3>1. pct' \in Nat
      BY <1>0, TypeStep, PercentFacts DEF TypeOK, Sound
    <3>2. week' # week + 1
      BY <1>0, <2>1
    <3> QED BY <1>0, <3>1, <3>2, ServiceMoves
  <2>3. pct <= Percent[s.pending] /\ Percent[s.pending] < s.prev
    BY <1>0, <2>1, <2>2 DEF Agrees, PendingCrossed
  <2>4. Percent[s.pending] \in Nat
    BY <2>1, StateFacts, PercentFacts
  <2> QED BY <1>0, <2>2, <2>3, <2>4
<1>3. ResetsArmed(s, journal')
  <2>1. SUFFICES ASSUME NEW k \in Keys, Reset(k), Present(journal'[k])
                 PROVE  s.arm = 0 \/ s.arm >= k.epoch
    BY DEF ResetsArmed
  <2>2. CASE Present(journal[k])
    BY <1>0, <2>1, <2>2 DEF Agrees, ResetsArmed
  <2>3. CASE OpensReset(k)
    <3>1. poll.at = "detect" /\ k.epoch = poll.state.arm /\ k.epoch \in Nat
      BY <1>0, <2>3, OpensResetFacts, KeyEpoch
    <3>2. poll.state \in {disk, Loaded(disk)}
      BY <3>1 DEF Agreement, CopiesOK, Fresh
    <3>3. disk.arm = poll.state.arm \/ disk.arm = 0
      BY <1>0, <3>2, LoadedFields, WorldFacts
    <3> QED BY <3>1, <3>3
  <2>4. ~OpensThreshold(k)
    BY <1>0, <2>1, OpensThresholdFacts
  <2> QED BY <1>0, <2>1, <2>2, <2>3, <2>4, RowMoves
<1>4. ToldSeen(s, journal')
  <2>1. SUFFICES ASSUME NEW k \in Keys, ToldRow(journal'[k])
                 PROVE  (Threshold(k) /\ s.arm = k.epoch) \/ s.seen > k.epoch
    BY DEF ToldSeen
  <2>2. CASE ToldRow(journal[k])
    BY <1>0, <2>2 DEF Agrees, ToldSeen
  <2>3. CASE AnswersRow(k) /\ Pending(journal[k])
    <3>1. s = disk /\ s.seen = week
      BY <2>3, AnswerFacts
    <3> QED BY <2>3, <3>1, AnswerFacts
  <2> QED BY <1>0, <2>1, <2>2, <2>3, RowMoves
<1>5. UnsettledArmed(s, journal')
  <2>1. SUFFICES ASSUME NEW k \in Keys, Threshold(k), Unsettled(journal'[k])
                 PROVE  s.arm = k.epoch /\ s.pending \in {NoThreshold, k.selector}
    BY DEF UnsettledArmed
  <2>2. CASE Unsettled(journal[k])
    BY <1>0, <2>1, <2>2 DEF Agrees, UnsettledArmed
  <2>3. CASE AnswersRow(k) /\ Pending(journal[k])
    <3>1. s = disk
      BY <2>3, AnswerFacts
    <3> QED BY <2>1, <2>3, <3>1, AnswerFacts
  <2> QED BY <1>0, <2>1, <2>2, <2>3, RowMoves
<1>6. LiveCovers(s, journal', event')
  <2>1. SUFFICES ASSUME NEW k \in Keys, Threshold(k), Live(journal'[k]),
                        NEW t \in Thresholds, event'[k].remaining <= Percent[t]
                 PROVE  t \in event'[k].covered \/ (s.arm = k.epoch /\ t \in s.notified)
    BY DEF LiveCovers
  <2>2. CASE Live(journal[k])
    <3>1. event'[k] = event[k]
      BY <1>0, <2>2, RowMoves, RowFacts
    <3> QED BY <1>0, <2>1, <2>2, <3>1 DEF Agrees, LiveCovers
  <2>3. CASE OpensThreshold(k)
    <3>1. poll.at = "threshold" /\ k.epoch = week /\ poll.state.arm = week
      BY <1>0, <2>3, OpensThresholdFacts
    <3>2. t \in event'[k].covered \/ t \in poll.state.notified
      BY <2>1, <2>3, RegisteredCovers
    <3>3. t \in poll.state.notified =>
             poll.state.notified = disk.notified /\ poll.state.arm = disk.arm
      BY <3>1 DEF Agreement, ThresholdOK
    <3> QED BY <3>1, <3>2, <3>3
  <2>4. ~OpensReset(k)
    BY <1>0, <2>1, OpensResetFacts
  <2> QED BY <1>0, <2>1, <2>2, <2>3, <2>4, LiveMoves
<1>7. WaitsBelow(s, journal', event', week')
  <2>1. SUFFICES ASSUME NEW k \in Keys, Threshold(k), Pending(journal'[k]),
                        k.epoch = week', s.arm \in {0, week'}, NEW t \in event'[k].covered
                 PROVE  Percent[t] < s.prev /\ t \notin s.notified
    BY DEF WaitsBelow
  <2>2. CASE Pending(journal[k])
    <3>1. event'[k] = event[k] /\ k.epoch <= week
      BY <1>0, <2>1, <2>2, RowMoves, RowFacts DEF NotAhead, Threshold
    <3>2. week' = week
      BY <1>0, <2>1, <3>1, WeekMoves
    <3> QED BY <1>0, <2>1, <2>2, <3>1, <3>2 DEF Agrees, WaitsBelow
  <2>3. CASE OpensThreshold(k)
    <3>1. /\ poll.at = "threshold" /\ poll.state.arm = week /\ week' = week
          /\ event'[k].covered = Covered(poll.state)
      BY <1>0, <2>3, OpensThresholdFacts
    <3>2. t \in Thresholds
      BY <2>1, <3>1 DEF Covered
    <3>3. Percent[t] < poll.state.prev /\ t \notin poll.state.notified
      BY <2>1, <2>3, <3>2, RegisteredCovers
    <3>4. s.arm = week => s = poll.state
      BY <3>1 DEF Agreement, ThresholdOK
    <3>5. s.arm = 0 => Percent[t] < s.prev /\ t \notin s.notified
      BY <1>0, <3>2, PercentFacts DEF Agrees, Blank
    <3> QED BY <2>1, <3>1, <3>3, <3>4, <3>5
  <2>4. ~OpensReset(k)
    BY <1>0, <2>1, OpensResetFacts
  <2> QED BY <1>0, <2>1, <2>2, <2>3, <2>4, RowMoves
<1> QED BY <1>0, <1>1, <1>2, <1>3, <1>4, <1>5, <1>6, <1>7 DEF Agrees


(* What is counted stays counted while the journal moves. *)
LEMMA CountedStays ==
    ASSUME Agreement, [Next]_vars, NEW s, NEW S, \A k \in S : Terminal(journal[k]),
           Counted(s, journal, event, week, S), AcknowledgeNext => poll.acks \subseteq S
    PROVE  Counted(s, journal', event', week', S)
<1>0. Sound /\ NotAhead /\ week \in Nat
  BY WorldFacts DEF Agreement
<1>1. SUFFICES ASSUME NEW k \in Keys, ToldRow(journal'[k]), journal'[k].acked \/ k \in S
               PROVE  RowApplied(s, event', week', k)
  BY DEF Counted
<1>2. ToldRow(journal[k])
  <2>1. SUFFICES ASSUME Pending(journal[k]) PROVE FALSE
    BY <1>0, <1>1, RowMoves
  <2>2. ~Terminal(journal[k]) /\ ~journal[k].acked
    BY <1>0, <2>1, RowFacts
  <2>3. k \in poll.acks
    BY <1>0, <1>1, <2>2, RowMoves
  <2> QED BY <1>0, <2>2, <2>3 DEF Sound, PollOK
<1>3. journal[k].acked \/ k \in S
  BY <1>0, <1>1, RowMoves
<1>4. RowApplied(s, event, week, k)
  BY <1>2, <1>3 DEF Counted
<1>5. event'[k] = event[k] /\ Present(journal[k])
  BY <1>0, <1>2, RowMoves, RowFacts
<1>6. week' = week \/ (Threshold(k) => k.epoch # week')
  <2>1. Threshold(k) => k.epoch <= week
    BY <1>0, <1>5 DEF NotAhead, Threshold
  <2> QED BY <1>0, <2>1, WeekMoves, KeyEpoch
<1> QED BY <1>4, <1>5, <1>6 DEF RowApplied

LEMMA CountedLess ==
    ASSUME NEW s, NEW j, NEW e, NEW w, NEW S, NEW T, Counted(s, j, e, w, S), T \subseteq S
    PROVE  Counted(s, j, e, w, T)
BY DEF Counted

-----------------------------------------------------------------------------
(* The states a poll makes agree with the journal as well. *)

LEMMA LoadedAgrees ==
    ASSUME Agreement
    PROVE  /\ Agrees(Loaded(disk), journal, event, week, pct)
           /\ Counted(Loaded(disk), journal, event, week, {})
<1> DEFINE d == disk
           s == Loaded(disk)
<1>0. /\ Sound /\ NotAhead /\ Agrees(d, journal, event, week, pct)
      /\ Counted(d, journal, event, week, {})
      /\ d \in DetectorStates /\ week \in Nat /\ recent \in Nat /\ d.seen \in Nat
  BY WorldFacts, StateFacts DEF Agreement, AppliedOK
<1>1. CASE s = d
  BY <1>0, <1>1
<1>2. CASE s # d
  <2>1. /\ s.seen = d.seen /\ s.prev = d.prev /\ s.pending = d.pending /\ s.last = d.last
        /\ s.notified = d.notified /\ d.arm = 0 /\ 0 < d.seen /\ d.seen < week
        /\ recent # 0 /\ s.arm = d.seen
    BY <1>0, <1>2, LoadedFields
  <2> HIDE DEF s
  <2>2. d.notified = {} /\ d.pending = NoThreshold /\ d.prev = Full
    BY <1>0, <2>1 DEF Agrees, Blank
  <2>3. s.arm + 1 = week
    <3>1. recent + 1 >= week /\ d.seen >= recent
      BY <2>1 DEF Agreement, RecentOK
    <3> QED BY <1>0, <2>1, <3>1
  <2>4. \A k \in Keys : k.epoch # 0 /\ k.epoch \in Nat
    BY KeyKinds
  <2>5. \A k \in Keys : ToldRow(journal[k]) => d.seen > k.epoch
    BY <1>0, <2>1, <2>4 DEF Agrees, ToldSeen
  <2>6. Blank(s) /\ LevelKnown(s) /\ NotifiedTold(s, journal, event)
          /\ PendingCrossed(s, week, pct)
    BY <1>0, <2>1, <2>2 DEF Agrees, Blank, LevelKnown, NotifiedTold, PendingCrossed
  <2>7. ResetsArmed(s, journal)
    <3>1. \A k \in Keys : Reset(k) /\ Present(journal[k]) => k.epoch < week
      BY <1>0 DEF NotAhead, Reset
    <3> QED BY <1>0, <2>1, <2>3, <2>4, <3>1 DEF ResetsArmed
  <2>8. ToldSeen(s, journal)
    BY <2>1, <2>5 DEF ToldSeen
  <2>9. UnsettledArmed(s, journal)
    BY <1>0, <2>1, <2>4 DEF Agrees, UnsettledArmed
  <2>10. LiveCovers(s, journal, event)
    BY <1>0, <2>1, <2>4 DEF Agrees, LiveCovers
  <2>11. WaitsBelow(s, journal, event, week)
    <3>1. s.arm # 0 /\ s.arm # week
      BY <1>0, <2>1
    <3> QED BY <3>1 DEF WaitsBelow
  <2>12. Counted(s, journal, event, week, {})
    <3>1. SUFFICES ASSUME NEW k \in Keys, ToldRow(journal[k]), journal[k].acked
                   PROVE  RowApplied(s, event, week, k)
      BY DEF Counted
    <3>2. RowApplied(d, event, week, k)
      BY <1>0, <3>1 DEF Counted
    <3>3. s.arm # k.epoch
      BY <1>0, <2>1, <2>4, <2>5, <3>1
    <3> QED BY <2>1, <3>2, <3>3 DEF RowApplied
  <2> QED BY <2>6, <2>7, <2>8, <2>9, <2>10, <2>11, <2>12 DEF Agrees, s
<1> QED BY <1>1, <1>2

(* An unread result of a threshold belongs to the armed week, one of a reset
   is the last word of its week. *)
LEMMA AppliedAgrees ==
    ASSUME Agreement, Running, NEW k \in Unread, Outcome(k)
    PROVE  /\ Agrees(Applied(poll.state, k), journal, event, week, pct)
           /\ Counted(Applied(poll.state, k), journal, event, week, poll.acks \cup {k})
<1> DEFINE d == poll.state
           s == Applied(poll.state, k)
           A == poll.acks
<1>0. /\ Sound /\ NotAhead /\ Agrees(d, journal, event, week, pct)
      /\ Counted(d, journal, event, week, A)
      /\ d \in DetectorStates /\ week \in Nat /\ d.seen \in Nat /\ d.seen <= week
      /\ \A m \in Keys : m.epoch # 0 /\ m.epoch \in Nat
  BY WorldFacts, StateFacts, KeyKinds DEF Agreement, AppliedOK, NotAhead, Reached
<1>1. /\ k \in Keys /\ Unsettled(journal[k]) /\ ToldRow(journal[k]) /\ Live(journal[k])
      /\ ~Pending(journal[k]) /\ Present(journal[k])
  <2>1. k \in Keys /\ Terminal(journal[k]) /\ ~journal[k].acked
    BY DEF Unread, Unacknowledged
  <2>2. RowOK(journal[k])
    BY <1>0, <2>1 DEF Sound, JournalOK
  <2>3. ToldRow(journal[k])
    BY <2>1, <2>2, RowCases DEF Outcome, TerminationReasons, Closed, ToldRow
  <2> QED BY <2>1, <2>2, <2>3, RowCases DEF Unsettled, Live
<1>2. \A m \in Keys : ToldRow(journal[m]) /\ Threshold(m) /\ m.epoch = week => d.arm = week
  BY <1>0 DEF Agrees, ToldSeen
<1>3. CASE Threshold(k)
  <2>1. /\ d.arm = k.epoch /\ d.pending \in {NoThreshold, k.selector}
    BY <1>0, <1>1, <1>3 DEF Agrees, UnsettledArmed
  <2>2. /\ s.arm = d.arm /\ s.last = d.last /\ s.seen = d.seen
        /\ s.notified = d.notified \cup event[k].covered
        /\ s.pending = NoThreshold /\ s.prev = event[k].remaining
    BY <1>0, <1>1, <1>3, <2>1, AppliedThreshold DEF Threshold
  <2> HIDE DEF s
  <2>3. Blank(s) /\ PendingCrossed(s, week, pct)
    BY <1>0, <1>1, <2>1, <2>2 DEF Blank, PendingCrossed
  <2>4. LevelKnown(s)
    BY <1>0, <1>1, <1>3, <2>2 DEF Agrees, LiveCovers, LevelKnown
  <2>5. NotifiedTold(s, journal, event)
    BY <1>0, <1>1, <1>3, <2>1, <2>2 DEF Agrees, NotifiedTold
  <2>6. ResetsArmed(s, journal) /\ ToldSeen(s, journal) /\ UnsettledArmed(s, journal)
    BY <1>0, <2>2 DEF Agrees, ResetsArmed, ToldSeen, UnsettledArmed
  <2>7. LiveCovers(s, journal, event)
    BY <1>0, <2>2 DEF Agrees, LiveCovers
  <2>8. WaitsBelow(s, journal, event, week)
    <3>1. SUFFICES ASSUME NEW m \in Keys, Threshold(m), Pending(journal[m]),
                          m.epoch = week, s.arm \in {0, week}
                   PROVE  FALSE
      BY DEF WaitsBelow
    <3>2. m # k /\ m.epoch = k.epoch
      BY <1>0, <1>1, <2>1, <2>2, <3>1
    <3> QED BY <1>1, <1>3, <3>1, <3>2 DEF Agreement, OneWaits, Live
  <2>9. Counted(s, journal, event, week, A \cup {k})
    <3>1. SUFFICES ASSUME NEW m \in Keys, ToldRow(journal[m]),
                          journal[m].acked \/ m \in A \cup {k}
                   PROVE  RowApplied(s, event, week, m)
      BY DEF Counted
    <3>2. Present(journal[m]) /\ event[m].remaining \in Nat /\ event[k].remaining \in Nat
      BY <1>0, <1>1, <3>1, RowFacts, WorldFacts
    <3>3. Threshold(m) => \A t \in event[m].covered :
             /\ event[m].remaining <= Percent[t] /\ Percent[t] \in Nat
      <4> SUFFICES ASSUME Threshold(m), NEW t \in event[m].covered
                   PROVE  /\ event[m].remaining <= Percent[t] /\ Percent[t] \in Nat
        OBVIOUS
      <4>1. /\ Percent[m.selector] <= Percent[t]
            /\ event[m].remaining <= Percent[m.selector]
        BY <3>2 DEF Agreement, EventsOK
      <4>2. Percent[t] \in Nat /\ Percent[m.selector] \in Nat
        BY <1>0, WorldFacts, PercentFacts, KeyKinds
      <4> QED BY <3>2, <4>1, <4>2
    <3>4. CASE m = k
      BY <1>3, <2>2, <3>3, <3>4 DEF RowApplied
    <3>5. CASE m # k
      <4>1. RowApplied(d, event, week, m)
        BY <1>0, <3>1, <3>5 DEF Counted
      <4>2. CASE Threshold(m)
        <5>1. s.arm = m.epoch => event[m].covered \subseteq s.notified
          BY <2>2, <4>1, <4>2 DEF RowApplied
        <5>2. ASSUME m.epoch = week, NEW t \in event[m].covered
              PROVE  s.prev <= Percent[t]
          <6>1. m.epoch = k.epoch
            BY <1>2, <2>1, <3>1, <4>2, <5>2
          <6>2. event[k].remaining <= event[m].remaining
            BY <1>1, <1>3, <3>2, <3>5, <4>2, <6>1 DEF Agreement, OneWaits
          <6> QED BY <2>2, <3>2, <3>3, <4>2, <6>2
        <5> QED BY <4>2, <5>1, <5>2 DEF RowApplied
      <4>3. CASE ~Threshold(m)
        BY <2>2, <4>1, <4>3 DEF RowApplied
      <4> QED BY <4>2, <4>3
    <3> QED BY <3>4, <3>5
  <2> QED BY <2>3, <2>4, <2>5, <2>6, <2>7, <2>8, <2>9 DEF Agrees, s
<1>4. CASE Reset(k)
  <2>1. /\ s.last = k.epoch /\ s.seen = d.seen
        /\ d.arm = k.epoch => /\ s.arm = 0 /\ s.notified = {}
                              /\ s.pending = NoThreshold /\ s.prev = Full
        /\ d.arm # k.epoch => /\ s.arm = d.arm /\ s.notified = d.notified
                              /\ s.pending = d.pending /\ s.prev = d.prev
    BY <1>0, <1>1, <1>4, AppliedReset DEF Reset
  <2> HIDE DEF s
  <2>2. /\ k.epoch < week /\ ~Threshold(k) /\ d.seen > k.epoch
    BY <1>0, <1>1, <1>4 DEF NotAhead, Reset, Threshold, Agrees, ToldSeen
  <2>3. \A m \in Keys : m # k /\ m.epoch <= k.epoch => ~Live(journal[m])
    BY <1>1, <1>4 DEF Agreement, ResetLast
  <2>4. Agrees(s, journal, event, week, pct)
    <3>1. CASE d.arm # k.epoch
      BY <1>0, <2>1, <3>1 DEF Agrees, Blank, LevelKnown, NotifiedTold, PendingCrossed,
         ResetsArmed, ToldSeen, UnsettledArmed, LiveCovers, WaitsBelow
    <3>2. CASE d.arm = k.epoch
      <4>1. /\ s.arm = 0 /\ s.notified = {} /\ s.pending = NoThreshold /\ s.prev = Full
            /\ s.seen = d.seen
        BY <2>1, <3>2
      <4>2. Blank(s) /\ NotifiedTold(s, journal, event) /\ PendingCrossed(s, week, pct)
              /\ ResetsArmed(s, journal)
        BY <4>1 DEF Blank, NotifiedTold, PendingCrossed, ResetsArmed
      <4>3. LevelKnown(s)
        BY <4>1, PercentFacts DEF LevelKnown
      <4>4. ToldSeen(s, journal)
        BY <1>0, <2>2, <3>2, <4>1 DEF Agrees, ToldSeen
      <4>5. \A m \in Keys : Threshold(m) /\ d.arm = m.epoch => ~Live(journal[m])
        BY <1>0, <2>2, <2>3, <3>2
      <4>6. UnsettledArmed(s, journal)
        BY <1>0, <4>5 DEF Agrees, UnsettledArmed, Live
      <4>7. LiveCovers(s, journal, event)
        BY <1>0, <4>5 DEF Agrees, LiveCovers
      <4>8. WaitsBelow(s, journal, event, week)
        <5>1. \A m \in Keys : event[m].covered \subseteq Thresholds
          BY <1>0, WorldFacts
        <5> QED BY <4>1, <5>1, PercentFacts DEF WaitsBelow
      <4> QED BY <4>2, <4>3, <4>4, <4>6, <4>7, <4>8 DEF Agrees
    <3> QED BY <3>1, <3>2
  <2>5. Counted(s, journal, event, week, A \cup {k})
    <3>1. SUFFICES ASSUME NEW m \in Keys, ToldRow(journal[m]),
                          journal[m].acked \/ m \in A \cup {k}
                   PROVE  RowApplied(s, event, week, m)
      BY DEF Counted
    <3>2. CASE m = k
      BY <1>0, <1>1, <2>1, <2>2, <3>2 DEF RowApplied
    <3>3. CASE m # k
      <4>1. RowApplied(d, event, week, m)
        BY <1>0, <3>1, <3>3 DEF Counted
      <4>2. CASE Threshold(m)
        <5>1. m.epoch = week => d.arm # k.epoch
          BY <1>0, <1>1, <1>2, <2>2, <3>1, <4>2
        <5> QED BY <1>0, <2>1, <4>1, <4>2, <5>1 DEF RowApplied
      <4>3. CASE ~Threshold(m)
        <5>1. Reset(m) /\ Present(journal[m])
          BY <1>0, <3>1, <4>3, RowFacts, KeyKinds
        <5>2. ~(k.epoch <= m.epoch)
          BY <1>1, <3>3, <5>1 DEF Agreement, ResetLast
        <5>3. s.last >= m.epoch
          BY <1>0, <1>1, <2>1, <5>2
        <5>4. s.arm # m.epoch
          BY <1>0, <2>1, <4>1, <4>3 DEF RowApplied
        <5> QED BY <4>3, <5>3, <5>4 DEF RowApplied
      <4> QED BY <4>2, <4>3
    <3> QED BY <3>2, <3>3
  <2> QED BY <2>4, <2>5 DEF s
<1> QED BY <1>1, <1>3, <1>4, KeyKinds


(* The detection looks at the journal it leaves: with a week that is due no
   threshold waits, and no result is unread. *)
LEMMA DetectedAgrees ==
    ASSUME Agreement, [Next]_vars, DetectReset
    PROVE  LET s == ArmNext(RetireDue(Noted(poll.state)))
           IN /\ Agrees(s, journal', event', week', pct')
              /\ Counted(s, journal', event', week', {})
<1> DEFINE d == poll.state
           s == ArmNext(RetireDue(Noted(poll.state)))
<1>0. /\ Sound /\ Sound' /\ NotAhead /\ NotAhead' /\ d \in DetectorStates
      /\ poll.at = "detect" /\ Running /\ Closing /\ event' = event
      /\ week' = week /\ pct' = pct
      /\ week \in Nat /\ week \in Weeks /\ pct \in 1..Full /\ d.seen \in Nat
      /\ d.arm \in Nat /\ d.arm <= week /\ d.seen <= week /\ poll.acks = {}
      /\ \A m \in Keys : m.epoch # 0 /\ m.epoch \in Nat
  BY SoundStep, NotAheadStep, WorldFacts, StateFacts, KeyKinds
     DEF Agreement, NotAhead, Reached, DetectReset, Running, Closing, service,
         Sound, PollOK, Reconciling
<1>1. Agrees(d, journal', event', week', pct')
  BY <1>0, AgreesStays
<1>2. Counted(d, journal', event', week', {})
  <2>1. Counted(d, journal, event, week, {})
    BY <1>0 DEF Agreement, AppliedOK
  <2>2. ~AcknowledgeNext
    BY <1>0 DEF AcknowledgeNext
  <2> QED BY <2>1, <2>2, CountedStays
<1>3. \A k \in Keys : ~Unsettled(journal'[k])
  <2> TAKE k \in Keys
  <2>1. ~Unsettled(journal[k])
    BY <1>0 DEF Agreement, SettledOK
  <2>2. ~RecordAnswer
    BY <1>0 DEF RecordAnswer
  <2> QED BY <1>0, <2>1, <2>2, RowMoves DEF AnswersRow
<1>4. ASSUME Due(d)
      PROVE  \A k \in Keys : Threshold(k) => ~Pending(journal'[k])
  <2> TAKE k \in Keys
  <2>1. Threshold(k) => ~Pending(journal[k])
    BY <1>0, <1>4 DEF Agreement, WaitingOK, NoneWaits
  <2>2. Threshold(k) => ~OpensReset(k)
    BY <1>0, OpensResetFacts
  <2>3. ~OpensThreshold(k)
    BY <1>0, OpensThresholdFacts
  <2> QED BY <1>0, <2>1, <2>2, <2>3, RowMoves
<1>5. \A k \in Keys : Present(journal'[k]) =>
         IF Threshold(k) THEN k.epoch <= week ELSE k.epoch < week
  BY <1>0, KeyKinds DEF NotAhead, Threshold, Reset
<1>6. \A k \in Keys : ToldRow(journal'[k]) => Present(journal'[k])
  <2> TAKE k \in Keys
  <2>1. RowOK(journal'[k])
    BY <1>0 DEF Sound, JournalOK
  <2> QED BY <2>1, RowCases DEF ToldRow
<1>7. d.arm # week => \A k \in Keys : ToldRow(journal'[k]) => k.epoch < week
  BY <1>0, <1>1, <1>5, <1>6 DEF Agrees, ToldSeen
<1>8. CASE /\ Due(d) /\ s.seen = week /\ s.last = d.arm /\ s.arm \in {week, 0}
           /\ s.notified = {} /\ s.pending = NoThreshold /\ s.prev = Full
  <2> HIDE DEF s
  <2>1. d.arm # week /\ d.arm # 0
    BY <1>0, <1>8 DEF Due
  <2>2. Blank(s) /\ NotifiedTold(s, journal', event') /\ PendingCrossed(s, week', pct')
    BY <1>8 DEF Blank, NotifiedTold, PendingCrossed
  <2>3. LevelKnown(s)
    BY <1>8, PercentFacts DEF LevelKnown
  <2>4. ResetsArmed(s, journal')
    BY <1>0, <1>5, <1>8, KeyKinds DEF ResetsArmed
  <2>5. ToldSeen(s, journal')
    BY <1>0, <1>7, <1>8, <2>1 DEF ToldSeen
  <2>6. UnsettledArmed(s, journal')
    BY <1>3 DEF UnsettledArmed
  <2>7. LiveCovers(s, journal', event') /\ WaitsBelow(s, journal', event', week')
    BY <1>3, <1>4, <1>8 DEF LiveCovers, WaitsBelow, Live
  <2>8. Counted(s, journal', event', week', {})
    <3>1. SUFFICES ASSUME NEW k \in Keys, ToldRow(journal'[k]), journal'[k].acked
                   PROVE  RowApplied(s, event', week', k)
      BY DEF Counted
    <3>2. k.epoch < week /\ s.arm # k.epoch /\ k.epoch # week
      BY <1>0, <1>7, <1>8, <2>1, <3>1
    <3>3. ~Threshold(k) => s.last >= k.epoch
      BY <1>0, <1>1, <1>6, <1>8, <2>1, <3>1, KeyKinds DEF Agrees, ResetsArmed
    <3> QED BY <1>0, <3>2, <3>3 DEF RowApplied
  <2> QED BY <2>2, <2>3, <2>4, <2>5, <2>6, <2>7, <2>8 DEF Agrees, s
<1>9. CASE /\ s.seen = week /\ s.last = d.last /\ s.arm = d.arm
           /\ s.notified = d.notified /\ s.pending = d.pending /\ s.prev = d.prev
  <2> HIDE DEF s
  <2>1. ToldSeen(s, journal')
    BY <1>0, <1>1, <1>9 DEF Agrees, ToldSeen
  <2>2. Agrees(s, journal', event', week', pct')
    BY <1>1, <1>9, <2>1 DEF Agrees, Blank, LevelKnown, NotifiedTold, PendingCrossed,
         ResetsArmed, UnsettledArmed, LiveCovers, WaitsBelow
  <2>3. Counted(s, journal', event', week', {})
    BY <1>2, <1>9 DEF Counted, RowApplied
  <2> QED BY <2>2, <2>3 DEF s
<1>10. CASE s = d
  BY <1>1, <1>2, <1>10
<1>11. CASE /\ d.arm = 0 /\ s.arm = week /\ s.seen = d.seen /\ s.last = d.last
            /\ s.notified = d.notified /\ s.pending = d.pending /\ s.prev = d.prev
  <2> HIDE DEF s
  <2>0. d.notified = {} /\ d.pending = NoThreshold /\ d.prev = Full
    BY <1>1, <1>11 DEF Agrees, Blank
  <2>1. week # 0
    BY <1>0, WeekIsNat
  <2>2. Blank(s) /\ NotifiedTold(s, journal', event') /\ PendingCrossed(s, week', pct')
    BY <1>0, <1>11, <2>0, <2>1 DEF Blank, NotifiedTold, PendingCrossed
  <2>3. LevelKnown(s)
    BY <1>11, <2>0, PercentFacts DEF LevelKnown
  <2>4. ResetsArmed(s, journal')
    BY <1>0, <1>5, <1>11, KeyKinds DEF ResetsArmed
  <2>5. ToldSeen(s, journal')
    BY <1>0, <1>1, <1>11 DEF Agrees, ToldSeen
  <2>6. UnsettledArmed(s, journal')
    BY <1>3 DEF UnsettledArmed
  <2>7. LiveCovers(s, journal', event')
    BY <1>0, <1>1, <1>11 DEF Agrees, LiveCovers
  <2>8. WaitsBelow(s, journal', event', week')
    BY <1>1, <1>11 DEF Agrees, WaitsBelow
  <2>9. Counted(s, journal', event', week', {})
    <3>1. SUFFICES ASSUME NEW k \in Keys, ToldRow(journal'[k]), journal'[k].acked
                   PROVE  RowApplied(s, event', week', k)
      BY DEF Counted
    <3>2. RowApplied(d, event', week', k)
      BY <1>2, <3>1 DEF Counted
    <3>3. s.arm # k.epoch
      BY <1>0, <1>7, <1>11, <2>1, <3>1
    <3> QED BY <1>11, <3>2, <3>3 DEF RowApplied
  <2> QED BY <2>2, <2>3, <2>4, <2>5, <2>6, <2>7, <2>8, <2>9 DEF Agrees, s
<1> QED
  <2>1. \/ /\ Due(d) /\ s.seen = week /\ s.last = d.arm /\ s.arm \in {week, 0}
           /\ s.notified = {} /\ s.pending = NoThreshold /\ s.prev = Full
        \/ /\ s.seen = week /\ s.last = d.last /\ s.arm = d.arm
           /\ s.notified = d.notified /\ s.pending = d.pending /\ s.prev = d.prev
        \/ s = d
        \/ /\ d.arm = 0 /\ s.arm = week /\ s.seen = d.seen /\ s.last = d.last
           /\ s.notified = d.notified /\ s.pending = d.pending /\ s.prev = d.prev
    BY <1>0, DetectedFields
  <2> QED BY <1>8, <1>9, <1>10, <1>11, <2>1

LEMMA MarkedAgrees ==
    ASSUME Agreement, [Next]_vars, DetectThreshold
    PROVE  LET s == Observed(Marked(poll.state))
           IN /\ Agrees(s, journal', event', week', pct')
              /\ Counted(s, journal', event', week', {})
<1> DEFINE d == poll.state
           s == Observed(Marked(poll.state))
<1>0. /\ Sound /\ Sound' /\ NotAhead /\ d \in DetectorStates
      /\ poll.at = "threshold" /\ Running /\ week' = week /\ pct' = pct
      /\ week \in Nat /\ week # 0 /\ pct \in Nat /\ pct \in 1..Full /\ d.seen \in Nat
      /\ d.arm \in Nat /\ d.seen <= week /\ poll.acks = {} /\ d.prev \in Nat
      /\ \A m \in Keys : m.epoch # 0 /\ m.epoch \in Nat
  BY SoundStep, WorldFacts, StateFacts, KeyKinds
     DEF Agreement, NotAhead, Reached, DetectThreshold, Running, service,
         Sound, PollOK, Reconciling
<1>1. Agrees(d, journal', event', week', pct')
  BY <1>0, AgreesStays
<1>2. Counted(d, journal', event', week', {})
  <2>1. Counted(d, journal, event, week, {})
    BY <1>0 DEF Agreement, AppliedOK
  <2>2. ~AcknowledgeNext
    BY <1>0 DEF AcknowledgeNext
  <2> QED BY <2>1, <2>2, CountedStays
<1>3. \A k \in Keys : ~Unsettled(journal'[k])
  <2> TAKE k \in Keys
  <2>1. ~Unsettled(journal[k])
    BY <1>0 DEF Agreement, SettledOK
  <2>2. ~RecordAnswer
    BY <1>0 DEF RecordAnswer
  <2> QED BY <1>0, <2>1, <2>2, RowMoves DEF AnswersRow
<1>4. EventsOK(journal', event', week', pct')
  <2>1. PendingCrossed(d, week, pct)
    BY <1>0 DEF Agreement, Agrees
  <2> QED BY <2>1, EventsStep DEF Agreement
<1>5. /\ s.seen = week /\ s.arm = d.arm /\ s.last = d.last /\ s.notified = d.notified
      /\ Candidates(d) = {} => s.prev = pct /\ s.pending = d.pending
      /\ Candidates(d) # {} => s.prev = d.prev /\ s.pending = Critical(d)
  BY <1>0, MarkedFields
<1>6. d.arm = 0 => /\ pct = Full
                   /\ d.notified = {} /\ d.pending = NoThreshold /\ d.prev = Full
  BY <1>0, <1>1 DEF Agreement, ThresholdOK, Agrees, Blank
<1> HIDE DEF s
<1>7. /\ NotifiedTold(s, journal', event') /\ ResetsArmed(s, journal')
      /\ UnsettledArmed(s, journal') /\ LiveCovers(s, journal', event')
  BY <1>1, <1>3, <1>5 DEF Agrees, NotifiedTold, ResetsArmed, UnsettledArmed, LiveCovers
<1>8. ToldSeen(s, journal')
  BY <1>0, <1>1, <1>5 DEF Agrees, ToldSeen
<1>9. CASE Candidates(d) = {}
  <2>1. d.pending = NoThreshold
    BY <1>9 DEF Candidates
  <2>2. Blank(s) /\ PendingCrossed(s, week', pct')
    BY <1>5, <1>6, <1>9, <2>1 DEF Blank, PendingCrossed
  <2>3. ASSUME NEW t \in Thresholds, pct <= Percent[t], t \notin d.notified
        PROVE  d.prev <= Percent[t]
    <3>1. t \notin Crossed(d)
      BY <1>9 DEF Candidates
    <3> QED BY <1>0, <2>3, <3>1, PercentFacts DEF Crossed
  <2>4. LevelKnown(s)
    BY <1>1, <1>5, <1>9, <2>3 DEF Agrees, LevelKnown
  <2>5. WaitsBelow(s, journal', event', week')
    <3>1. SUFFICES ASSUME NEW k \in Keys, Threshold(k), Pending(journal'[k]),
                          k.epoch = week', s.arm \in {0, week'}
                   PROVE  FALSE
      BY DEF WaitsBelow
    <3>2. RowOK(journal'[k]) /\ k.selector \in Thresholds
      BY <1>0, <3>1, KeyKinds DEF Sound, JournalOK
    <3>3. Present(journal'[k])
      BY <3>1, <3>2, RowCases
    <3>4. /\ k.selector \in event'[k].covered
          /\ event'[k].remaining <= Percent[k.selector] /\ pct <= event'[k].remaining
      BY <1>0, <1>4, <3>1, <3>3 DEF EventsOK
    <3>5. event'[k].remaining \in Nat
      <4>1. event' \in [Keys -> EventData]
        BY <1>0 DEF Sound, TypeOK
      <4>2. event'[k] \in EventData
        BY <4>1
      <4> QED BY <4>2, PercentFacts DEF EventData
    <3>6. Percent[k.selector] < d.prev /\ k.selector \notin d.notified
      BY <1>0, <1>1, <1>5, <3>1, <3>4 DEF Agrees, WaitsBelow
    <3>7. pct <= Percent[k.selector]
      BY <1>0, <3>2, <3>4, <3>5, PercentFacts
    <3> QED BY <1>0, <2>3, <3>2, <3>6, <3>7, PercentFacts
  <2>6. Counted(s, journal', event', week', {})
    <3>1. SUFFICES ASSUME NEW k \in Keys, ToldRow(journal'[k]), journal'[k].acked
                   PROVE  RowApplied(s, event', week', k)
      BY DEF Counted
    <3>2. RowApplied(d, event', week', k)
      BY <1>2, <3>1 DEF Counted
    <3>3. ASSUME Threshold(k), k.epoch = week, NEW t \in event'[k].covered
          PROVE  s.prev <= Percent[t]
      <4>1. RowOK(journal'[k]) /\ k.selector \in Thresholds
        BY <1>0, <3>3, KeyKinds DEF Sound, JournalOK
      <4>2. Present(journal'[k])
        BY <3>1, <4>1, RowCases DEF ToldRow
      <4>3. /\ Percent[k.selector] <= Percent[t]
            /\ event'[k].remaining <= Percent[k.selector] /\ pct <= event'[k].remaining
        BY <1>0, <1>4, <3>3, <4>2 DEF EventsOK
      <4>4. event'[k].remaining \in Nat /\ event'[k].covered \subseteq Thresholds
        <5>1. event' \in [Keys -> EventData]
          BY <1>0 DEF Sound, TypeOK
        <5>2. event'[k] \in EventData
          BY <5>1
        <5> QED BY <5>2, PercentFacts DEF EventData
      <4>5. Percent[t] \in Nat /\ Percent[k.selector] \in Nat
        BY <3>3, <4>1, <4>4, PercentFacts
      <4> QED BY <1>0, <1>5, <1>9, <4>3, <4>4, <4>5
    <3> QED BY <1>0, <1>5, <3>2, <3>3 DEF RowApplied
  <2> QED BY <1>7, <1>8, <2>2, <2>4, <2>5, <2>6 DEF Agrees, s
<1>10. CASE Candidates(d) # {}
  <2>1. d.arm # 0
    <3>1. SUFFICES ASSUME d.arm = 0 PROVE FALSE
      OBVIOUS
    <3>2. PICK t \in Thresholds : t \in Crossed(d)
      BY <1>6, <1>10, <3>1 DEF Candidates, Crossed
    <3> QED BY <1>6, <3>1, <3>2, PercentFacts DEF Crossed
  <2>2. Blank(s) /\ LevelKnown(s) /\ WaitsBelow(s, journal', event', week')
    BY <1>1, <1>5, <1>10, <2>1 DEF Agrees, Blank, LevelKnown, WaitsBelow
  <2>3. PendingCrossed(s, week', pct')
    <3>1. PendingCrossed(d, week, pct)
      BY <1>0 DEF Agreement, Agrees
    <3>2. d.arm = week =>
             pct <= Percent[Critical(d)] /\ Percent[Critical(d)] < d.prev
      BY <1>0, <1>10, <3>1, CriticalCrossed
    <3> QED BY <1>0, <1>5, <1>10, <3>2 DEF PendingCrossed
  <2>4. Counted(s, journal', event', week', {})
    BY <1>2, <1>5, <1>10 DEF Counted, RowApplied
  <2> QED BY <1>7, <1>8, <2>2, <2>3, <2>4 DEF Agrees, s
<1> QED BY <1>9, <1>10


-----------------------------------------------------------------------------
(* Where the steps of a poll lead. *)

LEMMA PollActs ==
    ASSUME Sound
    PROVE
    /\ StartPoll => /\ poll.at = "idle" /\ poll'.at = "close"
                    /\ poll'.state = Loaded(disk) /\ poll'.acks = {}
    /\ CloseDue => /\ poll.at = "close" /\ poll'.at = "reconcile" /\ poll'.then = "expire"
                   /\ poll'.state = poll.state /\ poll'.acks = {}
    /\ ReconcileRow =>
          /\ poll.at = "reconcile" /\ poll'.at = "reconcile" /\ poll'.then = poll.then
          /\ \E k \in Unread : /\ poll'.acks = poll.acks \cup {k}
                               /\ poll'.state = IF Outcome(k) THEN Applied(poll.state, k)
                                                              ELSE poll.state
    /\ ReconcileEnd => /\ poll.at = "reconcile" /\ Unread = {} /\ poll'.then = poll.then
                       /\ poll'.at = (IF poll.acks = {} THEN poll.then ELSE "persist")
                       /\ poll'.state = poll.state /\ poll'.acks = poll.acks
    /\ PersistReconciled =>
          /\ poll.at = "persist" /\ poll'.at = "acknowledge" /\ poll'.then = poll.then
          /\ poll'.state = poll.state /\ poll'.acks = poll.acks /\ disk' = poll.state
    /\ AcknowledgeNext =>
          /\ poll.at = "acknowledge" /\ poll'.then = poll.then /\ poll'.state = poll.state
          /\ \E k \in poll.acks :
                /\ journal' = [journal EXCEPT ![k].acked = TRUE]
                /\ poll'.acks = poll.acks \ {k}
                /\ poll'.at = (IF poll.acks = {k} THEN poll.then ELSE "acknowledge")
    /\ ExpireAlerts => /\ poll.at = "expire" /\ poll'.at = "reconcile"
                       /\ poll'.then = "detect"
                       /\ poll'.state = poll.state /\ poll'.acks = {}
    /\ DetectReset => /\ poll.at = "detect" /\ poll'.at = "threshold" /\ poll'.acks = {}
                      /\ poll'.due = Due(poll.state)
                      /\ poll'.state = ArmNext(RetireDue(Noted(poll.state)))
    /\ DetectThreshold =>
          /\ poll.at = "threshold" /\ poll'.at = "save" /\ poll'.acks = {}
          /\ poll'.failed = (poll.failed \/ (Registers(poll.state) /\ journal' = journal))
          /\ poll'.state = Observed(Marked(poll.state))
    /\ SaveState => /\ poll.at = "save" /\ poll'.state = poll.state /\ poll'.acks = {}
                    /\ \/ poll'.at = "due" /\ ~poll.failed /\ disk' = poll.state
                       \/ poll'.at = "finish" /\ disk' = disk
    /\ CollectDue => /\ poll.at = "due" /\ poll'.at \in {"reconcile", "send"}
                     /\ poll'.then = "finish"
                     /\ poll'.state = poll.state /\ poll'.acks = {}
    /\ (\E i \in Items, answer \in Answers : Send(i, answer)) =>
          /\ poll.at = "send" /\ poll'.at = "record" /\ poll'.then = "finish"
          /\ poll'.state = poll.state /\ poll'.acks = {}
    /\ RecordAnswer \/ SkipItem \/ RecordFails =>
          /\ poll.at \in {"send", "record"} /\ poll'.at \in {"send", "reconcile"}
          /\ poll'.then = "finish" /\ poll'.state = poll.state /\ poll'.acks = {}
    /\ GiveUpReconcile =>
          /\ poll.at \in Reconciling /\ poll.then = "finish" /\ poll'.at = "finish"
          /\ poll'.state = poll.state /\ poll'.acks = {}
    /\ FinishPoll \/ Crash => poll.at # "idle" /\ poll'.at = "idle"
<1>0. /\ poll \in PollStates
      /\ poll.at \notin Reconciling => poll.acks = {}
      /\ poll.at \in {"send", "record"} => poll.then = "finish"
  BY DEF Sound, TypeOK, PollOK
<1>1. StartPoll => /\ poll.at = "idle" /\ poll'.at = "close"
                   /\ poll'.state = Loaded(disk) /\ poll'.acks = {}
  BY DEF StartPoll, Idle
<1>2. CloseDue => /\ poll.at = "close" /\ poll'.at = "reconcile" /\ poll'.then = "expire"
                  /\ poll'.state = poll.state /\ poll'.acks = {}
  BY <1>0 DEF CloseDue, PollStates, Reconciling
<1>3. ReconcileRow =>
          /\ poll.at = "reconcile" /\ poll'.at = "reconcile" /\ poll'.then = poll.then
          /\ \E k \in Unread : /\ poll'.acks = poll.acks \cup {k}
                               /\ poll'.state = IF Outcome(k) THEN Applied(poll.state, k)
                                                              ELSE poll.state
  <2> SUFFICES ASSUME ReconcileRow
               PROVE  /\ poll.at = "reconcile" /\ poll'.at = "reconcile"
                      /\ poll'.then = poll.then
                      /\ \E k \in Unread :
                            /\ poll'.acks = poll.acks \cup {k}
                            /\ poll'.state = IF Outcome(k) THEN Applied(poll.state, k)
                                                           ELSE poll.state
    OBVIOUS
  <2>1. PICK k \in Unread :
           poll' = [poll EXCEPT !.acks = @ \cup {k},
                      !.state = IF Outcome(k) THEN Applied(@, k) ELSE @]
    BY DEF ReconcileRow
  <2>2. /\ poll'.acks = poll.acks \cup {k} /\ poll'.at = poll.at /\ poll'.then = poll.then
        /\ poll'.state = IF Outcome(k) THEN Applied(poll.state, k) ELSE poll.state
    BY <1>0, <2>1 DEF PollStates
  <2>3. poll.at = "reconcile"
    BY DEF ReconcileRow
  <2> QED BY <2>2, <2>3
<1>4. ReconcileEnd => /\ poll.at = "reconcile" /\ Unread = {} /\ poll'.then = poll.then
                      /\ poll'.at = (IF poll.acks = {} THEN poll.then ELSE "persist")
                      /\ poll'.state = poll.state /\ poll'.acks = poll.acks
  BY <1>0 DEF ReconcileEnd, PollStates
<1>5. PersistReconciled =>
          /\ poll.at = "persist" /\ poll'.at = "acknowledge" /\ poll'.then = poll.then
          /\ poll'.state = poll.state /\ poll'.acks = poll.acks /\ disk' = poll.state
  BY <1>0 DEF PersistReconciled, PollStates
<1>6. AcknowledgeNext =>
          /\ poll.at = "acknowledge" /\ poll'.then = poll.then /\ poll'.state = poll.state
          /\ \E k \in poll.acks :
                /\ journal' = [journal EXCEPT ![k].acked = TRUE]
                /\ poll'.acks = poll.acks \ {k}
                /\ poll'.at = (IF poll.acks = {k} THEN poll.then ELSE "acknowledge")
  <2> SUFFICES ASSUME AcknowledgeNext
               PROVE  /\ poll.at = "acknowledge" /\ poll'.then = poll.then
                      /\ poll'.state = poll.state
                      /\ \E k \in poll.acks :
                            /\ journal' = [journal EXCEPT ![k].acked = TRUE]
                            /\ poll'.acks = poll.acks \ {k}
                            /\ poll'.at = (IF poll.acks = {k} THEN poll.then
                                                              ELSE "acknowledge")
    OBVIOUS
  <2>1. PICK k \in poll.acks :
           /\ journal' = [journal EXCEPT ![k].acked = TRUE]
           /\ poll' = [poll EXCEPT !.acks = @ \ {k},
                         !.at = IF poll.acks = {k} THEN poll.then ELSE @]
    BY DEF AcknowledgeNext
  <2>2. poll.at = "acknowledge"
    BY DEF AcknowledgeNext
  <2>3. /\ poll'.acks = poll.acks \ {k} /\ poll'.then = poll.then
        /\ poll'.state = poll.state
        /\ poll'.at = (IF poll.acks = {k} THEN poll.then ELSE "acknowledge")
    BY <1>0, <2>1, <2>2 DEF PollStates
  <2> QED BY <2>1, <2>2, <2>3
<1>7. ExpireAlerts => /\ poll.at = "expire" /\ poll'.at = "reconcile"
                      /\ poll'.then = "detect"
                      /\ poll'.state = poll.state /\ poll'.acks = {}
  BY <1>0 DEF ExpireAlerts, PollStates, Reconciling
<1>8. DetectReset => /\ poll.at = "detect" /\ poll'.at = "threshold" /\ poll'.acks = {}
                     /\ poll'.due = Due(poll.state)
                     /\ poll'.state = ArmNext(RetireDue(Noted(poll.state)))
  BY <1>0 DEF DetectReset, PollStates, Reconciling
<1>9. DetectThreshold =>
          /\ poll.at = "threshold" /\ poll'.at = "save" /\ poll'.acks = {}
          /\ poll'.failed = (poll.failed \/ (Registers(poll.state) /\ journal' = journal))
          /\ poll'.state = Observed(Marked(poll.state))
  BY <1>0 DEF DetectThreshold, Marked, PollStates, Reconciling
<1>10. SaveState => /\ poll.at = "save" /\ poll'.state = poll.state /\ poll'.acks = {}
                    /\ \/ poll'.at = "due" /\ ~poll.failed /\ disk' = poll.state
                       \/ poll'.at = "finish" /\ disk' = disk
  BY <1>0 DEF SaveState, PollStates, Reconciling
<1>11. CollectDue => /\ poll.at = "due" /\ poll'.at \in {"reconcile", "send"}
                     /\ poll'.then = "finish"
                     /\ poll'.state = poll.state /\ poll'.acks = {}
  BY <1>0 DEF CollectDue, PollStates, Reconciling
<1>12. (\E i \in Items, answer \in Answers : Send(i, answer)) =>
          /\ poll.at = "send" /\ poll'.at = "record" /\ poll'.then = "finish"
          /\ poll'.state = poll.state /\ poll'.acks = {}
  BY <1>0 DEF Send, PollStates, Reconciling
<1>13. RecordAnswer \/ SkipItem \/ RecordFails =>
          /\ poll.at \in {"send", "record"} /\ poll'.at \in {"send", "reconcile"}
          /\ poll'.then = "finish" /\ poll'.state = poll.state /\ poll'.acks = {}
  <2> SUFFICES ASSUME RecordAnswer \/ SkipItem \/ RecordFails
               PROVE  /\ poll.at \in {"send", "record"} /\ poll'.at \in {"send", "reconcile"}
                      /\ poll'.then = "finish" /\ poll'.state = poll.state
                      /\ poll'.acks = {}
    OBVIOUS
  <2>1. poll.at \in {"send", "record"} /\ poll.then = "finish" /\ poll.acks = {}
    BY <1>0 DEF RecordAnswer, SkipItem, RecordFails, Reconciling
  <2>2. CASE RecordAnswer /\ TriesAgain
    BY <1>0, <2>1, <2>2 DEF RecordAnswer, PollStates
  <2>3. CASE \E i : poll' = Proceed(i)
    <3>1. PICK i : poll' = Proceed(i)
      BY <2>3
    <3>2. TypeOK
      BY DEF Sound
    <3>3. /\ poll'.at = (IF poll.queue = {i} THEN "reconcile" ELSE "send")
          /\ poll'.then = poll.then /\ poll'.acks = poll.acks /\ poll'.state = poll.state
      BY <3>1, <3>2, ProceedFacts
    <3> QED BY <2>1, <3>3
  <2> QED BY <2>2, <2>3 DEF RecordAnswer, SkipItem, RecordFails
<1>14. GiveUpReconcile =>
          /\ poll.at \in Reconciling /\ poll.then = "finish" /\ poll'.at = "finish"
          /\ poll'.state = poll.state /\ poll'.acks = {}
  BY <1>0 DEF GiveUpReconcile, PollStates, Reconciling
<1>15. FinishPoll \/ Crash => poll.at # "idle" /\ poll'.at = "idle"
  BY DEF FinishPoll, Crash, Idle
<1> QED BY <1>1, <1>2, <1>3, <1>4, <1>5, <1>6, <1>7, <1>8, <1>9, <1>10, <1>11, <1>12,
           <1>13, <1>14, <1>15

(* Between two steps of a poll the world stands still. *)
LEMMA PollFrame ==
    ASSUME Sound, [Next]_vars, Running'
    PROVE  /\ week' = week /\ pct' = pct /\ recent' = recent
           /\ \/ UNCHANGED <<poll, disk, journal, event>> /\ Running
              \/ /\ StartPoll \/ CloseDue \/ ReconcileRow \/ ReconcileEnd
                      \/ AcknowledgeNext \/ ExpireAlerts \/ DetectReset
                      \/ DetectThreshold \/ CollectDue \/ RecordAnswer \/ SkipItem
                      \/ RecordFails \/ GiveUpReconcile
                      \/ \E i \in Items, answer \in Answers : Send(i, answer)
                 /\ disk' = disk
              \/ PersistReconciled \/ SaveState
<1>1. ASSUME UseQuota \/ NextWeek \/ SampleAges \/ \E i \in Items : WaitOver(i)
      PROVE  FALSE
  BY <1>1 DEF UseQuota, NextWeek, SampleAges, WaitOver, Running
<1>2. ASSUME FinishPoll \/ Crash PROVE FALSE
  BY <1>2, PollActs DEF Running
<1>3. StartPoll \/ CloseDue \/ ReconcileRow \/ ReconcileEnd \/ AcknowledgeNext
        \/ ExpireAlerts \/ DetectReset
        => week' = week /\ pct' = pct /\ recent' = recent /\ disk' = disk
  BY DEF StartPoll, CloseDue, ReconcileRow, ReconcileEnd, AcknowledgeNext, ExpireAlerts,
         DetectReset, service, stores
<1>4. DetectThreshold \/ CollectDue \/ RecordAnswer \/ SkipItem \/ RecordFails
        \/ GiveUpReconcile \/ (\E i \in Items, answer \in Answers : Send(i, answer))
        => week' = week /\ pct' = pct /\ recent' = recent /\ disk' = disk
  BY DEF DetectThreshold, CollectDue, RecordAnswer, SkipItem, RecordFails,
         GiveUpReconcile, Send, service, stores
<1>5. PersistReconciled \/ SaveState => week' = week /\ pct' = pct /\ recent' = recent
  BY DEF PersistReconciled, SaveState, service
<1>6. UNCHANGED vars => /\ UNCHANGED <<poll, disk, journal, event>> /\ Running
                        /\ week' = week /\ pct' = pct /\ recent' = recent
  BY DEF vars, Running
<1> QED BY <1>1, <1>2, <1>3, <1>4, <1>5, <1>6 DEF Next, Progress, Failure


(* The state file after a step. *)
LEMMA DiskStep ==
    ASSUME Agreement, [Next]_vars
    PROVE  /\ Agrees(disk, journal, event, week, pct)'
           /\ Counted(disk, journal, event, week, {})'
           /\ poll'.at = "acknowledge" =>
                 Counted(disk, journal, event, week, poll.acks)'
<1>0. /\ Sound /\ disk \in DetectorStates /\ poll.state \in DetectorStates
      /\ \A k \in poll.acks : Terminal(journal[k])
      /\ Counted(disk, journal, event, week, {})
      /\ Running => Counted(poll.state, journal, event, week, poll.acks)
      /\ poll.at = "acknowledge" => Counted(disk, journal, event, week, poll.acks)
  BY WorldFacts DEF Agreement, AppliedOK, Sound, PollOK
<1>1. CASE /\ PersistReconciled \/ (SaveState /\ poll'.at = "due") \/ FinishPoll
           /\ disk' = poll.state
  <2>1. Running /\ ~AcknowledgeNext
    BY <1>1 DEF PersistReconciled, SaveState, FinishPoll, Running, AcknowledgeNext
  <2>2. Agrees(poll.state, journal', event', week', pct')
    BY <1>0, <2>1, AgreesStays
  <2>3. Counted(poll.state, journal', event', week', poll.acks)
    BY <1>0, <2>1, CountedStays
  <2>4. Counted(poll.state, journal', event', week', {})
    BY <2>3, CountedLess
  <2>5. poll'.at = "acknowledge" => poll'.acks = poll.acks
    BY <1>0, <1>1, PollActs
  <2> QED BY <1>1, <2>2, <2>3, <2>4, <2>5
<1>2. CASE disk' = disk /\ poll.at = "acknowledge" /\ poll'.acks \subseteq poll.acks
  <2>1. Agrees(disk, journal', event', week', pct')
    BY <1>0, AgreesStays
  <2>2. Counted(disk, journal', event', week', poll.acks)
    BY <1>0, <1>2, CountedStays
  <2>3. /\ Counted(disk, journal', event', week', {})
        /\ Counted(disk, journal', event', week', poll'.acks)
    BY <1>2, <2>2, CountedLess
  <2> QED BY <1>2, <2>1, <2>3
<1>3. CASE disk' = disk /\ ~AcknowledgeNext /\ poll'.at # "acknowledge"
  <2>1. Agrees(disk, journal', event', week', pct')
    BY <1>0, AgreesStays
  <2>2. Counted(disk, journal', event', week', {})
    BY <1>0, <1>3, CountedStays
  <2> QED BY <1>3, <2>1, <2>2
<1>4. CASE disk' = disk /\ AcknowledgeNext
  <2>1. poll.at = "acknowledge" /\ poll'.acks \subseteq poll.acks
    BY <1>0, <1>4, PollActs
  <2> QED BY <1>2, <1>4, <2>1
<1>5. CASE disk' = disk /\ ~AcknowledgeNext /\ poll'.at = "acknowledge"
  <2>1. Running'
    BY <1>5 DEF Running
  <2>2. PersistReconciled \/ poll' = poll
    <3>1. ~StartPoll /\ ~CloseDue /\ ~ReconcileRow /\ ~ReconcileEnd /\ ~ExpireAlerts
            /\ ~DetectReset /\ ~DetectThreshold /\ ~CollectDue /\ ~SaveState
      <4>1. poll.at = "reconcile" => poll.then # "acknowledge"
        BY <1>0 DEF Sound, PollOK, Reconciling
      <4> QED BY <1>0, <1>5, <4>1, PollActs
    <3>2. ~RecordAnswer /\ ~SkipItem /\ ~RecordFails /\ ~GiveUpReconcile
            /\ ~(\E i \in Items, answer \in Answers : Send(i, answer))
      BY <1>0, <1>5, PollActs
    <3> QED BY <1>0, <1>5, <2>1, <3>1, <3>2, PollFrame
  <2>3. CASE PersistReconciled
    <3>1. disk' = poll.state
      BY <2>3 DEF PersistReconciled
    <3> QED BY <1>1, <2>3, <3>1
  <2>4. CASE poll' = poll
    BY <1>2, <1>5, <2>4
  <2> QED BY <2>2, <2>3, <2>4
<1> QED BY <1>0, <1>1, <1>3, <1>4, <1>5, DiskMoves

(* The memory of the poll after a step. *)
LEMMA StateStep ==
    ASSUME Agreement, [Next]_vars, Running'
    PROVE  /\ Agrees(poll.state, journal, event, week, pct)'
           /\ Counted(poll.state, journal, event, week, poll.acks)'
<1>0. /\ Sound /\ disk \in DetectorStates /\ poll.state \in DetectorStates
      /\ \A k \in poll.acks : Terminal(journal[k])
      /\ Running => Counted(poll.state, journal, event, week, poll.acks)
  BY WorldFacts DEF Agreement, AppliedOK, Sound, PollOK
<1>1. CASE StartPoll
  <2>1. poll'.state = Loaded(disk) /\ poll'.acks = {}
    BY <1>0, <1>1, PollActs
  <2>2. journal' = journal /\ event' = event /\ week' = week /\ pct' = pct
    BY <1>1 DEF StartPoll, service, stores
  <2> QED BY <2>1, <2>2, LoadedAgrees
<1>2. CASE ReconcileRow
  <2>1. PICK k \in Unread :
           /\ poll'.acks = poll.acks \cup {k}
           /\ poll'.state = IF Outcome(k) THEN Applied(poll.state, k) ELSE poll.state
    BY <1>0, <1>2, PollActs
  <2>2. journal' = journal /\ event' = event /\ week' = week /\ pct' = pct /\ Running
    BY <1>2 DEF ReconcileRow, service, stores, Running
  <2>3. CASE Outcome(k)
    <3>1. poll'.state = Applied(poll.state, k)
      BY <2>1, <2>3
    <3> QED BY <2>1, <2>2, <2>3, <3>1, AppliedAgrees
  <2>4. CASE ~Outcome(k)
    <3>1. k \in Keys /\ ~ToldRow(journal[k])
      BY <2>1, <2>4 DEF Outcome, TerminationReasons, ToldRow, Unread, Unacknowledged
    <3>2. Agrees(poll.state, journal, event, week, pct)
      BY <2>2 DEF Agreement
    <3>3. Counted(poll.state, journal, event, week, poll.acks \cup {k})
      BY <1>0, <2>2, <3>1 DEF Counted
    <3> QED BY <2>1, <2>2, <2>4, <3>2, <3>3
  <2> QED BY <2>3, <2>4
<1>3. CASE DetectReset
  <2>1. poll'.acks = {} /\ poll'.state = ArmNext(RetireDue(Noted(poll.state)))
    BY <1>0, <1>3, PollActs
  <2> QED BY <1>3, <2>1, DetectedAgrees
<1>4. CASE DetectThreshold
  <2>1. poll'.acks = {} /\ poll'.state = Observed(Marked(poll.state))
    BY <1>0, <1>4, PollActs
  <2> QED BY <1>4, <2>1, MarkedAgrees
<1>5. CASE Running /\ poll'.state = poll.state /\ poll'.acks \subseteq poll.acks
  <2>1. Agrees(poll.state, journal', event', week', pct')
    BY <1>0, <1>5, AgreesStays
  <2>2. Counted(poll.state, journal', event', week', poll.acks)
    BY <1>0, <1>5, CountedStays
  <2>3. Counted(poll.state, journal', event', week', poll'.acks)
    BY <1>5, <2>2, CountedLess
  <2> QED BY <1>5, <2>1, <2>3
<1>6. ASSUME ~StartPoll, ~ReconcileRow, ~DetectReset, ~DetectThreshold
      PROVE  Running /\ poll'.state = poll.state /\ poll'.acks \subseteq poll.acks
  <2>1. CASE CloseDue \/ ReconcileEnd \/ PersistReconciled \/ ExpireAlerts
               \/ SaveState \/ CollectDue
    BY <1>0, <2>1, PollActs DEF Running
  <2>2. CASE AcknowledgeNext \/ GiveUpReconcile
    BY <1>0, <2>2, PollActs DEF Running, Reconciling
  <2>3. CASE \/ RecordAnswer \/ SkipItem \/ RecordFails
             \/ \E i \in Items, answer \in Answers : Send(i, answer)
    BY <1>0, <2>3, PollActs DEF Running
  <2>4. CASE UNCHANGED <<poll, disk, journal, event>> /\ Running
    BY <2>4
  <2> QED BY <1>0, <1>6, <2>1, <2>2, <2>3, <2>4, PollFrame
<1> QED BY <1>1, <1>2, <1>3, <1>4, <1>5, <1>6

LEMMA AppliedStep ==
    ASSUME Agreement, [Next]_vars
    PROVE  AppliedOK'
BY DiskStep, StateStep DEF AppliedOK


-----------------------------------------------------------------------------
(* The points of a poll. *)

LEMMA CopiesStep ==
    ASSUME Agreement, [Next]_vars
    PROVE  CopiesOK'
<1>0. /\ Sound /\ CopiesOK /\ week \in Nat
      /\ disk \in DetectorStates /\ poll.state \in DetectorStates
      /\ disk.seen \in Nat /\ poll.state.seen \in Nat /\ disk.seen <= week
  BY WorldFacts, StateFacts DEF Agreement, NotAhead, Reached
<1>1. CASE ~Running'
  BY <1>1 DEF CopiesOK, Running, Fresh, Delivering, SeenNow, Reconciling
<1>2. CASE Running'
  <2>0. week' = week /\ recent' = recent
    BY <1>0, <1>2, PollFrame
  <2>1. disk' = disk => (Loaded(disk))' = Loaded(disk)
    BY <2>0 DEF Loaded
  <2>2. CASE UNCHANGED <<poll, disk, journal, event>> /\ Running
    BY <1>0, <2>0, <2>1, <2>2 DEF CopiesOK, Running, Fresh, Delivering, SeenNow
  <2>3. CASE StartPoll /\ disk' = disk
    <3>1. poll'.at = "close" /\ poll'.state = Loaded(disk)
      BY <1>0, <2>3, PollActs
    <3>2. poll'.state.seen = disk.seen
      BY <1>0, <3>1, LoadedFields
    <3> QED BY <1>0, <2>1, <2>3, <3>1, <3>2
         DEF CopiesOK, Fresh, Delivering, SeenNow, Reconciling
  <2>4. CASE (CloseDue \/ ExpireAlerts) /\ disk' = disk
    <3>1. /\ poll.at \in {"close", "expire"} /\ poll'.at = "reconcile"
          /\ poll'.then \in {"expire", "detect"} /\ poll'.state = poll.state
      BY <1>0, <2>4, PollActs
    <3> QED BY <1>0, <2>1, <2>4, <3>1
         DEF CopiesOK, Running, Fresh, Delivering, SeenNow, Reconciling
  <2>5. CASE ReconcileRow /\ disk' = disk
    <3>1. /\ poll.at = "reconcile" /\ poll'.at = "reconcile" /\ poll'.then = poll.then
          /\ \E k \in Unread : /\ poll'.acks = poll.acks \cup {k}
                               /\ poll'.state = IF Outcome(k) THEN Applied(poll.state, k)
                                                              ELSE poll.state
      BY <1>0, <2>5, PollActs
    <3>2. PICK k \in Unread : /\ poll'.acks = poll.acks \cup {k}
                              /\ poll'.state \in {Applied(poll.state, k), poll.state}
      BY <3>1
    <3>3. k \in Keys /\ (k.kind = "threshold" \/ k.kind = "reset")
      BY KeyKinds DEF Unread, Unacknowledged, Threshold, Reset
    <3>4. Applied(poll.state, k).seen = poll.state.seen
      BY <1>0, <3>3, AppliedThreshold, AppliedReset
    <3>5. poll'.state.seen = poll.state.seen /\ poll'.acks # {}
      BY <3>2, <3>4
    <3> QED BY <1>0, <2>0, <2>5, <3>1, <3>5
         DEF CopiesOK, Running, Fresh, Delivering, SeenNow, Reconciling
  <2>6. CASE ReconcileEnd /\ disk' = disk
    <3>1. /\ poll.at = "reconcile" /\ poll'.then = poll.then
          /\ poll'.at = (IF poll.acks = {} THEN poll.then ELSE "persist")
          /\ poll'.state = poll.state /\ poll'.acks = poll.acks
      BY <1>0, <2>6, PollActs
    <3>2. poll.then \in {"expire", "detect", "finish"}
      BY <1>0, <3>1 DEF Sound, PollOK, Reconciling
    <3>3. CASE poll.acks = {}
      BY <1>0, <2>0, <2>1, <2>6, <3>1, <3>2, <3>3
         DEF CopiesOK, Running, Fresh, Delivering, SeenNow, Reconciling
    <3>4. CASE poll.acks # {}
      BY <1>0, <2>0, <2>6, <3>1, <3>2, <3>4
         DEF CopiesOK, Running, Fresh, Delivering, SeenNow, Reconciling
    <3> QED BY <3>3, <3>4
  <2>7. CASE PersistReconciled
    <3>1. /\ poll.at = "persist" /\ poll'.at = "acknowledge" /\ poll'.then = poll.then
          /\ poll'.state = poll.state /\ disk' = poll.state
      BY <1>0, <2>7, PollActs
    <3> QED BY <1>0, <2>0, <3>1
         DEF CopiesOK, Running, Fresh, Delivering, SeenNow, Reconciling
  <2>8. CASE AcknowledgeNext /\ disk' = disk
    <3>1. /\ poll.at = "acknowledge" /\ poll'.then = poll.then /\ poll'.state = poll.state
          /\ poll'.at \in {poll.then, "acknowledge"}
      BY <1>0, <2>8, PollActs
    <3>2. poll.then \in {"expire", "detect", "finish"}
      BY <1>0, <3>1 DEF Sound, PollOK, Reconciling
    <3> QED BY <1>0, <2>0, <2>1, <2>8, <3>1, <3>2
         DEF CopiesOK, Running, Fresh, Delivering, SeenNow, Reconciling
  <2>9. CASE DetectReset /\ disk' = disk
    <3>1. /\ poll.at = "detect" /\ poll'.at = "threshold"
          /\ poll'.state = ArmNext(RetireDue(Noted(poll.state)))
      BY <1>0, <2>9, PollActs
    <3>2. week \in Weeks /\ pct \in 1..Full
      BY <1>0, WorldFacts
    <3>3. poll'.state.seen \in {poll.state.seen, week}
      BY <1>0, <3>1, <3>2, DetectedFields
    <3> QED BY <1>0, <2>9, <3>1, <3>3
         DEF CopiesOK, Running, Fresh, Delivering, SeenNow, Reconciling
  <2>10. CASE DetectThreshold /\ disk' = disk
    <3>1. poll'.at = "save" /\ poll'.state = Observed(Marked(poll.state))
      BY <1>0, <2>10, PollActs
    <3>2. pct \in 1..Full
      BY <1>0, WorldFacts
    <3>3. poll'.state.seen = week
      BY <1>0, <3>1, <3>2, MarkedFields
    <3> QED BY <1>0, <2>0, <2>10, <3>1, <3>3
         DEF CopiesOK, Running, Fresh, Delivering, SeenNow, Reconciling
  <2>11. CASE SaveState
    <3>1. /\ poll.at = "save" /\ poll'.state = poll.state
          /\ \/ poll'.at = "due" /\ disk' = poll.state
             \/ poll'.at = "finish" /\ disk' = disk
      BY <1>0, <2>11, PollActs
    <3> QED BY <1>0, <2>0, <3>1
         DEF CopiesOK, Running, Fresh, Delivering, SeenNow, Reconciling
  <2>12. CASE /\ \/ CollectDue \/ RecordAnswer \/ SkipItem \/ RecordFails
                 \/ \E i \in Items, answer \in Answers : Send(i, answer)
              /\ disk' = disk
    <3>1. /\ poll.at \in {"due", "send", "record"} /\ poll'.then = "finish"
          /\ poll'.at \in {"send", "record", "reconcile"}
          /\ poll'.state = poll.state
      BY <1>0, <2>12, PollActs
    <3> QED BY <1>0, <2>0, <2>12, <3>1
         DEF CopiesOK, Running, Fresh, Delivering, SeenNow, Reconciling
  <2>13. CASE GiveUpReconcile /\ disk' = disk
    <3>1. /\ poll.at \in Reconciling /\ poll.then = "finish" /\ poll'.at = "finish"
          /\ poll'.state = poll.state
      BY <1>0, <2>13, PollActs
    <3> QED BY <1>0, <2>0, <2>13, <3>1
         DEF CopiesOK, Running, Fresh, Delivering, SeenNow, Reconciling
  <2> QED BY <1>0, <1>2, <2>2, <2>3, <2>4, <2>5, <2>6, <2>7, <2>8, <2>9, <2>10, <2>11,
             <2>12, <2>13, PollFrame
<1> QED BY <1>1, <1>2

(* The steps after which the poll is at a point between the detection and the
   deliveries. *)
LEMMA PointMoves ==
    ASSUME Sound, [Next]_vars, Running'
    PROVE  /\ poll'.at = "detect" =>
                \/ UNCHANGED <<poll, disk, journal, event>>
                \/ ReconcileEnd /\ poll.acks = {} /\ poll.then = "detect"
                \/ AcknowledgeNext
           /\ poll'.at = "threshold" =>
                UNCHANGED <<poll, disk, journal, event>> \/ DetectReset
           /\ poll'.at = "save" =>
                UNCHANGED <<poll, disk, journal, event>> \/ DetectThreshold
           /\ poll'.at = "due" =>
                UNCHANGED <<poll, disk, journal, event>> \/ SaveState
           /\ poll'.at = "persist" =>
                UNCHANGED <<poll, disk, journal, event>> \/ ReconcileEnd
           /\ poll'.at = "acknowledge" =>
                UNCHANGED <<poll, disk, journal, event>> \/ PersistReconciled
                \/ AcknowledgeNext
           /\ poll'.at \in {"send", "record"} =>
                UNCHANGED <<poll, disk, journal, event>>
                \/ (poll.at \in {"due", "send", "record"} /\ poll'.state = poll.state)
<1>0. poll.at \in Reconciling => poll.then \in {"expire", "detect", "finish"}
  BY DEF Sound, PollOK
<1>1. CASE \/ UNCHANGED <<poll, disk, journal, event>>
           \/ PersistReconciled \/ SaveState \/ AcknowledgeNext
  BY <1>0, <1>1, PollActs DEF Reconciling
<1>2. CASE ReconcileEnd
  BY <1>0, <1>2, PollActs DEF Reconciling
<1>3. CASE \/ StartPoll \/ CloseDue \/ ReconcileRow \/ ExpireAlerts \/ DetectReset
           \/ DetectThreshold
  BY <1>3, PollActs
<1>4. CASE \/ CollectDue \/ RecordAnswer \/ SkipItem \/ RecordFails
           \/ GiveUpReconcile
           \/ \E i \in Items, answer \in Answers : Send(i, answer)
  BY <1>4, PollActs
<1> QED BY <1>1, <1>2, <1>3, <1>4, PollFrame

LEMMA ThresholdStep ==
    ASSUME Agreement, [Next]_vars
    PROVE  ThresholdOK'
<1> DEFINE d == poll.state
<1>1. SUFFICES ASSUME poll'.at = "threshold" PROVE ThresholdOK'
  BY DEF ThresholdOK
<1>2. Running' /\ Sound
  BY <1>1 DEF Running, Agreement
<1>3. week' = week /\ pct' = pct
  BY <1>2, PollFrame
<1>4. CASE UNCHANGED <<poll, disk, journal, event>>
  BY <1>1, <1>3, <1>4 DEF Agreement, ThresholdOK, Due
<1>5. CASE DetectReset
  <2> DEFINE s == poll'.state
  <2>1. /\ poll.at = "detect" /\ s = ArmNext(RetireDue(Noted(d))) /\ poll'.due = Due(d)
    BY <1>2, <1>5, PollActs
  <2>2. /\ disk' = disk /\ week \in Weeks /\ week \in Nat /\ week # 0 /\ pct \in 1..Full
        /\ pct \in Nat /\ Full \in Nat /\ pct <= Full
        /\ d \in DetectorStates /\ disk \in DetectorStates
        /\ d.arm \in Nat /\ d.arm <= week /\ disk.arm \in Nat
        /\ Blank(d) /\ Blank(disk)
    BY <1>2, <1>5, <2>1, WorldFacts, StateFacts, PercentFacts
       DEF DetectReset, Agreement, Agrees, NotAhead, Reached, Running
  <2>3. /\ d = disk \/ d = Loaded(disk)
        /\ d # disk => disk.arm = 0 /\ d.arm = disk.seen /\ d.arm < week
    BY <2>1, <2>2, LoadedFields DEF Agreement, CopiesOK, Fresh
  <2>4. /\ d.notified # {} => d = disk /\ d.arm # 0
    BY <2>2, <2>3, LoadedFields DEF Blank
  <2>5. \/ /\ Due(d) /\ s.arm = (IF pct < Full THEN week ELSE 0)
           /\ s.notified = {} /\ s.pending = NoThreshold
        \/ /\ Due(d) /\ s.arm = d.arm /\ s.notified = d.notified
        \/ /\ ~Due(d) /\ s.notified = d.notified
           /\ s.arm = (IF d.arm = 0 /\ pct < Full THEN week ELSE d.arm)
           /\ s.arm = d.arm => s = d
    BY <2>1, <2>2, DetectedFields
  <2> HIDE DEF s
  <2>6. disk.arm = week => s = disk
    <3>1. SUFFICES ASSUME disk.arm = week PROVE s = disk
      OBVIOUS
    <3>2. d = disk /\ ~Due(d) /\ d.arm # 0
      BY <2>2, <2>3, <3>1 DEF Due
    <3> QED BY <2>5, <3>2
  <2>7. s.notified # {} => s.notified = disk.notified /\ s.arm = disk.arm
    BY <2>2, <2>4, <2>5
  <2>8. s.arm = 0 => pct = Full
    BY <2>2, <2>5 DEF Due
  <2>9. Due(d) => Due(s) \/ s.pending = NoThreshold
    BY <2>2, <2>5 DEF Due
  <2>10. (Due(poll.state))' <=> Due(s)
    BY <1>3 DEF Due, s
  <2> QED BY <1>3, <2>1, <2>2, <2>6, <2>7, <2>8, <2>9, <2>10 DEF ThresholdOK, s
<1> QED BY <1>1, <1>2, <1>4, <1>5, PointMoves

LEMMA SettledStep ==
    ASSUME Agreement, [Next]_vars
    PROVE  SettledOK'
<1>0. Sound /\ SettledOK /\ JournalOK(journal) /\ \A k \in poll.acks : Terminal(journal[k])
  BY DEF Agreement, Sound, PollOK
<1>1. \A k \in Keys : Unsettled(journal[k]) => k \in Unacknowledged
  BY <1>0, RowFacts DEF Unsettled, Unacknowledged
<1>2. ASSUME poll'.at \in {"detect", "threshold", "save", "due"}, NEW k \in Keys,
             Unsettled(journal'[k])
      PROVE  FALSE
  <2>0. Running' /\ Sound
    BY <1>0, <1>2 DEF Running
  <2>1. ASSUME ~RecordAnswer PROVE Unsettled(journal[k])
    BY <1>0, <1>2, <2>1, RowMoves DEF AnswersRow
  <2>2. CASE UNCHANGED <<poll, disk, journal, event>>
    BY <1>0, <1>2, <2>2 DEF SettledOK
  <2>3. CASE ReconcileEnd /\ poll.acks = {}
    <3>1. Unacknowledged = {}
      BY <2>3 DEF ReconcileEnd, Unread
    <3>2. ~RecordAnswer
      BY <2>3 DEF ReconcileEnd, RecordAnswer
    <3> QED BY <1>1, <2>1, <3>1, <3>2
  <2>4. CASE AcknowledgeNext
    <3>1. PICK m \in poll.acks :
             /\ journal' = [journal EXCEPT ![m].acked = TRUE]
             /\ poll'.at = (IF poll.acks = {m} THEN poll.then ELSE "acknowledge")
      BY <1>0, <2>4, PollActs
    <3>2. poll.at = "acknowledge" /\ ~RecordAnswer
      BY <2>4 DEF AcknowledgeNext, RecordAnswer
    <3>3. poll.acks = {m}
      BY <1>2, <3>1
    <3>4. k = m
      BY <1>0, <1>1, <2>1, <3>2, <3>3 DEF SettledOK
    <3>5. journal'[m].acked
      BY <1>0, <3>1, AcknowledgeEffect DEF Sound
    <3> QED BY <1>2, <3>4, <3>5 DEF Unsettled
  <2>5. CASE DetectReset \/ DetectThreshold \/ SaveState
    <3>1. poll.at \in {"detect", "threshold", "save"} /\ ~RecordAnswer
      BY <2>5 DEF DetectReset, DetectThreshold, SaveState, RecordAnswer
    <3> QED BY <1>0, <2>1, <3>1 DEF SettledOK
  <2> QED BY <1>2, <2>0, <2>2, <2>3, <2>4, <2>5, PointMoves
<1>3. ASSUME poll'.at \in {"persist", "acknowledge"} PROVE Unacknowledged' \subseteq poll'.acks
  <2>0. Running'
    BY <1>3 DEF Running
  <2>1. CASE UNCHANGED <<poll, disk, journal, event>>
    <3>1. Unacknowledged' = Unacknowledged
      BY <2>1 DEF Unacknowledged
    <3> QED BY <1>0, <1>3, <2>1, <3>1 DEF SettledOK
  <2>2. CASE ReconcileEnd
    <3>1. Unread = {} /\ poll'.acks = poll.acks /\ journal' = journal
      BY <1>0, <2>2, PollActs DEF ReconcileEnd, stores
    <3>2. Unacknowledged' = Unacknowledged
      BY <3>1 DEF Unacknowledged
    <3> QED BY <3>1, <3>2 DEF Unread
  <2>3. CASE PersistReconciled
    <3>1. poll.at = "persist" /\ poll'.acks = poll.acks /\ journal' = journal
      BY <1>0, <2>3, PollActs DEF PersistReconciled
    <3>2. Unacknowledged' = Unacknowledged
      BY <3>1 DEF Unacknowledged
    <3> QED BY <1>0, <3>1, <3>2 DEF SettledOK
  <2>4. CASE AcknowledgeNext
    <3>1. PICK m \in poll.acks :
             /\ journal' = [journal EXCEPT ![m].acked = TRUE]
             /\ poll'.acks = poll.acks \ {m}
      BY <1>0, <2>4, PollActs
    <3>2. poll.at = "acknowledge"
      BY <2>4 DEF AcknowledgeNext
    <3>3. /\ journal'[m].acked
          /\ \A k \in Keys \ {m} : journal'[k] = journal[k]
      BY <1>0, <3>1, AcknowledgeEffect DEF Sound
    <3>4. ASSUME NEW k \in Unacknowledged' PROVE k \in poll'.acks
      <4>1. k \in Keys /\ Terminal(journal'[k]) /\ ~journal'[k].acked
        BY <3>4 DEF Unacknowledged
      <4>2. k # m /\ k \in Unacknowledged
        BY <3>3, <4>1 DEF Unacknowledged
      <4> QED BY <1>0, <3>1, <3>2, <4>2 DEF SettledOK
    <3> QED BY <3>4
  <2> QED BY <1>0, <1>3, <2>0, <2>1, <2>2, <2>3, <2>4, PointMoves
<1> QED BY <1>2, <1>3 DEF SettledOK


(* A threshold that waits before the detection of thresholds is of the armed
   week, and this sample has crossed it. *)
LEMMA WaitsCrossed ==
    ASSUME Agreement, poll.at = "threshold", NEW k \in Keys, Threshold(k),
           Pending(journal[k])
    PROVE  /\ poll.state.arm = week /\ k.epoch = week
           /\ k.selector \in Crossed(poll.state)
           /\ k.selector \in Candidates(poll.state)
<1> DEFINE d == poll.state
<1>0. /\ Sound /\ NotAhead /\ Running /\ Expires /\ d \in DetectorStates
      /\ WaitsBelow(d, journal, event, week) /\ pct \in Nat
  BY WorldFacts DEF Agreement, Agrees, Running, Expires
<1>1. d.arm = week
  BY <1>0 DEF Agreement, WaitingOK, NoneWaits
<1>2. k.epoch = week
  BY <1>0, WaitingEpoch
<1>3. /\ k.selector \in event[k].covered
      /\ event[k].remaining <= Percent[k.selector] /\ pct <= event[k].remaining
      /\ event[k].remaining \in Nat
  BY <1>0, <1>2, RowFacts, WorldFacts DEF Agreement, EventsOK
<1>4. Percent[k.selector] < d.prev /\ k.selector \notin d.notified
  BY <1>0, <1>1, <1>2, <1>3 DEF WaitsBelow
<1>5. k.selector \in Thresholds /\ Percent[k.selector] \in Nat
  BY KeyKinds, PercentFacts
<1>6. k.selector \in Crossed(d)
  BY <1>0, <1>3, <1>4, <1>5 DEF Crossed
<1> QED BY <1>1, <1>2, <1>6 DEF Candidates

(* A candidate that is not registered is known: its week is about to be
   closed, or its row waits. *)
LEMMA SettledRow ==
    ASSUME Agreement, poll.at = "threshold", Candidates(poll.state) # {},
           Settled(poll.state)
    PROVE  \/ Due(poll.state)
           \/ \E m \in Keys : /\ Threshold(m) /\ Pending(journal[m])
                              /\ m.selector = Critical(poll.state) /\ m.epoch = week
<1> DEFINE d == poll.state
<1>0. /\ Running /\ d \in DetectorStates /\ Blank(d) /\ ThresholdOK
      /\ Critical(d) \in Thresholds
  BY WorldFacts, CriticalFacts DEF Agreement, Agrees, Running
<1>1. \A t \in Thresholds, e \in Weeks :
         /\ ThresholdKey(t, e) \in Keys /\ Threshold(ThresholdKey(t, e))
         /\ ThresholdKey(t, e).selector = t
  BY ThresholdKeyIsKey DEF ThresholdKey, Threshold
<1>2. CASE Critical(d) = d.pending /\ poll.due
  <2>1. d.pending # NoThreshold
    BY <1>0, <1>2, WeeklyAssumption, Zenon DEF WeeklyAssumption
  <2> QED BY <1>0, <1>2, <2>1 DEF ThresholdOK
<1>3. CASE \E e \in Weeks : /\ Critical(d) = d.pending
                            /\ Pending(journal[ThresholdKey(d.pending, e)])
  <2>1. PICK e \in Weeks : Pending(journal[ThresholdKey(Critical(d), e)])
    BY <1>3
  <2>2. /\ ThresholdKey(Critical(d), e) \in Keys
        /\ Threshold(ThresholdKey(Critical(d), e))
        /\ ThresholdKey(Critical(d), e).selector = Critical(d)
    BY <1>0, <1>1, <2>1
  <2>3. ThresholdKey(Critical(d), e).epoch = week
    BY <2>1, <2>2, WaitsCrossed
  <2> QED BY <2>1, <2>2, <2>3
<1>4. CASE Pending(journal[ThresholdKey(Critical(d), d.arm)])
  <2>1. d.arm # 0
    <3>1. SUFFICES ASSUME d.arm = 0 PROVE FALSE
      OBVIOUS
    <3>2. pct = Full /\ d.pending = NoThreshold
      BY <1>0, <3>1 DEF ThresholdOK, Blank
    <3>3. PICK t \in Thresholds : t \in Crossed(d)
      BY <3>2 DEF Candidates, Crossed
    <3> QED BY <3>2, <3>3, PercentFacts DEF Crossed
  <2>2. d.arm \in Weeks
    BY <1>0, <2>1, StateFacts, WeekFacts
  <2>3. /\ ThresholdKey(Critical(d), d.arm) \in Keys
        /\ Threshold(ThresholdKey(Critical(d), d.arm))
        /\ ThresholdKey(Critical(d), d.arm).selector = Critical(d)
    BY <1>0, <1>1, <2>2
  <2>4. ThresholdKey(Critical(d), d.arm).epoch = week
    BY <1>4, <2>3, WaitsCrossed
  <2> QED BY <1>4, <2>3, <2>4
<1> QED BY <1>2, <1>3, <1>4 DEF Settled

(* A registration that does not fail is made; without one, nothing moves. *)
LEMMA DetectOutcome ==
    ASSUME Sound, DetectThreshold, ~poll'.failed
    PROVE  \/ ~Registers(poll.state) /\ journal' = journal /\ event' = event
           \/ Registered
<1>1. Registers(poll.state) => journal' # journal
  BY PollActs
<1>2. CASE UNCHANGED <<journal, event>>
  BY <1>1, <1>2
<1> QED BY <1>2, RegisterCases

LEMMA WaitingStep ==
    ASSUME Agreement, [Next]_vars
    PROVE  WaitingOK'
<1> DEFINE d == poll.state
<1>0. /\ Sound /\ Sound' /\ NotAhead /\ WaitingOK /\ d \in DetectorStates
      /\ week \in Nat /\ d.arm \in Nat /\ d.arm <= week
  BY SoundStep, WorldFacts, StateFacts DEF Agreement, NotAhead, Reached
<1>1. CASE ~Running'
  BY <1>1 DEF WaitingOK, Running, Closing, Delivering, Saved, Reconciling
<1>2. CASE Running'
  <2>0. week' = week /\ pct' = pct
    BY <1>0, <1>2, PollFrame
  <2>1. NoneWaits(journal) /\ (\A k \in Keys : ~OpensThreshold(k)) => NoneWaits(journal')
    BY <1>0, RowMoves, OpensResetFacts DEF NoneWaits
  <2>2. poll.at # "threshold" => \A k \in Keys : ~OpensThreshold(k)
    BY <1>0, OpensThresholdFacts
  <2>3. \A k \in Keys : Threshold(k) /\ Pending(journal'[k]) =>
           Pending(journal[k]) \/ OpensThreshold(k)
    BY <1>0, RowMoves, OpensResetFacts
  <2>4. ASSUME Closing', Due(poll.state)' PROVE NoneWaits(journal')
    <3>1. Due(poll'.state)
      BY <2>0, <2>4 DEF Due
    <3>2. CASE CloseDue
      <4>1. poll'.state = d /\ Due(d)
        BY <1>0, <3>1, <3>2, PollActs
      <4>2. Closes(journal, journal',
                   {k \in Keys : k.kind = "threshold" /\ Pending(journal[k])},
                   "expired_after_reset")
        BY <1>0, <3>2, <4>1, CloseDueEffect DEF Sound
      <4> QED BY <4>2 DEF Closes, NoneWaits, Threshold
    <3>3. CASE Closing /\ poll.at # "threshold" /\ (Due(poll'.state) => Due(d))
      BY <1>0, <2>1, <2>2, <3>1, <3>3 DEF WaitingOK
    <3>4. CASE ReconcileRow
      <4>1. /\ poll.at = "reconcile" /\ poll'.at = "reconcile" /\ poll'.then = poll.then
            /\ \E k \in Unread : poll'.state \in {Applied(d, k), d}
        BY <1>0, <3>4, PollActs
      <4>2. PICK k \in Unread : poll'.state \in {Applied(d, k), d}
        BY <4>1
      <4>3. k \in Keys /\ (k.kind = "threshold" \/ k.kind = "reset")
        BY KeyKinds DEF Unread, Unacknowledged, Threshold, Reset
      <4>4. poll'.state.arm \in {d.arm, 0}
        BY <1>0, <4>2, <4>3, AppliedThreshold, AppliedReset
      <4>5. Due(poll'.state) => Due(d)
        BY <4>4 DEF Due
      <4>6. Closing
        BY <2>4, <4>1 DEF Closing, Reconciling
      <4> QED BY <3>3, <4>1, <4>5, <4>6
    <3>5. CASE ReconcileEnd \/ PersistReconciled \/ AcknowledgeNext \/ ExpireAlerts
      <4>1. poll'.state = d /\ poll.at \in {"reconcile", "persist", "acknowledge", "expire"}
        BY <1>0, <3>5, PollActs
      <4>2. Closing
        BY <1>0, <2>4, <3>5, PollActs DEF Closing, Reconciling
      <4> QED BY <3>3, <4>1, <4>2
    <3>6. CASE UNCHANGED <<poll, disk, journal, event>>
      BY <1>0, <2>0, <2>4, <3>6 DEF WaitingOK, Closing, NoneWaits, Due
    <3>7. ~(StartPoll \/ DetectReset \/ DetectThreshold \/ SaveState \/ GiveUpReconcile)
      BY <1>0, <2>4, PollActs DEF Closing, Reconciling
    <3>8. /\ ~(CollectDue \/ RecordAnswer \/ SkipItem \/ RecordFails)
          /\ ~(\E i \in Items, answer \in Answers : Send(i, answer))
      BY <1>0, <2>4, PollActs DEF Closing, Reconciling
    <3> QED BY <1>0, <1>2, <3>2, <3>4, <3>5, <3>6, <3>7, <3>8, PollFrame
  <2>5. ASSUME poll'.at \in {"threshold", "save"} \/ Delivering'
        PROVE  NoneWaits(journal') \/ poll'.state.arm = week'
    <3>1. CASE UNCHANGED <<poll, disk, journal, event>>
      BY <1>0, <2>0, <2>5, <3>1 DEF WaitingOK, Delivering, NoneWaits
    <3>2. CASE DetectReset
      <4> DEFINE s == poll'.state
      <4>0. /\ poll.at = "detect" /\ Closing /\ Expires /\ Running
            /\ s = ArmNext(RetireDue(Noted(d)))
            /\ week \in Weeks /\ pct \in 1..Full /\ pct \in Nat /\ pct <= Full
        BY <1>0, <3>2, PollActs, WorldFacts DEF Closing, Expires, Running
      <4>1. CASE Due(d)
        BY <1>0, <2>1, <2>2, <4>0, <4>1 DEF WaitingOK
      <4>2. CASE ~Due(d) /\ d.arm # 0
        <5>1. d.arm = week
          BY <1>0, <4>2 DEF Due
        <5>2. s.arm = d.arm
          BY <1>0, <4>0, <4>2, DetectedFields
        <5> QED BY <2>0, <5>1, <5>2
      <4>3. CASE ~Due(d) /\ d.arm = 0 /\ pct < Full
        <5>1. s.arm = week
          BY <1>0, <4>0, <4>3, DetectedFields
        <5> QED BY <2>0, <5>1
      <4>4. CASE pct = Full
        <5>1. ASSUME NEW k \in Keys, Threshold(k), Pending(journal[k]) PROVE FALSE
          <6>1. k.epoch = week /\ Present(journal[k])
            BY <1>0, <4>0, <5>1, WaitingEpoch, RowFacts
          <6>2. /\ event[k].remaining <= Percent[k.selector]
                /\ pct <= event[k].remaining /\ event[k].remaining \in Nat
            BY <1>0, <5>1, <6>1, WorldFacts DEF Agreement, EventsOK
          <6>3. k.selector \in Thresholds
            BY <5>1, KeyKinds
          <6> QED BY <4>0, <4>4, <6>2, <6>3, PercentFacts
        <5>2. NoneWaits(journal)
          BY <5>1 DEF NoneWaits
        <5> QED BY <2>1, <2>2, <4>0, <5>2
      <4> QED BY <4>0, <4>1, <4>2, <4>3, <4>4, PercentFacts
    <3>3. CASE DetectThreshold
      <4>1. poll.at = "threshold" /\ poll'.state = Observed(Marked(d)) /\ pct \in 1..Full
        BY <1>0, <3>3, PollActs, WorldFacts
      <4>2. poll'.state.arm = d.arm
        BY <1>0, <4>1, MarkedFields
      <4>3. NoneWaits(journal) \/ d.arm = week
        BY <1>0, <4>1 DEF WaitingOK
      <4>4. (\E k \in Keys : OpensThreshold(k)) => d.arm = week
        BY <1>0, OpensThresholdFacts
      <4> QED BY <2>0, <2>1, <4>2, <4>3, <4>4
    <3>4. CASE /\ poll.at = "save" \/ Delivering
               /\ poll'.state = d
      <4>1. poll.at # "threshold"
        BY <3>4 DEF Delivering
      <4> QED BY <1>0, <2>0, <2>1, <2>2, <3>4, <4>1 DEF WaitingOK
    <3>5. poll'.at \in {"due", "send", "record"} =>
             UNCHANGED <<poll, disk, journal, event>>
             \/ ((poll.at = "save" \/ Delivering) /\ poll'.state = d)
      <4>1. SaveState => poll.at = "save" /\ poll'.state = d
        BY <1>0, PollActs
      <4> QED BY <1>0, <1>2, <4>1, PointMoves DEF Delivering
    <3> QED BY <1>0, <1>2, <2>5, <3>1, <3>2, <3>3, <3>4, <3>5, PointMoves DEF Delivering
  <2>6. ASSUME Saved', NEW k \in Keys, Threshold(k), Pending(journal'[k])
        PROVE  poll'.state.pending = k.selector
    <3>1. CASE UNCHANGED <<poll, disk, journal, event>>
      BY <1>0, <2>6, <3>1 DEF WaitingOK, Saved, Delivering
    <3>2. CASE DetectThreshold
      <4> DEFINE s == poll'.state
      <4>1. /\ poll.at = "threshold" /\ s = Observed(Marked(d)) /\ poll'.at = "save"
            /\ pct \in 1..Full /\ Expires
        BY <1>0, <3>2, PollActs, WorldFacts DEF Expires
      <4>2. Candidates(d) # {} => s.pending = Critical(d)
        BY <1>0, <4>1, MarkedFields
      <4>3. ~poll'.failed
        BY <2>6, <4>1 DEF Saved, Delivering
      <4>4. CASE Registered
        <5>1. Candidates(d) # {} /\ NewKey.selector = Critical(d)
          BY <4>4 DEF Registered, Registers
        <5>2. k = NewKey
          <6>1. OpensThreshold(NewKey) /\ NewKey \in Keys
            BY <4>4 DEF OpensThreshold, Registered
          <6>2. NewKey.epoch = week
            BY <1>0, <6>1, OpensThresholdFacts
          <6>3. k = NewKey \/ k.epoch = week
            <7>1. Pending(journal[k]) => k.epoch = week
              BY <1>0, <2>6, <4>1, WaitingEpoch
            <7> QED BY <2>3, <2>6, <7>1 DEF OpensThreshold
          <6> QED BY <2>6, <4>4, <6>2, <6>3 DEF Registered
        <5> QED BY <4>2, <5>1, <5>2
      <4>5. CASE ~Registers(d) /\ journal' = journal
        <5>1. Pending(journal[k]) /\ Present(journal[k]) /\ Live(journal[k])
          BY <1>0, <2>6, <4>5, RowFacts DEF Live
        <5>2. /\ d.arm = week /\ k.epoch = week /\ k.selector \in Candidates(d)
          BY <2>6, <4>1, <5>1, WaitsCrossed
        <5>3. Candidates(d) # {} /\ Settled(d)
          BY <4>5, <5>2 DEF Registers
        <5>4. ~Due(d)
          BY <1>0, <5>2 DEF Due
        <5>5. PICK m \in Keys : /\ Threshold(m) /\ Pending(journal[m])
                                /\ m.selector = Critical(d) /\ m.epoch = week
          BY <4>1, <5>3, <5>4, SettledRow
        <5>6. k = m
          BY <2>6, <5>1, <5>2, <5>5 DEF Agreement, OneWaits, Live
        <5> QED BY <4>2, <5>3, <5>5, <5>6
      <4> QED BY <1>0, <3>2, <4>3, <4>4, <4>5, DetectOutcome
    <3>3. CASE Saved /\ poll'.state = d
      <4>1. poll.at # "threshold"
        BY <3>3 DEF Saved, Delivering
      <4>2. Pending(journal[k])
        BY <2>2, <2>3, <2>6, <4>1
      <4> QED BY <1>0, <2>6, <3>3, <4>2 DEF WaitingOK
    <3>4. poll'.at \in {"due", "send", "record"} =>
             UNCHANGED <<poll, disk, journal, event>> \/ (Saved /\ poll'.state = d)
      <4>1. SaveState /\ poll'.at = "due" => Saved /\ poll'.state = d
        BY <1>0, PollActs DEF Saved
      <4> QED BY <1>0, <1>2, <4>1, PointMoves DEF Delivering, Saved
    <3> QED BY <1>0, <1>2, <2>6, <3>1, <3>2, <3>3, <3>4, PointMoves DEF Saved, Delivering
  <2>7. (NoneWaits(journal))' <=> NoneWaits(journal')
    BY DEF NoneWaits
  <2> QED BY <2>4, <2>5, <2>6, <2>7 DEF WaitingOK
<1> QED BY <1>1, <1>2

LEMMA KnownStep ==
    ASSUME Agreement, [Next]_vars
    PROVE  KnownOK'
<1> DEFINE d == poll.state
           s == poll'.state
<1>0. /\ Sound /\ NotAhead /\ KnownOK /\ d \in DetectorStates
      /\ week \in Nat /\ d.arm \in Nat /\ d.prev \in Nat /\ pct \in Nat /\ pct \in 1..Full
  BY WorldFacts, StateFacts DEF Agreement
<1>1. SUFFICES ASSUME (poll'.at = "save" /\ ~poll'.failed) \/ poll'.at = "due",
                      NEW t \in Thresholds, pct' <= Percent[t]
               PROVE  \/ t \in s.notified
                      \/ Due(poll.state)'
                      \/ \E k \in Keys : /\ Threshold(k) /\ k.epoch = s.arm
                                         /\ Pending(journal'[k]) /\ t \in event'[k].covered
  BY DEF KnownOK
<1>2. Running'
  BY <1>1 DEF Running
<1>3. week' = week /\ pct' = pct
  BY <1>0, <1>2, PollFrame
<1>4. CASE UNCHANGED <<poll, disk, journal, event>>
  BY <1>0, <1>1, <1>3, <1>4 DEF KnownOK, Due
<1>5. CASE SaveState
  <2>1. poll.at = "save" /\ ~poll.failed /\ s = d
    BY <1>0, <1>1, <1>5, PollActs
  <2>2. journal' = journal /\ event' = event
    BY <1>5 DEF SaveState
  <2> QED BY <1>0, <1>1, <1>3, <2>1, <2>2 DEF KnownOK, Due
<1>6. CASE DetectThreshold
  <2>1. /\ poll.at = "threshold" /\ Running /\ s = Observed(Marked(d)) /\ ~poll'.failed
    BY <1>0, <1>1, <1>6, PollActs DEF Running
  <2>2. s.notified = d.notified /\ s.arm = d.arm
    BY <1>0, <2>1, MarkedFields
  <2>3. Due(d) => Due(poll.state)'
    BY <1>3, <2>2 DEF Due
  <2> HIDE DEF s
  <2>4. SUFFICES ASSUME t \notin d.notified, ~Due(d)
                 PROVE  \E k \in Keys : /\ Threshold(k) /\ k.epoch = s.arm
                                        /\ Pending(journal'[k]) /\ t \in event'[k].covered
    BY <2>2, <2>3
  <2>5. t \in Crossed(d) /\ Percent[t] < d.prev
    <3>1. ~(d.prev <= Percent[t])
      BY <2>1, <2>4 DEF Agreement, Agrees, LevelKnown
    <3>2. Percent[t] \in Nat
      BY PercentFacts
    <3> QED BY <1>0, <1>1, <1>3, <2>4, <3>1, <3>2 DEF Crossed
  <2>6. /\ Candidates(d) # {} /\ Critical(d) \in Thresholds
        /\ Percent[Critical(d)] <= Percent[t]
    BY <1>0, <2>5, CriticalFacts DEF Candidates
  <2>7. CASE Registered
    <3>1. /\ NewKey \in Keys /\ Threshold(NewKey) /\ NewKey.epoch = d.arm
          /\ Pending(journal'[NewKey]) /\ event'[NewKey].covered = Covered(d)
      BY <2>7 DEF Registered
    <3>2. t \in Covered(d)
      BY <2>5, <2>6 DEF Covered
    <3> QED BY <2>2, <3>1, <3>2
  <2>8. CASE ~Registers(d) /\ journal' = journal /\ event' = event
    <3>1. Settled(d)
      BY <2>6, <2>8 DEF Registers
    <3>2. PICK m \in Keys : /\ Threshold(m) /\ Pending(journal[m])
                            /\ m.selector = Critical(d) /\ m.epoch = week
      BY <2>1, <2>4, <2>6, <3>1, SettledRow
    <3>3. d.arm = week
      BY <2>1, <3>2, WaitsCrossed
    <3>4. /\ event[m].remaining <= Percent[m.selector] /\ event[m].remaining \in Nat
          /\ Live(journal[m])
      BY <1>0, <3>2, RowFacts, WorldFacts DEF Agreement, EventsOK, Live
    <3>5. Percent[t] \in Nat /\ Percent[Critical(d)] \in Nat
      BY <2>6, PercentFacts
    <3>6. event[m].remaining <= Percent[t]
      BY <2>6, <3>2, <3>4, <3>5
    <3>7. t \in event[m].covered
      BY <2>1, <2>4, <3>2, <3>4, <3>6 DEF Agreement, Agrees, LiveCovers
    <3> QED BY <2>2, <2>8, <3>2, <3>3, <3>7
  <2> QED BY <1>0, <1>6, <2>1, <2>7, <2>8, DetectOutcome
<1> QED BY <1>0, <1>1, <1>2, <1>4, <1>5, <1>6, PointMoves


-----------------------------------------------------------------------------
(* The agreement is an invariant. *)

LEMMA AgreementInit == Init => Agreement
<1> SUFFICES ASSUME Init PROVE Agreement
  OBVIOUS
<1>1. Sound /\ NotAhead
  BY SoundInit, NotAheadInit
<1>2. \A k \in Keys : /\ ~Present(journal[k]) /\ ~Pending(journal[k])
                      /\ ~Terminal(journal[k]) /\ ~ToldRow(journal[k])
                      /\ ~Unsettled(journal[k]) /\ ~Live(journal[k])
  <2> TAKE k \in Keys
  <2>1. ~Present(journal[k])
    BY NoRowFacts DEF Init
  <2> QED BY <1>1, <2>1, RowFacts, RowCases DEF Sound, JournalOK, Live, Unsettled
<1>3. /\ week = 1 /\ pct = Full /\ recent = 0 /\ disk = FirstState /\ poll.at = "idle"
  BY DEF Init, Idle
<1>4. /\ disk.arm = 0 /\ disk.notified = {} /\ disk.pending = NoThreshold
      /\ disk.prev = Full
  BY <1>3 DEF FirstState
<1>5. RecentOK
  BY <1>3 DEF RecentOK
<1>6. EventsOK(journal, event, week, pct) /\ ResetLast(journal) /\ OneWaits(journal, event)
  BY <1>2 DEF EventsOK, ResetLast, OneWaits
<1>7. Agrees(disk, journal, event, week, pct)
  <2>1. LevelKnown(disk)
    BY <1>4, PercentFacts DEF LevelKnown
  <2>2. Blank(disk) /\ NotifiedTold(disk, journal, event) /\ PendingCrossed(disk, week, pct)
    BY <1>4 DEF Blank, NotifiedTold, PendingCrossed
  <2>3. /\ ResetsArmed(disk, journal) /\ ToldSeen(disk, journal)
        /\ UnsettledArmed(disk, journal)
    BY <1>2 DEF ResetsArmed, ToldSeen, UnsettledArmed
  <2>4. LiveCovers(disk, journal, event) /\ WaitsBelow(disk, journal, event, week)
    BY <1>2 DEF LiveCovers, WaitsBelow
  <2> QED BY <2>1, <2>2, <2>3, <2>4 DEF Agrees
<1>8. ~Running
  BY <1>3 DEF Running
<1>9. CopiesOK /\ ThresholdOK
  BY <1>3 DEF CopiesOK, ThresholdOK, Running, Fresh, Delivering, SeenNow, Reconciling
<1>10. SettledOK /\ WaitingOK /\ KnownOK
  BY <1>3 DEF SettledOK, WaitingOK, KnownOK, Closing, Saved, Delivering, Reconciling
<1>11. AppliedOK
  BY <1>2, <1>3 DEF AppliedOK, Counted, Running
<1> QED BY <1>1, <1>5, <1>6, <1>7, <1>8, <1>9, <1>10, <1>11 DEF Agreement

LEMMA AgreementStep ==
    ASSUME Agreement, [Next]_vars
    PROVE  Agreement'
<1>1. Sound' /\ NotAhead' /\ RecentOK'
  BY SoundStep, NotAheadStep, RecentStep DEF Agreement
<1>2. EventsOK(journal, event, week, pct)'
  <2>1. EventsOK(journal', event', week', pct')
    BY EventsStep DEF Agreement, Agrees
  <2> QED BY <2>1 DEF EventsOK
<1>3. ResetLast(journal)' /\ OneWaits(journal, event)'
  <2>1. ResetLast(journal') /\ OneWaits(journal', event')
    BY ResetLastStep, OneWaitsStep DEF Agreement, Agrees
  <2> QED BY <2>1 DEF ResetLast, OneWaits
<1>4. /\ Agrees(disk, journal, event, week, pct)'
      /\ Running' => Agrees(poll.state, journal, event, week, pct)'
  BY DiskStep, StateStep
<1>5. /\ CopiesOK' /\ ThresholdOK' /\ SettledOK' /\ WaitingOK' /\ KnownOK' /\ AppliedOK'
  BY CopiesStep, ThresholdStep, SettledStep, WaitingStep, KnownStep, AppliedStep
<1> QED BY <1>1, <1>2, <1>3, <1>4, <1>5 DEF Agreement

(* Through every poll, crash and failed write, the state file, the memory of
   the poll and the journal agree in the parts listed under Agreement: this
   is what check_thresholds, deliver_due_alerts and reconcile_alert_deliveries
   rely on between their writes. *)
THEOREM AgreementInvariant == Spec => []Agreement
<1>1. Init => Agreement
  BY AgreementInit
<1>2. Agreement /\ [Next]_vars => Agreement'
  BY AgreementStep
<1> QED BY <1>1, <1>2, PTL DEF Spec

LEMMA AgreementShows ==
    ASSUME Agreement
    PROVE  StateMatchesJournal
<1>0. /\ Sound /\ disk \in DetectorStates
  BY WorldFacts DEF Agreement
<1>1. TypeOK
  BY <1>0 DEF Sound
<1>2. AcknowledgedIsApplied
  <2>1. SUFFICES ASSUME NEW k \in Keys, journal[k].acked, Told(k)
                 PROVE  IF k.kind = "threshold"
                        THEN disk.arm = k.epoch => event[k].covered \subseteq disk.notified
                        ELSE disk.arm # k.epoch /\ disk.last >= k.epoch
    BY DEF AcknowledgedIsApplied
  <2>2. ToldRow(journal[k])
    BY <1>0, <2>1, RowFacts
  <2>3. RowApplied(disk, event, week, k)
    BY <2>1, <2>2 DEF Agreement, AppliedOK, Counted
  <2> QED BY <2>3 DEF RowApplied, Threshold
<1>3. NotifiedIsTold
  <2>1. SUFFICES ASSUME NEW t \in disk.notified
                 PROVE  \E s \in Thresholds :
                           /\ disk.arm # 0 /\ Told(ThresholdKey(s, disk.arm))
                           /\ t \in event[ThresholdKey(s, disk.arm)].covered
    BY DEF NotifiedIsTold
  <2>2. PICK k \in Keys : /\ Threshold(k) /\ k.epoch = disk.arm
                          /\ ToldRow(journal[k]) /\ t \in event[k].covered
    BY <2>1 DEF Agreement, Agrees, NotifiedTold
  <2>3. k = ThresholdKey(k.selector, disk.arm)
    BY <2>2, KeyCases DEF Threshold
  <2>4. k.selector \in Thresholds /\ disk.arm # 0 /\ Told(k)
    BY <1>0, <2>2, KeyKinds, RowFacts
  <2> QED BY <2>2, <2>3, <2>4
<1>4. CrossedIsKnown
  <2>1. SUFFICES ASSUME poll.at = "due", NEW t \in Thresholds, pct <= Percent[t]
                 PROVE  \/ t \in disk.notified
                        \/ Due(disk)
                        \/ \E s \in Thresholds :
                              /\ Pending(journal[ThresholdKey(s, disk.arm)])
                              /\ t \in event[ThresholdKey(s, disk.arm)].covered
    BY DEF CrossedIsKnown
  <2>2. poll.state = disk
    BY <2>1 DEF Agreement, CopiesOK, Delivering
  <2>3. CASE \E k \in Keys : /\ Threshold(k) /\ k.epoch = disk.arm
                             /\ Pending(journal[k]) /\ t \in event[k].covered
    <3>1. PICK k \in Keys : /\ Threshold(k) /\ k.epoch = disk.arm
                            /\ Pending(journal[k]) /\ t \in event[k].covered
      BY <2>3
    <3>2. k = ThresholdKey(k.selector, disk.arm) /\ k.selector \in Thresholds
      BY <3>1, KeyCases, KeyKinds DEF Threshold
    <3> QED BY <3>1, <3>2
  <2> QED BY <2>1, <2>2, <2>3 DEF Agreement, KnownOK
<1> QED BY <1>1, <1>2, <1>3, <1>4 DEF StateMatchesJournal

(* The two files tell one story at every step of the loop: what the journal
   has acknowledged is in the state file, what the state file calls notified
   was told, and when the deliveries begin what the sample has crossed is
   known to one of them (reconcile_alert_deliveries, check_thresholds). *)
THEOREM WeeklyStateMatches == Spec => []StateMatchesJournal
<1>1. Agreement => StateMatchesJournal
  BY AgreementShows
<1> QED BY <1>1, AgreementInvariant, PTL

-----------------------------------------------------------------------------
(* The weekly cycle implements the promise of AlertPromise: each event is
   announced at most once.  The agreement of the state file and the journal
   is what forbids a second announcement: what was told is part of the level
   the detector compares a sample with. *)

Covers(j, e, v) == {k \in Keys : /\ IF v.kind = "reset" THEN k = v
                                    ELSE /\ k.kind = "threshold" /\ k.epoch = v.epoch
                                         /\ v.selector \in e[k].covered
                                 /\ Present(j[k])}

ExpiredRow(r) == r.reason = "expired_after_reset"

Stands(j, e, v) ==
    IF \E k \in Covers(j, e, v) : Pending(j[k]) THEN "owed"
    ELSE IF \E k \in Covers(j, e, v) : ToldRow(j[k]) THEN "kept"
    ELSE IF \E k \in Covers(j, e, v) : ExpiredRow(j[k]) THEN "expired" ELSE "none"

LEMMA PromiseStands ==
    /\ \A v \in Keys : PromiseOf(v) = Stands(journal, event, v)
    /\ \A v \in Keys : PromiseOf(v)' = Stands(journal', event', v)
BY DEF PromiseOf, Stands, Covers, Speaks, Told, ToldRow, ExpiredRow

(* A row superseded in a step waited beside the one that step registers. *)
LEMMA NewlySuperseded ==
    ASSUME Sound, [Next]_vars, NEW k \in Keys, Pending(journal[k]),
           ~Pending(journal'[k]), ~ToldRow(journal'[k]), ~ExpiredRow(journal'[k])
    PROVE  /\ Registered /\ Threshold(k) /\ k.epoch = NewKey.epoch /\ k # NewKey
<1>0. /\ JournalOK(journal) /\ TypeOK /\ RowOK(journal[k]) /\ RowOK(journal'[k])
      /\ Present(journal[k]) /\ journal'[k] # journal[k]
  BY SoundStep, RowFacts DEF Sound, JournalOK
<1>1. Terminal(journal'[k])
  BY <1>0, PresentStays, RowCases
<1>2. ~CloseDue
  BY <1>0, CloseDueEffect DEF Closes, ExpiredRow
<1>3. ~ExpireAlerts
  BY <1>0, ExpireEffect DEF Closes, ExpiredRow
<1>4. ~DetectReset
  BY <1>0, DetectResetEffect, OpensFacts, NewRowOK DEF ExpiredRow
<1>5. CASE DetectThreshold /\ Threshold(k) /\ k.epoch = NewKey.epoch /\ k # NewKey
  BY <1>0, <1>5, RegisterCases
<1> QED BY <1>1, <1>2, <1>3, <1>4, <1>5, RowFacts, NewlyTerminal DEF Threshold, ToldRow

(* What speaks of an event goes on to; what is new is a reset, or a threshold
   that nothing told covers. *)
LEMMA CoversMoves ==
    ASSUME Agreement, [Next]_vars, NEW v \in Keys
    PROVE  /\ Covers(journal, event, v) \subseteq Covers(journal', event', v)
           /\ \A k \in Covers(journal', event', v) :
                 \/ k \in Covers(journal, event, v)
                 \/ OpensReset(k) \/ OpensThreshold(k)
<1>0. Sound
  BY DEF Agreement
<1>1. \A k \in Keys : /\ Present(journal[k]) => Present(journal'[k]) /\ event'[k] = event[k]
                      /\ Present(journal'[k]) => Present(journal[k]) \/ OpensReset(k)
                                                   \/ OpensThreshold(k)
  BY <1>0, RowMoves
<1> QED BY <1>1 DEF Covers

LEMMA NothingToldReopens ==
    ASSUME Agreement, [Next]_vars, NEW v \in Keys, NEW k \in Covers(journal', event', v),
           OpensReset(k) \/ OpensThreshold(k),
           NEW m \in Covers(journal, event, v), ToldRow(journal[m])
    PROVE  FALSE
<1>0. Sound /\ m \in Keys /\ k \in Keys /\ Present(journal[m])
  BY DEF Agreement, Covers
<1>1. CASE OpensReset(k)
  <2>1. k.kind = "reset" /\ ~Present(journal[k])
    BY <1>0, <1>1, OpensResetFacts DEF Reset
  <2>2. v.kind = "reset" /\ v = k
    BY <2>1 DEF Covers
  <2>3. m = v
    BY <2>2 DEF Covers
  <2> QED BY <1>0, <2>1, <2>2, <2>3
<1>2. CASE OpensThreshold(k)
  <2>1. /\ k.kind = "threshold" /\ k.epoch = week /\ poll.at = "threshold" /\ Running
        /\ event'[k].covered = Covered(poll.state) /\ ~Present(journal[k])
    BY <1>0, <1>2, OpensThresholdFacts DEF Agreement, Threshold
  <2>2. v.kind # "reset" /\ v.epoch = week /\ v.selector \in event'[k].covered
    BY <1>0, <2>1 DEF Covers
  <2>3. v.selector \in Thresholds /\ Percent[v.selector] \in Nat
    BY <2>1, <2>2, PercentFacts DEF Covered
  <2>4. Percent[v.selector] < poll.state.prev
    BY <1>0, <1>2, <2>2, <2>3, RegisteredCovers
  <2>5. Threshold(m) /\ m.epoch = week /\ v.selector \in event[m].covered
    BY <2>2 DEF Covers, Threshold
  <2>6. journal[m].acked
    BY <1>0, <2>1 DEF Agreement, SettledOK, Unsettled
  <2>7. RowApplied(poll.state, event, week, m)
    BY <1>0, <2>1, <2>6 DEF Agreement, AppliedOK, Counted
  <2>8. poll.state.prev <= Percent[v.selector]
    BY <2>5, <2>7 DEF RowApplied
  <2>9. poll.state.prev \in Nat
    BY <1>0, WorldFacts, StateFacts
  <2> QED BY <2>3, <2>4, <2>8, <2>9
<1> QED BY <1>1, <1>2

(* A threshold that takes the place of another covers what that one did. *)
LEMMA SupersededIsCovered ==
    ASSUME Agreement, [Next]_vars, Registered, NEW v \in Keys,
           NEW k \in Covers(journal, event, v), Pending(journal[k]), Threshold(k),
           k.epoch = NewKey.epoch
    PROVE  NewKey \in Covers(journal', event', v) /\ Pending(journal'[NewKey])
<1> DEFINE d == poll.state
<1>0. /\ Sound /\ k \in Keys /\ NewKey \in Keys /\ OpensThreshold(NewKey)
      /\ Pending(journal'[NewKey]) /\ d \in DetectorStates
  BY WorldFacts DEF Agreement, Covers, Registered, OpensThreshold
<1>1. /\ poll.at = "threshold" /\ Running /\ NewKey.kind = "threshold"
      /\ NewKey.epoch = week /\ event'[NewKey].covered = Covered(d)
  BY <1>0, OpensThresholdFacts DEF Agreement, Threshold
<1>2. Present(journal'[NewKey])
  BY <1>0 DEF Pending, Present
<1>3. v.kind # "reset" /\ k.epoch = v.epoch /\ v.selector \in event[k].covered
  <2>1. v.kind = "reset" => k = v
    BY DEF Covers
  <2>2. v.kind # "reset"
    BY <2>1 DEF Threshold
  <2> QED BY <2>2 DEF Covers
<1>4. /\ d.arm = week /\ k.selector \in Candidates(d)
  BY <1>0, <1>1, WaitsCrossed
<1>5. v.selector \in Thresholds
  BY <1>0, <1>3, WorldFacts
<1>6. Percent[v.selector] < d.prev
  BY <1>0, <1>1, <1>3, <1>4 DEF Agreement, Agrees, WaitsBelow
<1>7. Percent[k.selector] <= Percent[v.selector]
  BY <1>0, <1>3, RowFacts DEF Agreement, EventsOK
<1>8. Percent[Critical(d)] <= Percent[k.selector] /\ Critical(d) \in Thresholds
  BY <1>0, <1>4, CriticalFacts
<1>9. Percent[Critical(d)] <= Percent[v.selector]
  <2>1. /\ Percent[Critical(d)] \in Nat /\ Percent[v.selector] \in Nat
        /\ Percent[k.selector] \in Nat
    BY <1>0, <1>5, <1>8, KeyKinds, PercentFacts
  <2> QED BY <1>7, <1>8, <2>1
<1>10. v.selector \in event'[NewKey].covered
  BY <1>1, <1>5, <1>6, <1>9 DEF Covered
<1> QED BY <1>0, <1>1, <1>2, <1>3, <1>10 DEF Covers

LEMMA StandsMoves ==
    ASSUME Agreement, [Next]_vars, NEW v \in Keys
    PROVE  \/ Stands(journal', event', v) = Stands(journal, event, v)
           \/ <<Stands(journal, event, v), Stands(journal', event', v)>> \in Promise!Moves
<1> DEFINE C == Covers(journal, event, v)
           D == Covers(journal', event', v)
           p == Stands(journal, event, v)
           q == Stands(journal', event', v)
<1>0. /\ Sound /\ C \subseteq D /\ D \subseteq Keys /\ C \subseteq Keys
      /\ \A k \in D : k \in C \/ OpensReset(k) \/ OpensThreshold(k)
      /\ \A k \in C : Present(journal[k]) /\ RowOK(journal[k])
      /\ \A k \in D : RowOK(journal'[k])
  BY CoversMoves, SoundStep DEF Agreement, Covers, Sound, JournalOK
<1>1. \A k \in D : Pending(journal'[k]) =>
         \/ k \in C /\ Pending(journal[k])
         \/ k \notin C /\ (OpensReset(k) \/ OpensThreshold(k))
  <2> TAKE k \in D
  <2>1. Pending(journal'[k]) => Pending(journal[k]) \/ OpensReset(k) \/ OpensThreshold(k)
    BY <1>0, RowMoves
  <2>2. OpensReset(k) \/ OpensThreshold(k) => ~Present(journal[k])
    BY <1>0, OpensResetFacts, OpensThresholdFacts DEF Agreement
  <2> QED BY <1>0, <2>1, <2>2
<1>2. \A k \in D : ToldRow(journal'[k]) \/ ExpiredRow(journal'[k]) => k \in C
  <2> TAKE k \in D
  <2>1. SUFFICES ASSUME ToldRow(journal'[k]) \/ ExpiredRow(journal'[k]), k \notin C
                 PROVE  FALSE
    OBVIOUS
  <2>2. Terminal(journal'[k])
    BY <1>0, <2>1, RowCases DEF ToldRow, ExpiredRow, Closed
  <2>3. ~Present(journal[k])
    BY <1>0, <2>1, OpensResetFacts, OpensThresholdFacts DEF Agreement
  <2>4. RowOK(journal[k])
    BY <1>0 DEF Sound, JournalOK
  <2> QED BY <1>0, <2>2, <2>3, <2>4, NewlyTerminal, RowCases
<1>3. \A k \in C : ToldRow(journal[k]) => ToldRow(journal'[k])
  BY <1>0, RowMoves
<1>4. \A k \in C : ToldRow(journal'[k]) => ToldRow(journal[k]) \/ Pending(journal[k])
  BY <1>0, RowMoves
<1>5. \A k \in C : ExpiredRow(journal[k]) => ExpiredRow(journal'[k])
  <2> TAKE k \in C
  <2>1. ExpiredRow(journal[k]) => Terminal(journal[k])
    BY <1>0, RowCases DEF ExpiredRow, Closed
  <2> QED BY <1>0, <2>1, TerminalStays DEF ExpiredRow
<1>6. \A k \in C : ExpiredRow(journal'[k]) => ExpiredRow(journal[k]) \/ Pending(journal[k])
  <2> TAKE k \in C
  <2>1. Terminal(journal[k]) => journal'[k].reason = journal[k].reason
    BY <1>0, TerminalStays
  <2> QED BY <1>0, <2>1, RowCases DEF ExpiredRow
<1>7. ASSUME NEW k \in C, Pending(journal[k]), \A m \in D : ~Pending(journal'[m])
      PROVE  ToldRow(journal'[k]) \/ ExpiredRow(journal'[k])
  <2>1. SUFFICES ASSUME ~ToldRow(journal'[k]), ~ExpiredRow(journal'[k]) PROVE FALSE
    OBVIOUS
  <2>2. Registered /\ Threshold(k) /\ k.epoch = NewKey.epoch
    BY <1>0, <1>7, <2>1, NewlySuperseded
  <2>3. NewKey \in D /\ Pending(journal'[NewKey])
    BY <1>7, <2>2, SupersededIsCovered
  <2> QED BY <1>7, <2>3
<1>8. ASSUME NEW m \in C, ToldRow(journal[m]), \A k \in C : ~Pending(journal[k])
      PROVE  \A k \in D : ~Pending(journal'[k])
  BY <1>1, <1>8, NothingToldReopens
<1>9. /\ p = "owed" <=> \E k \in C : Pending(journal[k])
      /\ p = "kept" <=> /\ \A k \in C : ~Pending(journal[k])
                        /\ \E k \in C : ToldRow(journal[k])
      /\ p = "expired" <=> /\ \A k \in C : ~Pending(journal[k]) /\ ~ToldRow(journal[k])
                           /\ \E k \in C : ExpiredRow(journal[k])
      /\ p \in {"none", "owed", "kept", "expired"}
  BY DEF Stands
<1>10. /\ q = "owed" <=> \E k \in D : Pending(journal'[k])
       /\ q = "kept" <=> /\ \A k \in D : ~Pending(journal'[k])
                         /\ \E k \in D : ToldRow(journal'[k])
       /\ q = "expired" <=> /\ \A k \in D : ~Pending(journal'[k]) /\ ~ToldRow(journal'[k])
                            /\ \E k \in D : ExpiredRow(journal'[k])
       /\ q \in {"none", "owed", "kept", "expired"}
  BY DEF Stands
<1> HIDE DEF C, D, p, q
<1>11. CASE p = "none"
  <2>1. \A k \in C : ~Pending(journal[k]) /\ ~ToldRow(journal[k]) /\ ~ExpiredRow(journal[k])
    BY <1>9, <1>11
  <2>2. q \in {"none", "owed"}
    BY <1>2, <1>4, <1>6, <1>10, <2>1
  <2> QED BY <1>11, <2>2 DEF Promise!Moves, p, q
<1>12. CASE p = "owed"
  <2>1. q # "none"
    BY <1>0, <1>7, <1>9, <1>10, <1>12
  <2>2. q \in {"owed", "kept", "expired"}
    BY <1>10, <2>1
  <2> QED BY <1>12, <2>2 DEF Promise!Moves, p, q
<1>13. CASE p = "kept"
  <2>1. q = "kept"
    BY <1>0, <1>3, <1>8, <1>9, <1>10, <1>13
  <2> QED BY <1>13, <2>1 DEF p, q
<1>14. CASE p = "expired"
  <2>1. q # "kept"
    BY <1>2, <1>4, <1>9, <1>10, <1>14
  <2>2. q # "none"
    BY <1>0, <1>5, <1>9, <1>10, <1>14
  <2> QED BY <1>10, <1>14, <2>1, <2>2 DEF Promise!Moves, p, q
<1> QED BY <1>9, <1>11, <1>12, <1>13, <1>14

(* Each threshold of a week and each reset is announced at most once: a row
   that is superseded leaves what it owed to the row that supersedes it, and
   what was told is never owed again, whatever crashes, failed writes and
   repeated reconciliations come between (check_thresholds, deliver_due_alerts
   and reconcile_alert_deliveries implement AlertPromise). *)
THEOREM WeeklyKeepsPromise == Spec => KeepsPromise
<1>1. Init => Promise!Init
  <2> SUFFICES ASSUME Init PROVE \A v \in Keys : PromiseOf(v) = "none"
    BY DEF Promise!Init, promised
  <2> TAKE v \in Keys
  <2>1. Covers(journal, event, v) = {}
    BY NoRowFacts DEF Init, Covers
  <2> QED BY <2>1, PromiseStands DEF Stands
<1>2. Agreement /\ [Next]_vars => [Promise!Next]_promised
  <2> SUFFICES ASSUME Agreement, [Next]_vars
               PROVE  Promise!Next
    OBVIOUS
  <2>1. ASSUME NEW v \in Keys
        PROVE  /\ PromiseOf(v)' \in Promise!PromiseStates
               /\ \/ PromiseOf(v)' = PromiseOf(v)
                  \/ <<PromiseOf(v), PromiseOf(v)'>> \in Promise!Moves
    <3>1. Stands(journal', event', v) \in Promise!PromiseStates
      BY DEF Stands, Promise!PromiseStates
    <3> QED BY <3>1, StandsMoves, PromiseStands
  <2> QED BY <2>1 DEF Promise!Next, promised
<1> QED BY <1>1, <1>2, AgreementInvariant, PTL DEF Spec, KeepsPromise, Promise!Spec
=============================================================================
