--------------------------- MODULE QuotaDetector ---------------------------
(***************************************************************************)
(* One observation of the quotas, as the transaction of process_snapshot    *)
(* (anomalies.py) applies it to the archive: the detectors of the owner's   *)
(* two windows, the anomalies they report, the evidence for weekly resets.  *)
(*                                                                         *)
(* d is the archive: a record, since a transaction is one step.             *)
(***************************************************************************)
EXTENDS WeeklyReset, Sequences

CONSTANTS
    ShiftTolerance,     \* RESET_SHIFT_TOLERANCE_SECONDS
    OscillationDelta    \* RESET_OSCILLATION_MIN_DELTA_SECONDS

ASSUME DetectorAssumption == ShiftTolerance \in Nat /\ OscillationDelta \in Nat

Windows   == {"5h", "weekly"}
Ids       == Owners \cup {Unknown}
Tolerance == 5          \* QUOTA_INCREASE_TOLERANCE_PCT

(* _state_default; <<>> stands for an absent signature or movement.        *)
StateDefault ==
    [known |-> FALSE, updated |-> 0, epoch |-> 0, pct |-> None, reset |-> None,
     available |-> None, missing |-> 0, missingFrom |-> 0, dates |-> <<>>,
     oscillation |-> <<>>, oscillationFrom |-> 0, stable |-> 0, increasing |-> FALSE,
     shift |-> <<>>, shiftFrom |-> 0, chain |-> NoChain, deferred |-> <<>>]

EmptyArchive ==
    [active |-> "nobody", detector |-> [k \in Ids \X Windows |-> StateDefault],
     anomalies |-> {}, proofs |-> {}, events |-> {}, snapshots |-> {},
     start |-> None, seen |-> 0, seenOwner |-> Unknown, baseline |-> {}, interrupted |-> FALSE]

LatestOf(S) == CHOOSE s \in S : \A t \in S : t.epoch <= s.epoch
Before(S, epoch) == {s \in S : s.epoch < epoch}

-----------------------------------------------------------------------------
(* _load_state: a detector not met before starts from the archived samples. *)
Load(d, o, w, epoch) ==
    LET st  == d.detector[<<o, w>>]
        old == {s \in Before(d.snapshots, epoch) : s.owner = o}
        s   == LatestOf(old)
    IN IF st.known \/ old = {} \/ s.pct[w] = None THEN st
       ELSE [st EXCEPT !.epoch = s.epoch, !.pct = s.pct[w],
                       !.reset = s.reset[w], !.available = s.reset[w],
                       !.dates = IF s.reset[w] = None THEN <<>> ELSE <<s.reset[w]>>]

Save(d, o, w, st, epoch) ==
    [d EXCEPT !.detector[<<o, w>>] = [st EXCEPT !.known = TRUE, !.updated = epoch]]

Anomaly(o, w, kind, episode, at) ==
    [owner |-> o, window |-> w, kind |-> kind, episode |-> episode, at |-> at, journaled |-> FALSE]

(* _insert_anomaly: nothing happens when its episode is there already.     *)
Reported(d, a) == \E b \in d.anomalies : /\ b.owner = a.owner /\ b.window = a.window
                                         /\ b.kind = a.kind /\ b.episode = a.episode
Report(d, a) == IF Reported(d, a) THEN d ELSE [d EXCEPT !.anomalies = @ \cup {a}]

(* Only the last two dates are ever compared. *)
RecordDate(st, reset) ==
    LET same    == st.reset = reset
        stable  == IF same THEN IF st.stable < 2 THEN st.stable + 1 ELSE 2 ELSE 0
        lastTwo == SubSeq(st.dates, IF Len(st.dates) < 2 THEN 1 ELSE 2, Len(st.dates))
    IN IF reset = None THEN st
       ELSE [st EXCEPT !.dates = Append(lastTwo, reset), !.stable = stable,
                       !.oscillation = IF same /\ stable = 2 THEN <<>> ELSE @]

(* A deferred movement is an anomaly unless its candidate was confirmed.   *)
Resolve(d, o, st, confirmed) ==
    IF st.deferred = <<>> \/ st.deferred[1] = confirmed THEN d
    ELSE Report(d, Anomaly(o, "weekly", "reset_shift",
                           <<st.deferred[2], st.deferred[3], st.deferred[1]>>, st.deferred[1]))

(* A partial sample, or another owner, breaks the chain of the weekly window. *)
Break(d, o, epoch) ==
    LET st == Load(d, o, "weekly", epoch)
    IN IF ~st.known \/ epoch <= st.epoch THEN d
       ELSE Save(Resolve(d, o, st, 0), o, "weekly",
                 [st EXCEPT !.deferred = <<>>, !.chain = NoChain], epoch)

-----------------------------------------------------------------------------
(* The weekly evidence. *)

AddProof(d, e) ==
    IF \E p \in d.proofs : p.method = e.method /\ p.at = e.at THEN d
    ELSE [d EXCEPT !.proofs = @ \cup {e}]
AddEvent(d, w, e) ==
    IF \E f \in d.events : f.window = w /\ f.at = e.at THEN d
    ELSE [d EXCEPT !.events = @ \cup {[window |-> w, at |-> e.at, method |-> e.method]}]

(* Of two kinds of evidence for one moment the full one stands. *)
RecordFull(d, at, seen) ==
    LET other == {e \in d.events : e.window = "weekly" /\ e.at = at}
        proof == [method |-> "full_observed", at |-> at, seen |-> seen]
    IN AddEvent([AddProof(d, proof) EXCEPT !.events = @ \ other], "weekly", proof)

-----------------------------------------------------------------------------
(* One window. *)

Baseline(d, w, s, st) ==
    LET fresh == [StateDefault EXCEPT
                     !.known = st.known, !.updated = st.updated, !.deferred = st.deferred,
                     !.epoch = s.epoch, !.pct = s.pct[w],
                     !.reset = s.reset[w], !.available = s.reset[w],
                     !.chain = IF w = "weekly" THEN observe_full_weekly_reset(NoChain, s).chain
                                               ELSE st.chain]
    IN Save(d, s.owner, w, RecordDate(fresh, s.reset[w]), s.epoch)

ObservedFiveHour(st, before, s) ==
    /\ Near(st, s)
    /\ before # None /\ s.reset["5h"] # None /\ s.reset["5h"] >= before + MinAdvance
    /\ \/ st.pct = 100 /\ s.pct["5h"] = 100
       \/ IsRefill(st.pct, s.pct["5h"])

Recognized(st, w, before, s, confirmed, candidate) ==
    \/ w = "weekly" /\ \/ is_weekly_refill(st.pct, before, s.pct[w], s.reset[w])
                       \/ confirmed # 0 \/ candidate
    \/ w = "5h" /\ ObservedFiveHour(st, before, s)

Swings(st, now) ==
    Len(st.dates) = 2 /\ st.dates[2] # now /\ st.dates[1] = now

Pair(a, b) == IF a < b THEN <<a, b>> ELSE <<b, a>>

(* What a movement that is no reset is taken for. *)
Suspect(st, before, now, epoch) ==
    LET past == now # None /\ now <= epoch
    IN IF past /\ (before = None \/ now < before) THEN "reset_in_past"
       ELSE IF /\ before # None /\ now # None /\ ~past
               /\ Distance(now, before) > ShiftTolerance THEN "reset_shift"
       ELSE IF before # None /\ now = None THEN "reset_missing"
       ELSE "none"

(* The detector's state and the kind of anomaly, before its episode counts. *)
Judge(st, before, s, w) ==
    LET now   == s.reset[w]
        jump  == s.pct[w] > st.pct + Tolerance
        first == Suspect(st, before, now, s.epoch)
        early == IF first = "reset_shift" /\ jump THEN "none" ELSE first
        gone  == early = "reset_missing"
        kept  == [st EXCEPT !.missing = IF gone THEN @ + 1 ELSE IF now # None THEN 0 ELSE @,
                            !.missingFrom = IF gone THEN IF @ = 0 THEN s.epoch ELSE @
                                            ELSE IF now # None THEN 0 ELSE @,
                            !.available = IF now # None THEN now ELSE @]
        known == IF gone /\ kept.missing < 2 THEN "none" ELSE early
        swing == /\ now # None /\ known \in {"none", "reset_shift"} /\ Swings(st, now)
                 /\ Distance(st.dates[2], now) >= OscillationDelta
                 /\ st.oscillation # Pair(st.dates[2], now)
    IN IF swing THEN [kind |-> "reset_oscillation",
                      state |-> [kept EXCEPT !.oscillation = Pair(st.dates[2], now),
                                             !.oscillationFrom = s.epoch]]
       ELSE [kind |-> IF known = "none" /\ jump THEN "quota_increase" ELSE known, state |-> kept]

(* An increase and a movement are reported once while they last. *)
Episodes(st, kind, before, now, jump, epoch) ==
    LET calm == [st EXCEPT !.increasing = @ /\ jump]
        far  == before # None /\ now # None /\ Distance(now, before) > ShiftTolerance
    IN CASE kind = "quota_increase" ->
                [kind  |-> IF calm.increasing THEN "none" ELSE kind,
                 state |-> [calm EXCEPT !.increasing = TRUE]]
         [] kind = "reset_shift" /\ calm.shift = <<before, now>> ->
                [kind |-> "none", state |-> calm]
         [] kind = "reset_shift" /\ calm.shift # <<before, now>> ->
                [kind |-> kind, state |-> [calm EXCEPT !.shift = <<before, now>>, !.shiftFrom = epoch]]
         [] OTHER ->
                [kind |-> kind, state |-> IF far THEN calm
                                          ELSE [calm EXCEPT !.shift = <<>>, !.shiftFrom = 0]]

Episode(kind, old, st, before, now, epoch) ==
    CASE kind = "quota_increase"    -> <<old.epoch>>
      [] kind = "reset_shift"       -> <<before, now, st.shiftFrom>>
      [] kind = "reset_in_past"     -> <<now>>
      [] kind = "reset_missing"     -> <<st.missingFrom>>
      [] kind = "reset_oscillation" -> Append(st.oscillation, st.oscillationFrom)

(* Faulty: a sample seen before is compared with itself again. *)
IsOldNever(st, s) == FALSE

IsOld(st, s) == s.epoch <= st.epoch

Compare(d, w, s, st, force) ==
    LET o      == s.owner
        now    == s.reset[w]
        before == IF st.reset # None THEN st.reset ELSE st.available
        full   == IF w = "weekly"
                  THEN observe_full_weekly_reset(IF force THEN NoChain ELSE st.chain, s)
                  ELSE [chain |-> NoChain, confirmed |-> 0]
        moved  == before # None /\ now # None /\ Distance(now, before) > ShiftTolerance
        chained == [st EXCEPT !.chain = full.chain,
                              !.deferred = IF full.chain.candidate /\ moved
                                           THEN <<s.epoch, before, now>> ELSE <<>>]
        crossed == before # None /\ st.epoch < before /\ before <= s.epoch
        reset   == crossed \/ Recognized(st, w, before, s, full.confirmed, full.chain.candidate)
        judged  == IF reset THEN [kind |-> "none", state |-> chained] ELSE Judge(chained, before, s, w)
        jump    == s.pct[w] > st.pct + Tolerance
        settled == Episodes(judged.state, judged.kind, before, now, jump, s.epoch)
        proven  == IF full.confirmed = 0 THEN d
                   ELSE RecordFull(d, full.confirmed, s.epoch)
        told    == IF w = "weekly" THEN Resolve(proven, o, st, full.confirmed) ELSE proven
        found   == IF settled.kind = "none" THEN told
                   ELSE Report(told, Anomaly(o, w, settled.kind,
                            Episode(settled.kind, st, settled.state, before, now, s.epoch), s.epoch))
        final   == [RecordDate(settled.state, now) EXCEPT
                        !.epoch = s.epoch, !.pct = s.pct[w], !.reset = now,
                        !.available = IF now # None THEN now ELSE @]
    IN Save(found, o, w, final, s.epoch)

(* _detect_window *)
Detect(d, w, s, force) ==
    LET st == Load(d, s.owner, w, s.epoch)
    IN IF s.pct[w] = None THEN IF w = "weekly" THEN Break(d, s.owner, s.epoch) ELSE d
       ELSE IF (force /\ ~st.known) \/ st.pct = None THEN Baseline(d, w, s, st)
       ELSE IF IsOld(st, s) THEN d
       ELSE Compare(d, w, s, st, force)

-----------------------------------------------------------------------------
(* The history of complete weekly samples. *)

(* record_observed_weekly_reset *)
Record(d, p, c) ==
    IF ObservedEvents(p, c) = {} THEN d
    ELSE LET e == CHOOSE e \in ObservedEvents(p, c) : TRUE IN AddEvent(AddProof(d, e), "weekly", e)

PriorOwners(d, s, priorActive) ==
    (IF priorActive = "nobody" THEN {} ELSE {priorActive})
    \cup (IF d.seen = 0 THEN {} ELSE {d.seenOwner})
    \cup (IF Before(d.snapshots, s.epoch) = {} THEN {}
          ELSE {LatestOf(Before(d.snapshots, s.epoch)).owner})

(* Before there is evidence: did another owner come between? *)
Interrupted(d, s, priorActive) ==
    LET whole == {p \in Before(d.snapshots, s.epoch) :
                      p.pct["weekly"] # None /\ p.reset["weekly"] # None}
    IN \/ d.interrupted
       \/ s.owner = Unknown
       \/ \E o \in PriorOwners(d, s, priorActive) : o # s.owner
       \/ /\ whole # {}
          /\ \E k \in Ids \X Windows :
                 /\ k[1] # s.owner /\ d.detector[k].known
                 /\ d.detector[k].updated > LatestOf(whole).epoch
                 /\ d.detector[k].updated <= s.epoch

(* The archived samples count as evidence up to the one before start.      *)
EvidenceStart(d, s, chain, base, interrupted) ==
    IF \/ base # {} \/ chain.candidate \/ interrupted
       \/ \E p \in d.proofs : p.method = "full_observed" /\ p.seen = s.epoch
    THEN s.epoch ELSE s.epoch + 1

BaseOf(d, s) == IF s.owner # Unknown /\ d.seen > 0 /\ d.seenOwner = s.owner THEN d.baseline ELSE {}

observe_weekly_reset_history(d, s, prior, priorActive) ==
    LET base  == BaseOf(d, s)
        inter == IF d.start # None THEN d.interrupted ELSE Interrupted(d, s, priorActive)
        chain == Load(d, s.owner, "weekly", s.epoch).chain
        noted == IF Complete(s) /\ base # {} THEN Record(d, CHOOSE p \in base : TRUE, s) ELSE d
    IN IF s.epoch <= (IF d.seen > 0 THEN d.seen ELSE prior) THEN d
       ELSE [noted EXCEPT
                !.start = IF Complete(s) /\ @ = None
                          THEN EvidenceStart(noted, s, chain, base, inter) ELSE @,
                !.seen = s.epoch, !.seenOwner = s.owner, !.interrupted = inter,
                !.baseline = IF Complete(s) THEN {s} ELSE base]

-----------------------------------------------------------------------------
process_snapshot(d, s) ==
    LET prior   == IF \E k \in Ids \X Windows : d.detector[k].known
                   THEN LET k == CHOOSE k \in Ids \X Windows :
                                     \A l \in Ids \X Windows :
                                         d.detector[l].updated <= d.detector[k].updated
                        IN d.detector[k].updated
                   ELSE 0
        force   == d.active # s.owner
        left    == IF force /\ d.active \in Ids THEN Break(d, d.active, s.epoch) ELSE d
        five    == Detect([left EXCEPT !.active = s.owner], "5h", s, force)
        weekly  == Detect(five, "weekly", s, force)
    IN observe_weekly_reset_history(weekly, s, prior, d.active)
=============================================================================
