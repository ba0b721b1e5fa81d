-------------------------- MODULE MCWeekly_proofs --------------------------
(***************************************************************************)
(* The anomalies for every alphabet and every bound: none is lost between  *)
(* the archive and the journal, a sample seen again changes nothing, and   *)
(* what is taken for a weekly reset was one.                               *)
(* And the hook in the scenes of the run, for the settings they have, from *)
(* what WeeklyStart_proofs proves of all settings.                         *)
(***************************************************************************)
EXTENDS MCWeekly, FiniteSetTheorems, WellFoundedInduction, TLAPS

LEMMA BudgetedSettings == Budgeted!WeeklyStartAssumption /\ Budgeted!WeeklyResetAssumption
BY SMT DEF Budgeted!WeeklyStartAssumption, Budgeted!StatusReserve,
           Budgeted!WeeklyResetAssumption, Budgeted!Unknown

LEMMA ProvingSettings == Proving!WeeklyStartAssumption /\ Proving!WeeklyResetAssumption
BY SMT DEF Proving!WeeklyStartAssumption, Proving!StatusReserve,
           Proving!WeeklyResetAssumption, Proving!Unknown

LEMMA BudgetedKept ==
    /\ Budgeted!Init => Budgeted!Inv
    /\ Budgeted!Inv /\ [Budgeted!Next]_hook => Budgeted!Inv'
    /\ Budgeted!Inv => RequestsAreCharged
<1>1. Budgeted!Init => Budgeted!Inv
  BY SMT, BudgetedSettings, Budgeted!Started
<1>2. Budgeted!Inv /\ [Budgeted!Next]_hook => Budgeted!Inv'
  BY SMT, BudgetedSettings, Budgeted!Kept DEF hook, Budgeted!vars
<1>3. Budgeted!Inv => RequestsAreCharged
  BY SMT, BudgetedSettings, Budgeted!InvariantHolds DEF RequestsAreCharged
<1> QED BY <1>1, <1>2, <1>3

LEMMA ProvingKept ==
    /\ Proving!Init => Proving!Inv /\ Proving!Evidence
    /\ Proving!Inv /\ Proving!Evidence /\ [Proving!Next]_hook => Proving!Inv' /\ Proving!Evidence'
    /\ Proving!Evidence => SuccessIsProven
<1>1. Proving!Init => Proving!Inv /\ Proving!Evidence
  BY SMT, ProvingSettings, Proving!Started, Proving!NothingSeen
<1>2. Proving!Inv /\ Proving!Evidence /\ [Proving!Next]_hook => Proving!Inv' /\ Proving!Evidence'
  BY SMT, ProvingSettings, Proving!Kept, Proving!EvidenceKept DEF hook, Proving!vars
<1>3. Proving!Evidence => SuccessIsProven
  BY SMT DEF Proving!Evidence, SuccessIsProven
<1> QED BY <1>1, <1>2, <1>3

(* The hook's part of a step of the scenes. *)
HookStep ==
    /\ scene' = scene
    /\ scene = "budget" => [Budgeted!Next]_hook
    /\ scene = "proof" => [Proving!Next]_hook

LEMMA StepOfHook == [MCNext]_<<scene, vars, hook>> => HookStep
BY SMT DEF MCNext, HookStep, hook, Scenes

HookInv ==
    /\ scene = "budget" => Budgeted!Inv
    /\ scene = "proof" => Proving!Inv /\ Proving!Evidence

LEMMA HookInvariant == MCSpec => [](HookInv /\ RequestsAreCharged /\ SuccessIsProven)
<1>1. MCInit => HookInv
  BY SMT, BudgetedKept, ProvingKept DEF MCInit, HookInv
<1>2. HookInv /\ [MCNext]_<<scene, vars, hook>> => HookInv'
  BY SMT, StepOfHook, BudgetedKept, ProvingKept DEF HookStep, HookInv
<1>3. HookInv => RequestsAreCharged /\ SuccessIsProven
  BY SMT, BudgetedKept, ProvingKept DEF HookInv, RequestsAreCharged, SuccessIsProven
<1> QED BY <1>1, <1>2, <1>3, PTL DEF MCSpec

(* In the scene of many runs each request is charged before it is sent, and
   the time to look at what it did is left. *)
THEOREM RequestsChargedInScene == MCSpec => []RequestsAreCharged
BY HookInvariant, PTL

(* In the scene of one run it succeeds on what its statuses show. *)
THEOREM SuccessProvenInScene == MCSpec => []SuccessIsProven
BY HookInvariant, PTL

(* In the scene of many runs all requests of a cycle end in one budget. *)
THEOREM OneBudgetInScene == MCSpec => OneBudgetForAll
<1>1. HookInv /\ [MCNext]_<<scene, vars, hook>>
        => [scene = "budget" => Budgeted!InBudget]_<<scene, vars, hook>>
  <2> SUFFICES ASSUME HookInv, MCNext, scene = "budget" PROVE Budgeted!InBudget
    OBVIOUS
  <2>1. Budgeted!Inv /\ [Budgeted!Next]_(Budgeted!vars)
    BY SMT, StepOfHook DEF HookStep, HookInv, hook, Budgeted!vars
  <2> QED BY SMT, <2>1, BudgetedSettings, Budgeted!AskedInBudget DEF Budgeted!vars, Budgeted!InBudget
<1> QED BY <1>1, HookInvariant, PTL DEF MCSpec, OneBudgetForAll


-----------------------------------------------------------------------------
(* An archive has all of its tables. *)
Whole(d) ==
    d = [active |-> d.active, detector |-> d.detector, anomalies |-> d.anomalies,
         proofs |-> d.proofs, events |-> d.events, snapshots |-> d.snapshots,
         start |-> d.start, seen |-> d.seen, seenOwner |-> d.seenOwner,
         baseline |-> d.baseline, interrupted |-> d.interrupted]

WholeAnomaly(a) ==
    a = [owner |-> a.owner, window |-> a.window, kind |-> a.kind, episode |-> a.episode,
         at |-> a.at, journaled |-> a.journaled]

OneOfAKey(S) == \A a, b \in S : Key(a) = Key(b) => a = b

(* From d to e anomalies are added, not yet journaled, and none is lost. *)
Grown(d, e) ==
    /\ Whole(e)
    /\ d.anomalies \subseteq e.anomalies
    /\ \A a \in e.anomalies : a \in d.anomalies \/ (WholeAnomaly(a) /\ ~a.journaled)
    /\ OneOfAKey(d.anomalies) => OneOfAKey(e.anomalies)
    /\ IsFiniteSet(d.anomalies) => IsFiniteSet(e.anomalies)

LEMMA GrownAgain ==
    ASSUME NEW d, NEW e, NEW f, Grown(d, e), Grown(e, f)
    PROVE  Grown(d, f)
BY DEF Grown

LEMMA SameGrown ==
    ASSUME NEW d, NEW e, Whole(e), e.anomalies = d.anomalies
    PROVE  Grown(d, e)
BY DEF Grown

LEMMA ReportGrown ==
    ASSUME NEW d, Whole(d), NEW o, NEW w, NEW kind, NEW episode, NEW at
    PROVE  Grown(d, Report(d, Anomaly(o, w, kind, episode, at)))
<1> DEFINE a == Anomaly(o, w, kind, episode, at)
<1>1. Key(a) = <<o, w, kind, episode>> /\ ~a.journaled /\ WholeAnomaly(a)
      /\ a.owner = o /\ a.window = w /\ a.kind = kind /\ a.episode = episode
  BY DEF Key, Anomaly, WholeAnomaly
<1> HIDE DEF a
<1>2. CASE Reported(d, a)
  BY <1>2, SameGrown DEF Report, a
<1>3. CASE ~Reported(d, a)
  <2>1. Report(d, a) = [d EXCEPT !.anomalies = @ \cup {a}]
    BY <1>3 DEF Report
  <2>2. Whole(Report(d, a)) /\ Report(d, a).anomalies = d.anomalies \cup {a}
    BY <2>1 DEF Whole
  <2>3. \A b \in d.anomalies : Key(b) # Key(a)
    BY <1>1, <1>3 DEF Reported, Key
  <2>4. IsFiniteSet(d.anomalies) => IsFiniteSet(d.anomalies \cup {a})
    BY FS_AddElement
  <2> QED BY <1>1, <2>2, <2>3, <2>4 DEF Grown, OneOfAKey, a
<1> QED BY <1>2, <1>3

LEMMA SaveGrown ==
    ASSUME NEW d, Whole(d), NEW o, NEW w, NEW st, NEW epoch
    PROVE  Grown(d, Save(d, o, w, st, epoch))
<1>1. /\ Whole(Save(d, o, w, st, epoch))
      /\ Save(d, o, w, st, epoch).anomalies = d.anomalies
  BY DEF Whole, Save
<1> QED BY <1>1, SameGrown

LEMMA ResolveGrown ==
    ASSUME NEW d, Whole(d), NEW o, NEW st, NEW confirmed
    PROVE  Grown(d, Resolve(d, o, st, confirmed))
BY SameGrown, ReportGrown DEF Resolve

LEMMA BreakGrown ==
    ASSUME NEW d, Whole(d), NEW o, NEW epoch
    PROVE  Grown(d, Break(d, o, epoch))
<1> DEFINE st == Load(d, o, "weekly", epoch)
           e  == Resolve(d, o, st, 0)
<1>1. Grown(d, e) /\ Whole(e)
  BY ResolveGrown DEF Grown
<1>2. \A s : Grown(e, Save(e, o, "weekly", s, epoch))
  BY <1>1, SaveGrown
<1>3. \A s : Grown(d, Save(e, o, "weekly", s, epoch))
  BY <1>1, <1>2, GrownAgain
<1>4. Grown(d, d)
  BY SameGrown
<1> QED BY <1>3, <1>4 DEF Break

(* What evidence and anomalies leave alone. *)
Beside(d, e) ==
    /\ Whole(e)
    /\ e.active = d.active /\ e.detector = d.detector
    /\ e.snapshots = d.snapshots /\ e.seen = d.seen

LEMMA ResolveBeside ==
    ASSUME NEW d, Whole(d), NEW o, NEW st, NEW confirmed
    PROVE  Beside(d, Resolve(d, o, st, confirmed))
<1>1. \A a : Beside(d, Report(d, a))
  BY DEF Report, Beside, Whole
<1>2. Beside(d, d)
  BY DEF Beside
<1> QED BY <1>1, <1>2 DEF Resolve

LEMMA RecordFullGrown ==
    ASSUME NEW d, Whole(d), NEW at, NEW seen
    PROVE  Grown(d, RecordFull(d, at, seen))
<1> DEFINE proof == [method |-> "full_observed", at |-> at, seen |-> seen]
           other == {e \in d.events : e.window = "weekly" /\ e.at = at}
           noted == AddProof(d, proof)
           kept  == [noted EXCEPT !.events = @ \ other]
<1>1. Whole(noted) /\ noted.anomalies = d.anomalies
  BY DEF Whole, AddProof
<1> HIDE DEF noted, other
<1>2. Whole(kept) /\ kept.anomalies = d.anomalies
  BY <1>1 DEF Whole
<1> HIDE DEF kept, proof
<1>3. Whole(AddEvent(kept, "weekly", proof)) /\ AddEvent(kept, "weekly", proof).anomalies = d.anomalies
  BY <1>2 DEF Whole, AddEvent
<1>4. RecordFull(d, at, seen) = AddEvent(kept, "weekly", proof)
  BY DEF RecordFull, kept, proof, noted, other
<1> QED BY <1>3, <1>4, SameGrown

LEMMA RecordFullBeside ==
    ASSUME NEW d, Whole(d), NEW at, NEW seen
    PROVE  Beside(d, RecordFull(d, at, seen))
<1>1. \A e, f, w : Beside(d, e) => Beside(d, AddEvent(e, w, f))
  <2> SUFFICES ASSUME NEW e, NEW f, NEW w, Beside(d, e) PROVE Beside(d, AddEvent(e, w, f))
    OBVIOUS
  <2>1. \A x : Beside(d, [e EXCEPT !.events = x])
    BY DEF Beside, Whole
  <2> QED BY <2>1 DEF AddEvent
<1>2. \A f : Beside(d, AddProof(d, f))
  BY DEF Beside, Whole, AddProof
<1>3. \A e, x : Beside(d, e) => Beside(d, [e EXCEPT !.events = @ \ x])
  BY DEF Beside, Whole
<1> HIDE DEF Beside
<1> QED BY <1>1, <1>2, <1>3 DEF RecordFull

LEMMA BaselineGrown ==
    ASSUME NEW d, Whole(d), NEW w, NEW s, NEW st
    PROVE  Grown(d, Baseline(d, w, s, st))
BY SaveGrown DEF Baseline

(* The state of a detector has all of its fields. *)
WholeState(st) ==
    /\ st = [known |-> st.known, updated |-> st.updated, epoch |-> st.epoch, pct |-> st.pct,
             reset |-> st.reset, available |-> st.available, missing |-> st.missing,
             missingFrom |-> st.missingFrom, dates |-> st.dates,
             oscillation |-> st.oscillation, oscillationFrom |-> st.oscillationFrom,
             stable |-> st.stable, increasing |-> st.increasing, shift |-> st.shift,
             shiftFrom |-> st.shiftFrom, chain |-> st.chain, deferred |-> st.deferred]
    /\ st.known \in BOOLEAN /\ st.updated \in Nat /\ st.epoch \in Nat

(* How a comparison goes on from a state: it is still that detector's. *)
StillOf(st, z) ==
    /\ WholeState(z) /\ z.known = st.known /\ z.updated = st.updated /\ z.epoch = st.epoch
    /\ z.chain = st.chain /\ z.deferred = st.deferred

LEMMA ChainedStill ==
    ASSUME NEW st, WholeState(st), NEW x, NEW y, NEW z,
           z = [st EXCEPT !.chain = x, !.deferred = y]
    PROVE  WholeState(z) /\ z.chain = x /\ z.deferred = y
BY DEF WholeState

LEMMA RecordDateStill ==
    ASSUME NEW st, WholeState(st), NEW reset
    PROVE  /\ StillOf(st, RecordDate(st, reset)) /\ RecordDate(st, reset).pct = st.pct
           /\ RecordDate(st, reset).reset = st.reset
<1>1. PICK x, y, z : RecordDate(st, reset) = st
                     \/ RecordDate(st, reset) =
                            [st EXCEPT !.dates = x, !.stable = y, !.oscillation = z]
  BY DEF RecordDate
<1> QED BY <1>1 DEF StillOf, WholeState

LEMMA JudgeStill ==
    ASSUME NEW st, WholeState(st), NEW before, NEW s, NEW w
    PROVE  StillOf(st, Judge(st, before, s, w).state)
<1>1. PICK x, y, z : \/ Judge(st, before, s, w).state =
                            [st EXCEPT !.missing = x, !.missingFrom = y, !.available = z]
                     \/ \E u, v : Judge(st, before, s, w).state =
                            [[st EXCEPT !.missing = x, !.missingFrom = y, !.available = z]
                                EXCEPT !.oscillation = u, !.oscillationFrom = v]
  BY DEF Judge
<1> QED BY <1>1 DEF StillOf, WholeState

LEMMA EpisodesStill ==
    ASSUME NEW st, WholeState(st), NEW kind, NEW before, NEW now_, NEW jump, NEW epoch
    PROVE  StillOf(st, Episodes(st, kind, before, now_, jump, epoch).state)
<1> DEFINE calm == [st EXCEPT !.increasing = @ /\ jump]
           z    == Episodes(st, kind, before, now_, jump, epoch).state
<1>1. WholeState(calm) /\ calm.known = st.known /\ calm.updated = st.updated
      /\ calm.epoch = st.epoch /\ calm.chain = st.chain /\ calm.deferred = st.deferred
  BY DEF WholeState
<1>2. \/ z = calm
      \/ z = [calm EXCEPT !.increasing = TRUE]
      \/ \E x, y : z = [calm EXCEPT !.shift = x, !.shiftFrom = y]
  BY DEF Episodes
<1> HIDE DEF calm, z
<1>3. StillOf(calm, z)
  BY <1>1, <1>2 DEF StillOf, WholeState
<1> QED BY <1>1, <1>3 DEF StillOf, z

(* What a comparison reports of a window: the full evidence, the movement
   that was deferred, the anomaly of this sample. *)
LEMMA CompareSaves ==
    ASSUME NEW d, Whole(d), NEW w, NEW s, NEW st, NEW force
    PROVE  \E shown, final :
               /\ Compare(d, w, s, st, force) = Save(shown, s.owner, w, final, s.epoch)
               /\ Grown(d, shown) /\ Beside(d, shown)
               /\ WholeState(st) /\ s.epoch \in Nat =>
                      /\ WholeState(final) /\ final.epoch = s.epoch /\ final.pct = s.pct[w]
<1> DEFINE now_    == s.reset[w]
           before == IF st.reset # None THEN st.reset ELSE st.available
           full   == IF w = "weekly"
                     THEN observe_full_weekly_reset(IF force THEN NoChain ELSE st.chain, s)
                     ELSE [chain |-> NoChain, confirmed |-> 0]
           moved  == before # None /\ now_ # None /\ Distance(now_, before) > ShiftTolerance
           chained == [st EXCEPT !.chain = full.chain,
                                 !.deferred = IF full.chain.candidate /\ moved
                                              THEN <<s.epoch, before, now_>> ELSE <<>>]
           crossed == before # None /\ st.epoch < before /\ before <= s.epoch
           reset   == crossed \/ Recognized(st, w, before, s, full.confirmed, full.chain.candidate)
           judged  == IF reset THEN [kind |-> "none", state |-> chained]
                      ELSE Judge(chained, before, s, w)
           jump    == s.pct[w] > st.pct + Tolerance
           settled == Episodes(judged.state, judged.kind, before, now_, jump, s.epoch)
           episode == Episode(settled.kind, st, settled.state, before, now_, s.epoch)
           proven  == IF full.confirmed = 0 THEN d ELSE RecordFull(d, full.confirmed, s.epoch)
           solved  == IF w = "weekly" THEN Resolve(proven, s.owner, st, full.confirmed)
                      ELSE proven
           shown   == IF settled.kind = "none" THEN solved
                      ELSE Report(solved, Anomaly(s.owner, w, settled.kind, episode, s.epoch))
           final   == [RecordDate(settled.state, now_) EXCEPT
                           !.epoch = s.epoch, !.pct = s.pct[w], !.reset = now_,
                           !.available = IF now_ # None THEN now_ ELSE @]
<1>0. Compare(d, w, s, st, force) = Save(shown, s.owner, w, final, s.epoch)
  BY DEF Compare
<1>6. WholeState(st) /\ s.epoch \in Nat =>
          WholeState(final) /\ final.epoch = s.epoch /\ final.pct = s.pct[w]
  <2> SUFFICES ASSUME WholeState(st), s.epoch \in Nat
               PROVE  WholeState(final) /\ final.epoch = s.epoch /\ final.pct = s.pct[w]
    OBVIOUS
  <2>1. WholeState(chained)
    <3>1. \A x, y : WholeState([st EXCEPT !.chain = x, !.deferred = y])
      BY ChainedStill
    <3> QED BY <3>1
  <2>2. WholeState(judged.state)
    <3> HIDE DEF chained, reset
    <3> QED BY <2>1, JudgeStill DEF StillOf
  <2> HIDE DEF judged, before, jump
  <2>3. WholeState(settled.state)
    BY <2>2, EpisodesStill DEF StillOf
  <2> HIDE DEF settled
  <2>4. WholeState(RecordDate(settled.state, now_))
    BY <2>3, RecordDateStill DEF StillOf
  <2> DEFINE dated == RecordDate(settled.state, now_)
             v     == IF now_ # None THEN now_ ELSE dated.available
  <2>5. final = [dated EXCEPT !.epoch = s.epoch, !.pct = s.pct[w], !.reset = now_, !.available = v]
    OBVIOUS
  <2> HIDE DEF final, dated, v, now_
  <2>6. WholeState(dated)
    BY <2>4 DEF dated
  <2> DEFINE p == s.pct[w] t == s.epoch
  <2>7. final = [dated EXCEPT !.epoch = t, !.pct = p, !.reset = now_, !.available = v] /\ t \in Nat
    BY <2>5
  <2> HIDE DEF p, t
  <2>8. WholeState(final) /\ final.epoch = t /\ final.pct = p
    BY <2>6, <2>7 DEF WholeState
  <2> QED BY <2>8 DEF p, t
<1> HIDE DEF final, episode, settled, full
<1>1. /\ proven \in {d, RecordFull(d, full.confirmed, s.epoch)}
      /\ solved \in {proven, Resolve(proven, s.owner, st, full.confirmed)}
      /\ shown \in {solved, Report(solved, Anomaly(s.owner, w, settled.kind, episode, s.epoch))}
  OBVIOUS
<1> HIDE DEF proven, solved, shown
<1>2. Grown(d, proven) /\ Whole(proven)
  <2>1. Grown(d, d) /\ Grown(d, RecordFull(d, full.confirmed, s.epoch))
    BY SameGrown, RecordFullGrown
  <2> QED BY <1>1, <2>1 DEF Grown
<1>3. Grown(d, solved) /\ Whole(solved)
  <2>1. Grown(d, Resolve(proven, s.owner, st, full.confirmed))
    BY <1>2, ResolveGrown, GrownAgain
  <2> QED BY <1>1, <1>2, <2>1 DEF Grown
<1>4. Grown(d, shown) /\ Whole(shown)
  <2>1. Grown(d, Report(solved, Anomaly(s.owner, w, settled.kind, episode, s.epoch)))
    BY <1>3, ReportGrown, GrownAgain
  <2> QED BY <1>1, <1>3, <2>1 DEF Grown
<1>5. Beside(d, shown)
  <2>1. Beside(d, proven)
    <3>1. Beside(d, d) /\ Beside(d, RecordFull(d, full.confirmed, s.epoch))
      BY RecordFullBeside DEF Beside
    <3> QED BY <1>1, <3>1
  <2>2. Beside(d, solved)
    BY <1>1, <2>1, ResolveBeside DEF Beside
  <2>3. \A a : Beside(solved, Report(solved, a))
    BY <2>2 DEF Report, Beside, Whole
  <2> QED BY <1>1, <2>2, <2>3 DEF Beside
<1> QED BY <1>0, <1>4, <1>5, <1>6

LEMMA CompareGrown ==
    ASSUME NEW d, Whole(d), NEW w, NEW s, NEW st, NEW force
    PROVE  Grown(d, Compare(d, w, s, st, force))
BY CompareSaves, SaveGrown, GrownAgain DEF Grown


LEMMA DetectGrown ==
    ASSUME NEW d, Whole(d), NEW w, NEW s, NEW force
    PROVE  Grown(d, Detect(d, w, s, force))
BY SameGrown, BreakGrown, BaselineGrown, CompareGrown DEF Detect

LEMMA HistoryGrown ==
    ASSUME NEW d, Whole(d), NEW s, NEW prior, NEW priorActive
    PROVE  Grown(d, observe_weekly_reset_history(d, s, prior, priorActive))
<1>1. \A p, c : Whole(Record(d, p, c)) /\ Record(d, p, c).anomalies = d.anomalies
  <2> TAKE p, c
  <2>1. \A e : Whole(AddProof(d, e)) /\ AddProof(d, e).anomalies = d.anomalies
    BY DEF Whole, AddProof
  <2>2. \A e, f : Whole(e) => /\ Whole(AddEvent(e, "weekly", f))
                              /\ AddEvent(e, "weekly", f).anomalies = e.anomalies
    BY DEF Whole, AddEvent
  <2> QED BY <2>1, <2>2 DEF Record
<1>2. PICK noted, start, inter, base :
          /\ noted = d \/ \E p, c : noted = Record(d, p, c)
          /\ \/ observe_weekly_reset_history(d, s, prior, priorActive) = d
             \/ observe_weekly_reset_history(d, s, prior, priorActive) =
                    [noted EXCEPT !.start = start, !.seen = s.epoch, !.seenOwner = s.owner,
                                  !.interrupted = inter, !.baseline = base]
  BY DEF observe_weekly_reset_history
<1>3. Whole(noted) /\ noted.anomalies = d.anomalies
  BY <1>1, <1>2
<1>4. /\ Whole(observe_weekly_reset_history(d, s, prior, priorActive))
      /\ observe_weekly_reset_history(d, s, prior, priorActive).anomalies = d.anomalies
  BY <1>2, <1>3 DEF Whole
<1> QED BY <1>4, SameGrown

(* An observation only adds to the anomalies of the archive. *)
LEMMA SnapshotGrown ==
    ASSUME NEW d, Whole(d), NEW s
    PROVE  Grown(d, process_snapshot(d, s))
<1> DEFINE force  == d.active # s.owner
           left   == IF force /\ d.active \in Ids THEN Break(d, d.active, s.epoch) ELSE d
           turned == [left EXCEPT !.active = s.owner]
           five   == Detect(turned, "5h", s, force)
           weekly == Detect(five, "weekly", s, force)
<1>1. Grown(d, left) /\ Whole(left)
  BY BreakGrown, SameGrown DEF Grown
<1> HIDE DEF left
<1>2. Whole(turned) /\ turned.anomalies = left.anomalies
  BY <1>1 DEF Whole
<1> HIDE DEF turned
<1>3. Grown(d, turned)
  BY <1>1, <1>2, SameGrown, GrownAgain
<1>4. Grown(d, five) /\ Whole(five)
  BY <1>2, <1>3, DetectGrown, GrownAgain DEF Grown
<1> HIDE DEF five
<1>5. Grown(d, weekly) /\ Whole(weekly)
  BY <1>4, DetectGrown, GrownAgain DEF Grown
<1> HIDE DEF weekly
<1>6. \A prior : Grown(d, observe_weekly_reset_history(weekly, s, prior, d.active))
  BY <1>5, HistoryGrown, GrownAgain
<1> QED BY <1>6 DEF process_snapshot, weekly, five, turned, left

-----------------------------------------------------------------------------
(* An anomaly is marked as journaled only after its alert was accepted, and
   nothing that was found is ever taken out of the archive. *)
AnomalyInv ==
    /\ Whole(db) /\ OneOfAKey(db.anomalies) /\ IsFiniteSet(db.anomalies)
    /\ \A a \in db.anomalies : WholeAnomaly(a) /\ (a.journaled => Key(a) \in told)
    /\ found \subseteq Keys(db.anomalies)
    /\ \E S : pending \in Seq(S) /\ Keys(S) \subseteq Keys(db.anomalies)

LEMMA AnomaliesStart == Init => AnomalyInv
<1> SUFFICES ASSUME Init PROVE AnomalyInv
  OBVIOUS
<1>1. Whole(db) /\ db.anomalies = {}
  BY DEF Init, EmptyArchive, Whole
<1>2. IsFiniteSet({})
  BY FS_EmptySet
<1>3. pending \in Seq({}) /\ found = {}
  BY DEF Init
<1> QED BY <1>1, <1>2, <1>3 DEF AnomalyInv, OneOfAKey, Keys

LEMMA ObserveKept ==
    ASSUME AnomalyInv, NEW s, Observe(s)
    PROVE  AnomalyInv'
<1>1. /\ db' = process_snapshot(db, s) /\ pending = <<>>
      /\ found' = found \cup Keys(db'.anomalies)
      /\ UNCHANGED <<pending, told>>
  BY DEF Observe
<1>2. Grown(db, db')
  BY <1>1, SnapshotGrown DEF AnomalyInv
<1>3. Keys(db.anomalies) \subseteq Keys(db'.anomalies)
  BY <1>2 DEF Grown, Keys
<1>4. /\ Whole(db') /\ OneOfAKey(db'.anomalies) /\ IsFiniteSet(db'.anomalies)
      /\ \A a \in db'.anomalies : WholeAnomaly(a) /\ (a.journaled => Key(a) \in told)
  BY <1>2 DEF Grown, AnomalyInv
<1>5. found' \subseteq Keys(db'.anomalies)
  BY <1>1, <1>3 DEF AnomalyInv
<1>6. \E S : pending \in Seq(S) /\ Keys(S) \subseteq Keys(db'.anomalies)
  BY <1>3 DEF AnomalyInv
<1> QED BY <1>1, <1>4, <1>5, <1>6 DEF AnomalyInv

LEMMA ListKept ==
    ASSUME AnomalyInv, ListPending
    PROVE  AnomalyInv'
<1>1. /\ pending' \in [1..Cardinality(pending_anomalies) -> pending_anomalies]
      /\ UNCHANGED <<db, told, found>>
  BY DEF ListPending
<1>2. pending_anomalies \subseteq db.anomalies
  BY DEF pending_anomalies
<1>3. Cardinality(pending_anomalies) \in Nat
  BY <1>2, FS_Subset, FS_CardinalityType DEF AnomalyInv
<1>4. pending' \in Seq(pending_anomalies)
  BY <1>1, <1>3
<1>5. Keys(pending_anomalies) \subseteq Keys(db.anomalies)
  BY <1>2 DEF Keys
<1> QED BY <1>1, <1>4, <1>5 DEF AnomalyInv

LEMMA MarkedAnomaly ==
    ASSUME NEW a, WholeAnomaly(a), NEW b, b = [a EXCEPT !.journaled = TRUE]
    PROVE  /\ b.owner = a.owner /\ b.window = a.window /\ b.kind = a.kind
           /\ b.episode = a.episode /\ b.at = a.at /\ b.journaled /\ WholeAnomaly(b)
<1>1. PICK o, w, kind, episode, at, j :
          a = [owner |-> o, window |-> w, kind |-> kind, episode |-> episode,
               at |-> at, journaled |-> j]
  BY DEF WholeAnomaly
<1>2. b = [owner |-> o, window |-> w, kind |-> kind, episode |-> episode,
           at |-> at, journaled |-> TRUE]
  BY <1>1
<1> QED BY <1>1, <1>2 DEF WholeAnomaly

LEMMA MarkKept ==
    ASSUME AnomalyInv, mark_journaled
    PROVE  AnomalyInv'
<1> DEFINE a == InArchive(pending[1])
           b == [a EXCEPT !.journaled = TRUE]
<1>1. PICK S : pending \in Seq(S) /\ Keys(S) \subseteq Keys(db.anomalies)
  BY DEF AnomalyInv
<1>2. /\ pending # <<>> /\ db' = Marked(a) /\ Key(a) \in told
      /\ pending' = Tail(pending) /\ UNCHANGED <<told, found>>
  BY DEF mark_journaled, MayMark
<1>3. pending[1] \in S /\ pending' \in Seq(S)
  BY <1>1, <1>2
<1>4. a \in db.anomalies
  <2>1. \E c \in db.anomalies : Key(c) = Key(pending[1])
    BY <1>1, <1>3 DEF Keys
  <2> QED BY <2>1 DEF InArchive
<1> HIDE DEF a, b
<1>5. WholeAnomaly(b) /\ b.journaled /\ Key(b) = Key(a)
  <2>1. WholeAnomaly(a)
    BY <1>4 DEF AnomalyInv
  <2>2. /\ b.owner = a.owner /\ b.window = a.window /\ b.kind = a.kind
        /\ b.episode = a.episode /\ b.journaled /\ WholeAnomaly(b)
    BY <2>1, MarkedAnomaly DEF b
  <2> QED BY <2>2 DEF Key
<1>6. Whole(db') /\ db'.anomalies = (db.anomalies \ {a}) \cup {b}
  BY <1>2 DEF Marked, AnomalyInv, Whole, b
<1>7. Keys(db'.anomalies) = Keys(db.anomalies)
  BY <1>4, <1>5, <1>6 DEF Keys
<1>8. OneOfAKey(db'.anomalies)
  <2>1. OneOfAKey(db.anomalies)
    BY DEF AnomalyInv
  <2>2. \A c \in db.anomalies \ {a} : Key(c) # Key(b)
    BY <1>4, <1>5, <2>1 DEF OneOfAKey
  <2> QED BY <1>6, <2>1, <2>2 DEF OneOfAKey
<1>9. IsFiniteSet(db'.anomalies)
  <2>1. IsFiniteSet(db.anomalies \ {a})
    BY FS_RemoveElement DEF AnomalyInv
  <2> QED BY <1>6, <2>1, FS_AddElement
<1>10. \A c \in db'.anomalies : WholeAnomaly(c) /\ (c.journaled => Key(c) \in told)
  BY <1>2, <1>5, <1>6 DEF AnomalyInv
<1> QED BY <1>1, <1>2, <1>3, <1>6, <1>7, <1>8, <1>9, <1>10 DEF AnomalyInv

LEMMA AnomaliesKept == AnomalyInv /\ [Next]_vars => AnomalyInv'
<1> SUFFICES ASSUME AnomalyInv, [Next]_vars PROVE AnomalyInv'
  OBVIOUS
<1>1. CASE Poll
  BY <1>1, ObserveKept DEF Poll
<1>2. CASE ListPending
  BY <1>2, ListKept
<1>3. CASE Register
  <2>1. told \subseteq told' /\ UNCHANGED <<db, pending, found>>
    BY <1>3 DEF Register
  <2> QED BY <2>1 DEF AnomalyInv
<1>4. CASE mark_journaled
  BY <1>4, MarkKept
<1>5. CASE RoundEnds
  <2>1. pending' = <<>> /\ UNCHANGED <<db, told, found>>
    BY <1>5 DEF RoundEnds
  <2>2. pending' \in Seq({}) /\ Keys({}) = {}
    BY <2>1 DEF Keys
  <2> QED BY <2>1, <2>2 DEF AnomalyInv
<1>6. CASE UNCHANGED vars
  BY <1>6 DEF vars, AnomalyInv
<1> QED BY <1>1, <1>2, <1>3, <1>4, <1>5, <1>6 DEF Next, journal_quota_anomalies

(* Whatever fails between the two writes, the registration of its alert and
   the mark in the archive, an anomaly that was ever reported is registered
   or still listed as pending. *)
THEOREM AnomaliesAreOwed == Spec => []OwedOrTold
<1>1. AnomalyInv => OwedOrTold
  BY DEF AnomalyInv, OwedOrTold, Keys, pending_anomalies
<1> QED BY <1>1, AnomaliesStart, AnomaliesKept, PTL DEF Spec

-----------------------------------------------------------------------------
Detectors == Ids \X Windows

Table(f) == f = [k \in Detectors |-> f[k]]

(* No detector is ahead of time t. *)
Timely(d, t) ==
    /\ Whole(d) /\ d.snapshots = {} /\ d.seen \in 0..t
    /\ Table(d.detector)
    /\ \A k \in Detectors : /\ WholeState(d.detector[k])
                            /\ d.detector[k].updated <= t /\ d.detector[k].epoch <= t

(* Only one detector of d is another one in e. *)
OneDetector(d, e, k) ==
    /\ Whole(e) /\ e.active = d.active /\ e.snapshots = d.snapshots /\ e.seen = d.seen
    /\ Table(e.detector)
    /\ \A l \in Detectors : l # k => e.detector[l] = d.detector[l]

(* Nothing is archived here, so that each detector starts from its default. *)
LEMMA LoadIs ==
    ASSUME NEW d, d.snapshots = {}, NEW o, NEW w, NEW epoch
    PROVE  Load(d, o, w, epoch) = d.detector[<<o, w>>]
BY DEF Load, Before

(* e is d with the detector of k saved in the state st. *)
Saved(d, e, k, st, epoch) ==
    /\ OneDetector(d, e, k) /\ WholeState(e.detector[k])
    /\ e.detector[k].known = TRUE /\ e.detector[k].updated = epoch
    /\ e.detector[k].epoch = st.epoch /\ e.detector[k].pct = st.pct
    /\ e.detector[k].reset = st.reset
    /\ e.detector[k].deferred = st.deferred /\ e.detector[k].chain = st.chain

LEMMA SaveOne ==
    ASSUME NEW d, Whole(d), Table(d.detector), NEW o \in Ids, NEW w \in Windows,
           NEW st, WholeState(st), NEW epoch \in Nat,
           NEW e, e = Save(d, o, w, st, epoch), NEW k, k = <<o, w>>
    PROVE  Saved(d, e, k, st, epoch)
<1> DEFINE z == [st EXCEPT !.known = TRUE, !.updated = epoch]
<1>1. k \in Detectors
  BY DEF Detectors
<1>2. e = [d EXCEPT !.detector[k] = z]
  BY DEF Save
<1>3. /\ WholeState(z) /\ z.known = TRUE /\ z.updated = epoch /\ z.epoch = st.epoch
      /\ z.pct = st.pct /\ z.deferred = st.deferred /\ z.chain = st.chain /\ z.reset = st.reset
  <2>1. z = [st EXCEPT !.known = TRUE, !.updated = epoch]
    OBVIOUS
  <2> HIDE DEF z
  <2> QED BY <2>1 DEF WholeState
<1> HIDE DEF z
<1>4. /\ Whole(e) /\ e.active = d.active /\ e.snapshots = d.snapshots /\ e.seen = d.seen
      /\ e.detector = [d.detector EXCEPT ![k] = z]
  BY <1>2 DEF Whole
<1>5. DOMAIN d.detector = Detectors
  BY DEF Table
<1>6. /\ Table(e.detector)
      /\ e.detector[k] = z
      /\ \A l \in Detectors : l # k => e.detector[l] = d.detector[l]
  BY <1>1, <1>4, <1>5 DEF Table
<1> QED BY <1>3, <1>4, <1>6 DEF OneDetector, Saved

LEMMA TimelyAgain ==
    ASSUME NEW t \in Nat, NEW d, Timely(d, t), NEW k \in Detectors, NEW e, OneDetector(d, e, k),
           WholeState(e.detector[k]), e.detector[k].updated <= t, e.detector[k].epoch <= t
    PROVE  Timely(e, t)
BY DEF Timely, OneDetector

(* A sample without a value for the weekly window leaves its detector so
   that the same sample leaves it alone. *)
Broken(st, epoch) ==
    \/ ~st.known
    \/ epoch <= st.epoch
    \/ st.known /\ st.deferred = <<>> /\ st.chain = NoChain /\ st.updated = epoch

LEMMA BreakOne ==
    ASSUME NEW epoch \in Nat, NEW d, Timely(d, epoch), NEW o \in Ids
    PROVE  /\ Timely(Break(d, o, epoch), epoch)
           /\ OneDetector(d, Break(d, o, epoch), <<o, "weekly">>)
           /\ Broken(Break(d, o, epoch).detector[<<o, "weekly">>], epoch)
<1> DEFINE k  == <<o, "weekly">>
           st == d.detector[k]
           c  == Resolve(d, o, st, 0)
           z  == [st EXCEPT !.deferred = <<>>, !.chain = NoChain]
           e  == Save(c, o, "weekly", z, epoch)
<1>1. k \in Detectors /\ "weekly" \in Windows
  BY DEF Detectors, Windows
<1>2. Load(d, o, "weekly", epoch) = st
  BY LoadIs DEF Timely
<1>3. CASE ~st.known \/ epoch <= st.epoch
  <2>1. Break(d, o, epoch) = d
    BY <1>2, <1>3 DEF Break
  <2>2. OneDetector(d, d, k)
    BY DEF OneDetector, Timely
  <2> QED BY <1>3, <2>1, <2>2 DEF Broken
<1>4. CASE ~(~st.known \/ epoch <= st.epoch)
  <2>1. Break(d, o, epoch) = e
    BY <1>2, <1>4 DEF Break
  <2>2. WholeState(st) /\ st.epoch <= epoch
    <3> HIDE DEF k
    <3> QED BY <1>1 DEF Timely
  <2>3. Beside(d, c)
    BY ResolveBeside DEF Timely
  <2>a. z = [st EXCEPT !.deferred = <<>>, !.chain = NoChain]
    OBVIOUS
  <2>4. e = Save(c, o, "weekly", z, epoch) /\ k = <<o, "weekly">>
    OBVIOUS
  <2> HIDE DEF st, c, z, e, k
  <2>5. WholeState(z) /\ z.deferred = <<>> /\ z.chain = NoChain /\ z.epoch = st.epoch
    BY <2>2, <2>a DEF WholeState
  <2>6. /\ Whole(c) /\ c.detector = d.detector /\ Table(c.detector)
    BY <2>3 DEF Beside, Timely
  <2>7. /\ OneDetector(c, e, k)
        /\ WholeState(e.detector[k])
        /\ e.detector[k].known = TRUE /\ e.detector[k].updated = epoch
        /\ e.detector[k].epoch = st.epoch
        /\ e.detector[k].deferred = <<>> /\ e.detector[k].chain = NoChain
    <3>1. "weekly" \in Windows
      BY <1>1
    <3>2. Saved(c, e, k, z, epoch)
      BY <2>4, <2>5, <2>6, <3>1, SaveOne
    <3> QED BY <2>5, <3>2 DEF Saved
  <2>8. OneDetector(d, e, k)
    BY <2>3, <2>7 DEF OneDetector, Beside
  <2>9. Timely(e, epoch)
    BY <1>1, <2>2, <2>7, <2>8, TimelyAgain
  <2>10. Broken(e.detector[k], epoch)
    BY <2>7 DEF Broken
  <2>11. Timely(Break(d, o, epoch), epoch)
    BY <2>1, <2>9
  <2>12. OneDetector(d, Break(d, o, epoch), k)
    BY <2>1, <2>8
  <2>13. Broken(Break(d, o, epoch).detector[k], epoch)
    BY <2>1, <2>10
  <2> QED BY <2>4, <2>11, <2>12, <2>13
<1> QED BY <1>3, <1>4


(* A detector that a sample leaves alone. *)
Quiet(d, s, w) ==
    LET st == d.detector[<<s.owner, w>>]
    IN IF s.pct[w] = None THEN w = "weekly" => Broken(st, s.epoch)
       ELSE st.pct # None /\ s.epoch <= st.epoch

LEMMA BreakNothing ==
    ASSUME NEW epoch \in Nat, NEW d, Timely(d, epoch), NEW o \in Ids,
           Broken(d.detector[<<o, "weekly">>], epoch)
    PROVE  Break(d, o, epoch) = d
<1> DEFINE k  == <<o, "weekly">>
           st == d.detector[k]
           z  == [st EXCEPT !.deferred = <<>>, !.chain = NoChain]
           y  == [z EXCEPT !.known = TRUE, !.updated = epoch]
<1>1. k \in Detectors
  BY DEF Detectors, Windows
<1>2. Load(d, o, "weekly", epoch) = st
  BY LoadIs DEF Timely
<1>3. CASE ~st.known \/ epoch <= st.epoch
  BY <1>2, <1>3 DEF Break
<1>4. CASE ~(~st.known \/ epoch <= st.epoch)
  <2>1. st.known /\ st.deferred = <<>> /\ st.chain = NoChain /\ st.updated = epoch
    BY <1>4 DEF Broken
  <2>2. Break(d, o, epoch) = Save(Resolve(d, o, st, 0), o, "weekly", z, epoch)
    BY <1>2, <1>4 DEF Break
  <2>3. Resolve(d, o, st, 0) = d
    BY <2>1 DEF Resolve
  <2>4. Save(d, o, "weekly", z, epoch) = [d EXCEPT !.detector[k] = y]
    BY DEF Save
  <2>5. WholeState(st)
    <3> HIDE DEF k
    <3> QED BY <1>1 DEF Timely
  <2>6. z = [st EXCEPT !.deferred = <<>>, !.chain = NoChain]
    OBVIOUS
  <2>7. y = [z EXCEPT !.known = TRUE, !.updated = epoch]
    OBVIOUS
  <2>8. st = d.detector[k]
    OBVIOUS
  <2> HIDE DEF y, z, st, k
  <2>9. z = st
    BY <2>1, <2>5, <2>6 DEF WholeState
  <2>10. st.known = TRUE
    BY <2>1, <2>5 DEF WholeState
  <2>11. y = st
    BY <2>1, <2>5, <2>7, <2>9, <2>10 DEF WholeState
  <2>12. [d EXCEPT !.detector[k] = st] = d
    <3>1. Whole(d) /\ Table(d.detector)
      BY DEF Timely
    <3>2. [d.detector EXCEPT ![k] = st] = d.detector
      BY <1>1, <2>8, <3>1 DEF Table
    <3> QED BY <3>1, <3>2 DEF Whole
  <2> QED BY <2>2, <2>3, <2>4, <2>11, <2>12
<1> QED BY <1>3, <1>4

LEMMA QuietStays ==
    ASSUME NEW s, s.epoch \in Nat, s.owner \in Ids, NEW w \in Windows,
           NEW d, Timely(d, s.epoch), Quiet(d, s, w)
    PROVE  Detect(d, w, s, FALSE) = d
<1>1. Load(d, s.owner, w, s.epoch) = d.detector[<<s.owner, w>>]
  BY LoadIs DEF Timely
<1>2. CASE s.pct[w] = None
  BY <1>2, BreakNothing DEF Detect, Quiet
<1>3. CASE s.pct[w] # None
  BY <1>1, <1>3 DEF Detect, Quiet, IsOld
<1> QED BY <1>2, <1>3


LEMMA SameQuiet ==
    ASSUME NEW s, s.owner \in Ids, NEW w \in Windows, NEW v \in Windows, v # w,
           NEW d, NEW e, OneDetector(d, e, <<s.owner, v>>), Quiet(d, s, w)
    PROVE  Quiet(e, s, w)
<1>1. <<s.owner, w>> \in Detectors /\ <<s.owner, w>> # <<s.owner, v>>
  BY DEF Detectors
<1>2. e.detector[<<s.owner, w>>] = d.detector[<<s.owner, w>>]
  BY <1>1 DEF OneDetector
<1> QED BY <1>2 DEF Quiet

(* What a saved detector was compared with or began from is this sample. *)
LEMMA SavedQuiet ==
    ASSUME NEW s, s.epoch \in Nat, s.owner \in Ids, NEW w \in Windows, s.pct[w] # None,
           NEW d, Timely(d, s.epoch), NEW shown, Beside(d, shown),
           NEW st, WholeState(st), st.epoch = s.epoch, st.pct = s.pct[w],
           NEW e, e = Save(shown, s.owner, w, st, s.epoch)
    PROVE  Timely(e, s.epoch) /\ OneDetector(d, e, <<s.owner, w>>) /\ Quiet(e, s, w)
<1> DEFINE k == <<s.owner, w>>
<1>1. k \in Detectors
  BY DEF Detectors
<1>2. Whole(shown) /\ Table(shown.detector)
  BY DEF Beside, Timely
<1>3. k = <<s.owner, w>>
  OBVIOUS
<1> HIDE DEF k
<1>4. Saved(shown, e, k, st, s.epoch)
  BY <1>2, <1>3, SaveOne
<1>5. OneDetector(d, e, k)
  BY <1>4 DEF Saved, OneDetector, Beside
<1>6. Timely(e, s.epoch)
  BY <1>1, <1>4, <1>5, TimelyAgain DEF Saved
<1>7. Quiet(e, s, w)
  BY <1>3, <1>4 DEF Saved, Quiet
<1> QED BY <1>3, <1>5, <1>6, <1>7

LEMMA BaselineQuiet ==
    ASSUME NEW s, s.epoch \in Nat, s.owner \in Ids, NEW w \in Windows, s.pct[w] # None,
           NEW d, Timely(d, s.epoch), NEW st, WholeState(st), NEW e, e = Baseline(d, w, s, st)
    PROVE  Timely(e, s.epoch) /\ OneDetector(d, e, <<s.owner, w>>) /\ Quiet(e, s, w)
<1> DEFINE chain == IF w = "weekly" THEN observe_full_weekly_reset(NoChain, s).chain ELSE st.chain
           fresh == [StateDefault EXCEPT
                        !.known = st.known, !.updated = st.updated, !.deferred = st.deferred,
                        !.epoch = s.epoch, !.pct = s.pct[w],
                        !.reset = s.reset[w], !.available = s.reset[w], !.chain = chain]
           dated == RecordDate(fresh, s.reset[w])
<1>1. e = Save(d, s.owner, w, dated, s.epoch)
  BY DEF Baseline
<1>2. WholeState(fresh) /\ fresh.epoch = s.epoch /\ fresh.pct = s.pct[w]
  <2> DEFINE p == s.pct[w] r == s.reset[w] t == s.epoch
  <2>1. fresh = [StateDefault EXCEPT
                    !.known = st.known, !.updated = st.updated, !.deferred = st.deferred,
                    !.epoch = t, !.pct = p, !.reset = r, !.available = r, !.chain = chain]
    OBVIOUS
  <2>2. t \in Nat
    OBVIOUS
  <2> HIDE DEF fresh, p, r, t, chain
  <2>3. WholeState(fresh) /\ fresh.epoch = t /\ fresh.pct = p
    BY <2>1, <2>2 DEF WholeState, StateDefault
  <2> QED BY <2>3 DEF t, p
<1> HIDE DEF fresh
<1>3. WholeState(dated) /\ dated.epoch = s.epoch /\ dated.pct = s.pct[w]
  BY <1>2, RecordDateStill DEF StillOf
<1> HIDE DEF dated
<1>4. Beside(d, d)
  BY DEF Beside, Timely
<1> QED BY <1>1, <1>3, <1>4, SavedQuiet

LEMMA CompareQuiet ==
    ASSUME NEW s, s.epoch \in Nat, s.owner \in Ids, NEW w \in Windows, s.pct[w] # None,
           NEW d, Timely(d, s.epoch), NEW st, WholeState(st), NEW force,
           NEW e, e = Compare(d, w, s, st, force)
    PROVE  Timely(e, s.epoch) /\ OneDetector(d, e, <<s.owner, w>>) /\ Quiet(e, s, w)
<1>1. Whole(d)
  BY DEF Timely
<1>2. PICK shown, final :
          /\ Compare(d, w, s, st, force) = Save(shown, s.owner, w, final, s.epoch)
          /\ Grown(d, shown) /\ Beside(d, shown)
          /\ WholeState(st) /\ s.epoch \in Nat =>
                 /\ WholeState(final) /\ final.epoch = s.epoch /\ final.pct = s.pct[w]
  BY <1>1, CompareSaves
<1> QED BY <1>2, SavedQuiet

LEMMA DetectQuiet ==
    ASSUME NEW s, s.epoch \in Nat, s.owner \in Ids, NEW w \in Windows, NEW force,
           NEW d, Timely(d, s.epoch), NEW e, e = Detect(d, w, s, force)
    PROVE  Timely(e, s.epoch) /\ OneDetector(d, e, <<s.owner, w>>) /\ Quiet(e, s, w)
<1> DEFINE k  == <<s.owner, w>>
           st == d.detector[k]
<1>1. k \in Detectors
  BY DEF Detectors
<1>2. Load(d, s.owner, w, s.epoch) = st
  BY LoadIs DEF Timely
<1>3. WholeState(st)
  <2> HIDE DEF k
  <2> QED BY <1>1 DEF Timely
<1>4. OneDetector(d, d, k)
  BY DEF OneDetector, Timely
<1>5. CASE s.pct[w] = None /\ w = "weekly"
  <2>1. e = Break(d, s.owner, s.epoch)
    BY <1>5 DEF Detect
  <2> QED BY <1>5, <2>1, BreakOne DEF Quiet
<1>6. CASE s.pct[w] = None /\ w # "weekly"
  <2>1. e = d
    BY <1>6 DEF Detect
  <2> QED BY <1>4, <1>6, <2>1 DEF Quiet
<1>7. CASE s.pct[w] # None /\ ((force /\ ~st.known) \/ st.pct = None)
  <2>1. e = Baseline(d, w, s, st)
    BY <1>2, <1>7 DEF Detect
  <2> QED BY <1>3, <1>7, <2>1, BaselineQuiet
<1>8. CASE /\ s.pct[w] # None /\ ~((force /\ ~st.known) \/ st.pct = None)
           /\ s.epoch <= st.epoch
  <2>1. e = d
    BY <1>2, <1>8 DEF Detect, IsOld
  <2> QED BY <1>4, <1>8, <2>1 DEF Quiet
<1>9. CASE /\ s.pct[w] # None /\ ~((force /\ ~st.known) \/ st.pct = None)
           /\ ~(s.epoch <= st.epoch)
  <2>1. e = Compare(d, w, s, st, force)
    BY <1>2, <1>9 DEF Detect, IsOld
  <2> QED BY <1>3, <1>9, <2>1, CompareQuiet
<1> QED BY <1>5, <1>6, <1>7, <1>8, <1>9


-----------------------------------------------------------------------------
(* The archive after the sample s: the sample again would find each detector
   quiet, its owner active and its history not older. *)
Settled(d, s) ==
    /\ Timely(d, s.epoch) /\ d.active = s.owner /\ d.seen = s.epoch
    /\ \A w \in Windows : Quiet(d, s, w)

LEMMA SettledStays ==
    ASSUME NEW s, s.epoch \in Nat \ {0}, s.owner \in Ids, NEW d, Settled(d, s)
    PROVE  process_snapshot(d, s) = d
<1>1. /\ Timely(d, s.epoch) /\ Whole(d) /\ d.active = s.owner /\ d.seen = s.epoch
      /\ "5h" \in Windows /\ "weekly" \in Windows
  BY DEF Settled, Timely, Windows
<1>2. [d EXCEPT !.active = s.owner] = d
  BY <1>1 DEF Whole
<1>3. Detect(d, "5h", s, FALSE) = d /\ Detect(d, "weekly", s, FALSE) = d
  BY <1>1, QuietStays DEF Settled
<1>4. \A prior : observe_weekly_reset_history(d, s, prior, d.active) = d
  BY <1>1 DEF observe_weekly_reset_history
<1> QED BY <1>1, <1>2, <1>3, <1>4 DEF process_snapshot

(* What was updated last was updated before the sample. *)
LEMMA PriorIsEarlier ==
    ASSUME NEW t \in Nat, NEW d, Timely(d, t)
    PROVE  (IF \E k \in Ids \X Windows : d.detector[k].known
            THEN LET k == CHOOSE k \in Ids \X Windows :
                              \A l \in Ids \X Windows :
                                  d.detector[l].updated <= d.detector[k].updated
                 IN d.detector[k].updated
            ELSE 0) \in 0..t
<1> DEFINE K         == Ids \X Windows
           u(k)      == d.detector[k].updated
           Latest(k) == \A l \in K : u(l) <= u(k)
<1>1. \A k \in K : u(k) \in Nat /\ u(k) <= t
  BY DEF Timely, Detectors, WholeState
<1>2. CASE \E k \in K : d.detector[k].known
  <2> DEFINE T == {t - u(k) : k \in K}
  <2> HIDE DEF u, K
  <2>1. T \subseteq Nat /\ T # {}
    BY <1>1, <1>2
  <2> HIDE DEF T
  <2>2. PICK x \in T : \A y \in T : ~ (<<y, x>> \in OpToRel(<, Nat))
    BY <2>1, NatLessThanWellFounded, WFMin, Zenon
  <2>3. \A y \in T : ~ (y < x)
    BY <2>1, <2>2 DEF OpToRel
  <2>4. PICK k0 \in K : x = t - u(k0)
    BY DEF T
  <2>5. \A l \in K : u(l) <= u(k0)
    <3> SUFFICES ASSUME NEW l \in K PROVE u(l) <= u(k0)
      OBVIOUS
    <3>1. t - u(l) \in T
      BY DEF T
    <3>2. ~ (t - u(l) < t - u(k0))
      BY <2>3, <2>4, <3>1
    <3> QED BY <1>1, <3>2
  <2>6. Latest(CHOOSE k \in K : Latest(k)) /\ (CHOOSE k \in K : Latest(k)) \in K
    BY <2>5
  <2>7. u(CHOOSE k \in K : Latest(k)) \in 0..t
    <3> HIDE DEF Latest
    <3> QED BY <1>1, <2>6
  <2> QED BY <1>2, <2>7 DEF u, K
<1>3. CASE ~\E k \in K : d.detector[k].known
  BY <1>3
<1> QED BY <1>2, <1>3


LEMMA HistoryQuiet ==
    ASSUME NEW s, s.epoch \in Nat, NEW d, Timely(d, s.epoch), d.seen < s.epoch,
           NEW prior \in Nat, prior < s.epoch, NEW active,
           NEW e, e = observe_weekly_reset_history(d, s, prior, active)
    PROVE  /\ Timely(e, s.epoch) /\ e.active = d.active /\ e.seen = s.epoch
           /\ e.detector = d.detector
<1>1. \A p, c : Beside(d, Record(d, p, c))
  <2> TAKE p, c
  <2>a. \A x, y : Beside(d, x) => /\ Beside(d, [x EXCEPT !.proofs = y])
                                  /\ Beside(d, [x EXCEPT !.events = y])
    BY DEF Beside, Whole
  <2>1. \A x, y : Beside(d, x) => Beside(d, AddProof(x, y))
    BY <2>a DEF AddProof
  <2>2. \A x, y : Beside(d, x) => Beside(d, AddEvent(x, "weekly", y))
    BY <2>a DEF AddEvent
  <2>3. Beside(d, d)
    BY DEF Beside, Timely
  <2> HIDE DEF Beside
  <2> QED BY <2>1, <2>2, <2>3 DEF Record
<1>2. Beside(d, d) /\ d.seen \in Nat
  BY DEF Beside, Timely
<1> DEFINE first == BaseOf(d, s)
           inter == IF d.start # None THEN d.interrupted ELSE Interrupted(d, s, active)
           chain == Load(d, s.owner, "weekly", s.epoch).chain
           noted == IF Complete(s) /\ first # {} THEN Record(d, CHOOSE p \in first : TRUE, s) ELSE d
           start == IF Complete(s) /\ noted.start = None
                    THEN EvidenceStart(noted, s, chain, first, inter) ELSE noted.start
           base  == IF Complete(s) THEN {s} ELSE first
<1>b. observe_weekly_reset_history(d, s, prior, active) =
          IF s.epoch <= (IF d.seen > 0 THEN d.seen ELSE prior) THEN d
          ELSE [noted EXCEPT !.start = start, !.seen = s.epoch, !.seenOwner = s.owner,
                             !.interrupted = inter, !.baseline = base]
  BY DEF observe_weekly_reset_history
<1>a. Beside(d, noted)
  BY <1>1, <1>2
<1> HIDE DEF noted, start, inter, base
<1>3. e = [noted EXCEPT !.start = start, !.seen = s.epoch, !.seenOwner = s.owner,
                        !.interrupted = inter, !.baseline = base]
  <2>1. ~(s.epoch <= (IF d.seen > 0 THEN d.seen ELSE prior))
    BY <1>2
  <2> QED BY <1>b, <2>1
<1> DEFINE t == s.epoch o == s.owner
<1>4. /\ e = [noted EXCEPT !.start = start, !.seen = t, !.seenOwner = o,
                           !.interrupted = inter, !.baseline = base]
  BY <1>3
<1> HIDE DEF t, o
<1>5. /\ Whole(e) /\ e.active = noted.active /\ e.seen = t
      /\ e.detector = noted.detector /\ e.snapshots = noted.snapshots
  <2>1. Whole(noted)
    BY <1>a DEF Beside
  <2> QED BY <1>4, <2>1 DEF Whole
<1>6. e.active = d.active /\ e.detector = d.detector /\ e.snapshots = d.snapshots
  BY <1>a, <1>5 DEF Beside
<1> QED BY <1>5, <1>6 DEF Timely, t

LEMMA TimelyLater ==
    ASSUME NEW t \in Nat, NEW u \in Nat, t <= u, NEW d, Timely(d, t)
    PROVE  Timely(d, u)
<1>1. \A k \in Detectors : WholeState(d.detector[k]) => d.detector[k].updated \in Nat
                                                     /\ d.detector[k].epoch \in Nat
  BY DEF WholeState
<1> QED BY <1>1 DEF Timely

LEMMA SettledAfter ==
    ASSUME NEW t \in Nat, NEW d, Timely(d, t), NEW s, s.epoch \in Nat, t < s.epoch, s.owner \in Ids
    PROVE  Settled(process_snapshot(d, s), s)
<1> DEFINE prior  == IF \E k \in Ids \X Windows : d.detector[k].known
                     THEN LET k == CHOOSE k \in Ids \X Windows :
                                       \A l \in Ids \X Windows :
                                           d.detector[l].updated <= d.detector[k].updated
                          IN d.detector[k].updated
                     ELSE 0
           force  == d.active # s.owner
           left   == IF force /\ d.active \in Ids THEN Break(d, d.active, s.epoch) ELSE d
           turned == [left EXCEPT !.active = s.owner]
           five   == Detect(turned, "5h", s, force)
           weekly == Detect(five, "weekly", s, force)
           e      == observe_weekly_reset_history(weekly, s, prior, d.active)
<1>1. process_snapshot(d, s) = e
  BY DEF process_snapshot
<1>2. prior \in Nat /\ prior < s.epoch
  <2>1. prior \in 0..t
    BY PriorIsEarlier
  <2> HIDE DEF prior
  <2> QED BY <2>1
<1> HIDE DEF prior
<1>3. Timely(d, s.epoch) /\ d.seen < s.epoch
  <2>1. Timely(d, s.epoch)
    BY TimelyLater
  <2> QED BY <2>1 DEF Timely
<1>4. Timely(left, s.epoch) /\ left.seen = d.seen
  <2>1. CASE force /\ d.active \in Ids
    <3>1. left = Break(d, d.active, s.epoch)
      BY <2>1
    <3> HIDE DEF left
    <3> QED BY <1>3, <2>1, <3>1, BreakOne DEF OneDetector
  <2>2. CASE ~(force /\ d.active \in Ids)
    BY <1>3, <2>2
  <2> QED BY <2>1, <2>2
<1> HIDE DEF left
<1>5. Timely(turned, s.epoch) /\ turned.seen = d.seen /\ turned.active = s.owner
  <2> DEFINE o == s.owner
  <2>1. turned = [left EXCEPT !.active = o]
    OBVIOUS
  <2> HIDE DEF o, turned
  <2>2. /\ Whole(turned) /\ turned.seen = left.seen /\ turned.active = o
        /\ turned.detector = left.detector /\ turned.snapshots = left.snapshots
    BY <1>4, <2>1 DEF Timely, Whole
  <2> QED BY <1>4, <2>2 DEF Timely, o
<1>6. "5h" \in Windows /\ "weekly" \in Windows /\ Windows = {"5h", "weekly"}
  BY DEF Windows
<1> HIDE DEF turned, force
<1>7. /\ Timely(five, s.epoch) /\ OneDetector(turned, five, <<s.owner, "5h">>)
      /\ Quiet(five, s, "5h")
  BY <1>5, <1>6, DetectQuiet
<1> HIDE DEF five
<1>8. /\ Timely(weekly, s.epoch) /\ OneDetector(five, weekly, <<s.owner, "weekly">>)
      /\ Quiet(weekly, s, "weekly")
  BY <1>6, <1>7, DetectQuiet
<1> HIDE DEF weekly
<1>9. Quiet(weekly, s, "5h")
  BY <1>6, <1>7, <1>8, SameQuiet
<1>10. weekly.active = s.owner /\ weekly.seen < s.epoch
  BY <1>3, <1>5, <1>7, <1>8 DEF OneDetector
<1>11. /\ Timely(e, s.epoch) /\ e.active = weekly.active /\ e.seen = s.epoch
       /\ e.detector = weekly.detector
  BY <1>2, <1>8, <1>10, HistoryQuiet
<1> HIDE DEF e
<1>12. Quiet(e, s, "5h") /\ Quiet(e, s, "weekly")
  BY <1>8, <1>9, <1>11 DEF Quiet
<1> QED BY <1>1, <1>6, <1>10, <1>11, <1>12 DEF Settled


(* The archive is settled on the latest sample, whatever is journaled in
   between. *)
ReplayInv ==
    /\ Now \in Nat /\ Timely(db, Now)
    /\ \E S : log \in Seq(S)
    /\ log # <<>> => LET s == log[Len(log)]
                     IN s.epoch \in Nat \ {0} /\ s.owner \in Ids /\ Settled(db, s)

LEMMA ReplayStart == Init => ReplayInv
<1> SUFFICES ASSUME Init PROVE ReplayInv
  OBVIOUS
<1>1. log = <<>> /\ db = EmptyArchive
  BY DEF Init
<1>2. log \in Seq({}) /\ Now = 0
  BY <1>1 DEF Now
<1>3. Timely(db, 0)
  <2>1. WholeState(StateDefault) /\ StateDefault.updated = 0 /\ StateDefault.epoch = 0
    BY DEF WholeState, StateDefault
  <2>2. Whole(db) /\ db.snapshots = {} /\ db.seen = 0
    BY <1>1 DEF EmptyArchive, Whole
  <2>3. db.detector = [k \in Detectors |-> StateDefault]
    BY <1>1 DEF EmptyArchive, Detectors
  <2> QED BY <2>1, <2>2, <2>3 DEF Timely, Table
<1> QED BY <1>1, <1>2, <1>3 DEF ReplayInv

(* What a poll reads is of a known group or of none, and later than before. *)
LEMMA ObserveSettles ==
    ASSUME ReplayInv, NEW s, s.epoch \in Nat, Now < s.epoch, s.owner \in Ids, Observe(s)
    PROVE  ReplayInv'
<1>1. db' = process_snapshot(db, s) /\ log' = Append(log, s)
  BY DEF Observe
<1>2. PICK S : log \in Seq(S)
  BY DEF ReplayInv
<1>3. log' \in Seq(S \cup {s}) /\ log' # <<>> /\ log'[Len(log')] = s
  BY <1>1, <1>2
<1>4. Settled(db', s)
  BY <1>1, SettledAfter DEF ReplayInv
<1>5. Now' = s.epoch
  BY <1>3 DEF Now
<1> QED BY <1>3, <1>4, <1>5 DEF ReplayInv, Settled

LEMMA MarkSettled ==
    ASSUME ReplayInv, mark_journaled
    PROVE  ReplayInv'
<1>1. log' = log
  BY DEF mark_journaled
<1>2. /\ Whole(db') /\ db'.detector = db.detector /\ db'.active = db.active
      /\ db'.seen = db.seen /\ db'.snapshots = db.snapshots
  <2>1. PICK A : db' = [db EXCEPT !.anomalies = A]
    BY DEF mark_journaled, Marked
  <2> QED BY <2>1 DEF ReplayInv, Timely, Whole
<1>3. \A t : Timely(db, t) => Timely(db', t)
  BY <1>2 DEF Timely
<1>4. \A s : Settled(db, s) => Settled(db', s)
  BY <1>2, <1>3 DEF Settled, Quiet
<1>5. Now' = Now
  BY <1>1 DEF Now
<1> QED BY <1>1, <1>3, <1>4, <1>5 DEF ReplayInv

LEMMA ReplayKept == ReplayInv /\ [Next]_vars => ReplayInv'
<1> SUFFICES ASSUME ReplayInv, [Next]_vars PROVE ReplayInv'
  OBVIOUS
<1>1. CASE Poll
  <2>1. PICK t \in Steps, a \in Alphabet :
            Observe([epoch |-> Now + t, owner |-> a.owner, pct |-> a.pct, reset |-> a.reset])
    BY <1>1 DEF Poll
  <2> DEFINE s == [epoch |-> Now + t, owner |-> a.owner, pct |-> a.pct, reset |-> a.reset]
  <2>2. s.epoch \in Nat /\ Now < s.epoch /\ s.owner \in Ids
    BY AnomaliesAssumption DEF ReplayInv
  <2>3. Observe(s)
    BY <2>1
  <2> HIDE DEF s
  <2> QED BY <2>2, <2>3, ObserveSettles
<1>2. CASE mark_journaled
  BY <1>2, MarkSettled
<1>3. CASE ListPending \/ Register \/ RoundEnds \/ UNCHANGED vars
  <2>1. UNCHANGED <<db, log>>
    BY <1>3 DEF ListPending, Register, RoundEnds, vars
  <2>2. Now' = Now
    BY <2>1 DEF Now
  <2> QED BY <2>1, <2>2 DEF ReplayInv
<1> QED BY <1>1, <1>2, <1>3 DEF Next, journal_quota_anomalies

(* The latest sample, handed to the detector once more (a retry after a crash
   between the transaction and the rest of the poll, or a second writer with
   the same reading), changes nothing in the archive. *)
THEOREM ReplayingIsHarmless == Spec => []ReplayIsHarmless
<1>1. ReplayInv => ReplayIsHarmless
  BY SettledStays DEF ReplayInv, ReplayIsHarmless
<1> QED BY <1>1, ReplayStart, ReplayKept, PTL DEF Spec

-----------------------------------------------------------------------------
(* The archive d and the samples L it was built from, the movements H that
   were deferred on the way. *)
Newest(L) == L[Len(L)]
TimeOf(L) == IF L = <<>> THEN 0 ELSE Newest(L).epoch

Samples(L) ==
    /\ Len(L) \in Nat /\ DOMAIN L = 1..Len(L) /\ (L = <<>> <=> Len(L) = 0)
    /\ \A i \in DOMAIN L : /\ L[i].epoch \in Nat \ {0} /\ L[i].owner \in Ids
                           /\ L[i].reset["weekly"] \in Int
    /\ \A i, j \in DOMAIN L : i < j => L[i].epoch < L[j].epoch

(* The newest sample is full, with a deadline far enough beyond the one of
   the full sample before it. *)
Candidate(L) ==
    /\ Len(L) >= 2
    /\ LET a == L[Len(L) - 1] b == Newest(L) IN
       /\ Complete(a) /\ Complete(b) /\ a.owner = b.owner
       /\ a.pct["weekly"] = 100 /\ b.pct["weekly"] = 100
       /\ b.epoch - a.epoch <= GapLimit
       /\ b.epoch < a.reset["weekly"] /\ b.reset["weekly"] - a.reset["weekly"] >= MinAdvance

Weekly(d, o) == d.detector[<<o, "weekly">>]
Idle(st)     == st.chain = NoChain /\ st.deferred = <<>>

(* A chain ends in the newest sample ... *)
Chained(chain, o, L) ==
    /\ L # <<>>
    /\ LET b == Newest(L) IN
       /\ b.owner = o /\ Complete(b) /\ b.pct["weekly"] = 100
       /\ \E c \in BOOLEAN :
             /\ chain = [epoch |-> b.epoch, reset |-> b.reset["weekly"], owner |-> b.owner,
                         candidate |-> c]
             /\ c => Candidate(L)

(* ... and a movement is deferred only by a candidate. *)
Watching(st, o, L) ==
    /\ st.epoch <= TimeOf(L)
    /\ st.chain = NoChain \/ (st.known /\ st.pct # None /\ Chained(st.chain, o, L))
    /\ \/ st.deferred = <<>>
       \/ /\ st.chain # NoChain /\ st.chain.candidate
          /\ st.deferred = <<TimeOf(L), st.deferred[2], st.deferred[3]>>

(* Of time t there is neither a movement reported nor a reset accepted. *)
Unsettled(d, t) ==
    /\ \A a \in d.anomalies : a.window = "weekly" /\ a.kind = "reset_shift" => a.at # t
    /\ \A p \in d.proofs : IF p.method = "full_observed" THEN p.at # t ELSE p.seen # t

Watched(d, L) ==
    \A o \in Ids : /\ Watching(Weekly(d, o), o, L)
                   /\ Weekly(d, o).chain.candidate => Unsettled(d, TimeOf(L))

OneEvent(E) == \A e, f \in E : e.window = f.window /\ e.at = f.at => e = f

Typed(d) ==
    /\ \A a \in d.anomalies : a.owner \in Ids /\ a.window \in Windows /\ a.kind \in Kinds
    /\ OneEvent(d.events)

Dated(d, t) ==
    /\ \A p \in d.proofs : p.seen \in 1..t /\ (p.method = "full_observed" => p.at \in 1..t)
    /\ \A a \in d.anomalies : a.window = "weekly" =>
           a.at \in 1..t /\ (a.kind = "reset_shift" => a.episode[3] = a.at)

(* What became of a deferred movement. *)
Waits(d, x)   == Weekly(d, x[1]).deferred = x[2]
Was(d, x)     == \E p \in d.proofs : p.method = "full_observed" /\ p.at = x[2][1]
Shifted(d, x) == \E a \in d.anomalies :
                     /\ a.owner = x[1] /\ a.window = "weekly" /\ a.kind = "reset_shift"
                     /\ a.episode = <<x[2][2], x[2][3], x[2][1]>>
OneOf(d, x) ==
    /\ Waits(d, x) \/ Was(d, x) \/ Shifted(d, x)
    /\ ~(Was(d, x) /\ Shifted(d, x)) /\ ~(Waits(d, x) /\ (Was(d, x) \/ Shifted(d, x)))

Movement(x, t) ==
    x[1] \in Ids /\ x[2] = <<x[2][1], x[2][2], x[2][3]>> /\ x[2][1] \in 1..t

Settling(d, t, H) == \A x \in H : Movement(x, t) /\ OneOf(d, x)

FullIsConfirmed(d, L) ==
    \A p \in d.proofs : p.method = "full_observed" =>
        \E i \in 2..Len(L) - 1 :
            LET a == L[i - 1] b == L[i] c == L[i + 1] IN
            /\ b.epoch = p.at /\ c.epoch = p.seen
            /\ Complete(a) /\ Complete(b) /\ Complete(c) /\ a.owner = b.owner /\ b.owner = c.owner
            /\ a.pct["weekly"] = 100 /\ b.pct["weekly"] = 100
            /\ b.epoch - a.epoch <= GapLimit /\ c.epoch - b.epoch <= GapLimit
            /\ b.epoch < a.reset["weekly"] /\ b.reset["weekly"] - a.reset["weekly"] >= MinAdvance
            /\ Distance(b.reset["weekly"], c.reset["weekly"]) <= ConfirmTolerance

PairIsOfOneOwner(d, L) ==
    \A p \in d.proofs : p.method # "full_observed" =>
        \E i, j \in DOMAIN L :
            /\ i < j /\ L[j].epoch = p.seen
            /\ Complete(L[i]) /\ Complete(L[j])
            /\ \A k \in i..j : L[k].owner = L[j].owner

AcceptedIsQuiet(d, L) ==
    \A p \in d.proofs, a \in d.anomalies, i \in 2..Len(L) :
        ~ /\ p.method # "full_observed" /\ L[i].epoch = p.seen
          /\ Complete(L[i - 1]) /\ L[i - 1].owner = L[i].owner
          /\ a.window = "weekly" /\ a.at = p.seen

Evident(d, L, H) ==
    /\ Watched(d, L) /\ Typed(d) /\ Dated(d, TimeOf(L)) /\ Settling(d, TimeOf(L), H)
    /\ FullIsConfirmed(d, L) /\ PairIsOfOneOwner(d, L) /\ AcceptedIsQuiet(d, L)

(* A complete sample is what its detector compares with. *)
Follows(d, L) ==
    L # <<>> /\ Complete(Newest(L)) =>
        LET b == Newest(L) st == Weekly(d, b.owner) IN
        st.known /\ st.epoch = b.epoch /\ st.pct = b.pct["weekly"] /\ st.reset = b.reset["weekly"]

(* Between the baseline and the newest sample there is no other owner. *)
Based(d, L) ==
    IF L = <<>> THEN d.baseline = {} /\ d.seen = 0
    ELSE /\ d.seen = TimeOf(L) /\ d.seenOwner = Newest(L).owner
         /\ Complete(Newest(L)) => d.baseline = {Newest(L)}
         /\ d.baseline = {} \/ \E i \in DOMAIN L :
               /\ d.baseline = {L[i]} /\ Complete(L[i])
               /\ \A k \in i..Len(L) : L[k].owner = Newest(L).owner

(* L and after it the sample s. *)
Extended(L, s, M) ==
    /\ Samples(L) /\ Samples(M) /\ Len(M) = Len(L) + 1
    /\ s = Newest(M) /\ \A i \in DOMAIN L : M[i] = L[i]

LEMMA ExtendedBy ==
    ASSUME NEW S, NEW L \in Seq(S), Samples(L), NEW s, s.epoch \in Nat, TimeOf(L) < s.epoch,
           s.owner \in Ids, s.reset["weekly"] \in Int
    PROVE  Extended(L, s, Append(L, s))
<1> DEFINE M == Append(L, s)
<1>1. /\ M \in Seq(S \cup {s}) /\ Len(M) = Len(L) + 1 /\ M[Len(M)] = s /\ Len(L) \in Nat
      /\ DOMAIN L = 1..Len(L) /\ DOMAIN M = 1..Len(M) /\ M # <<>>
      /\ \A i \in 1..Len(L) : M[i] = L[i]
  OBVIOUS
<1> HIDE DEF M
<1>2. \A i \in DOMAIN L : L[i].epoch < s.epoch
  <2> SUFFICES ASSUME NEW i \in DOMAIN L PROVE L[i].epoch < s.epoch
    OBVIOUS
  <2>1. L # <<>> /\ Len(L) \in DOMAIN L /\ i <= Len(L)
    BY <1>1 DEF Samples
  <2>2. L[i].epoch = L[Len(L)].epoch \/ L[i].epoch < L[Len(L)].epoch
    BY <1>1, <2>1 DEF Samples
  <2> QED BY <2>1, <2>2 DEF TimeOf, Newest, Samples
<1>3. s.epoch \in Nat \ {0}
  <2>1. TimeOf(L) \in Nat
    BY <1>1 DEF TimeOf, Newest, Samples
  <2> QED BY <2>1
<1>4. Samples(M)
  <2>1. \A i \in DOMAIN M : M[i] = s \/ (i \in DOMAIN L /\ M[i] = L[i])
    BY <1>1
  <2>2. \A i \in DOMAIN M : /\ M[i].epoch \in Nat \ {0} /\ M[i].owner \in Ids
                            /\ M[i].reset["weekly"] \in Int
    BY <1>3, <2>1 DEF Samples
  <2>3. ASSUME NEW i \in DOMAIN M, NEW j \in DOMAIN M, i < j PROVE M[i].epoch < M[j].epoch
    <3>1. i \in DOMAIN L /\ M[i] = L[i]
      BY <1>1, <2>3
    <3>2. CASE j \in DOMAIN L
      BY <1>1, <2>3, <3>1, <3>2 DEF Samples
    <3>3. CASE j \notin DOMAIN L
      <4>1. M[j] = s
        BY <2>1, <3>3
      <4> QED BY <1>2, <3>1, <4>1
    <3> QED BY <3>2, <3>3
  <2> QED BY <1>1, <2>2, <2>3 DEF Samples
<1> QED BY <1>1, <1>4 DEF Extended, Newest, M

(* The time of the samples, and of one that follows. *)
LEMMA Times ==
    ASSUME NEW L, NEW s, NEW M, Extended(L, s, M)
    PROVE  /\ TimeOf(L) \in Nat /\ TimeOf(M) = s.epoch /\ s.epoch \in Nat \ {0}
           /\ TimeOf(L) < s.epoch /\ (L # <<>> => TimeOf(L) = Newest(L).epoch /\ TimeOf(L) > 0)
           /\ s.owner \in Ids /\ s.reset["weekly"] \in Int /\ M # <<>> /\ Newest(M) = s
           /\ L # <<>> => /\ Newest(L) = M[Len(M) - 1] /\ Len(M) >= 2
                          /\ Newest(L).reset["weekly"] \in Int /\ Newest(L).owner \in Ids
<1>1. /\ Len(L) \in Nat /\ Len(M) = Len(L) + 1 /\ DOMAIN L = 1..Len(L) /\ DOMAIN M = 1..Len(M)
      /\ M[Len(M)] = s /\ Len(M) \in DOMAIN M
  BY DEF Extended, Samples, Newest
<1>2. /\ M # <<>> /\ Newest(M) = s /\ s.epoch \in Nat \ {0} /\ s.owner \in Ids
      /\ s.reset["weekly"] \in Int
  BY <1>1 DEF Extended, Samples
<1>3. CASE L = <<>>
  BY <1>2, <1>3 DEF TimeOf
<1>4. CASE L # <<>>
  <2>1. /\ Len(L) \in DOMAIN L /\ Len(L) \in DOMAIN M /\ Len(L) < Len(M) /\ M[Len(L)] = L[Len(L)]
    BY <1>1, <1>4 DEF Extended, Samples
  <2>3. L[Len(L)].reset["weekly"] \in Int /\ L[Len(L)].owner \in Ids
    BY <2>1 DEF Extended, Samples
  <2>2. L[Len(L)].epoch \in Nat \ {0} /\ M[Len(L)].epoch < M[Len(M)].epoch
    BY <1>1, <2>1 DEF Extended, Samples
  <2> QED BY <1>1, <1>2, <1>4, <2>1, <2>2, <2>3 DEF TimeOf, Newest
<1> QED BY <1>3, <1>4

-----------------------------------------------------------------------------
(* The chain after a sample ends in that sample; what it confirms is the
   candidate of the sample before. *)
Confirming(L, s) ==
    /\ L # <<>> /\ Complete(s) /\ Newest(L).owner = s.owner
    /\ s.epoch - TimeOf(L) <= GapLimit
    /\ Distance(Newest(L).reset["weekly"], s.reset["weekly"]) <= ConfirmTolerance

LEMMA NoChainIs == NoChain.epoch = 0 /\ NoChain.owner = Unknown /\ NoChain.candidate = FALSE
BY DEF NoChain

LEMMA ChainAfter ==
    ASSUME NEW L, NEW s, NEW M, Extended(L, s, M),
           NEW chain, chain = NoChain \/ Chained(chain, s.owner, L),
           NEW full, full = observe_full_weekly_reset(chain, s)
    PROVE  /\ full.chain = NoChain \/ Chained(full.chain, s.owner, M)
           /\ full.chain.candidate => Candidate(M) /\ chain # NoChain
           /\ full.confirmed # 0 => /\ chain # NoChain /\ chain.candidate
                                    /\ full.confirmed = TimeOf(L) /\ Confirming(L, s)
<1> DEFINE before == Continued(chain, s)
           c      == ~Confirms(before, s) /\ Advances(before, s)
           next   == [epoch |-> s.epoch, reset |-> s.reset["weekly"], owner |-> s.owner,
                      candidate |-> c]
<1>1. CASE ~Complete(s)
  <2>1. full.chain = NoChain /\ full.confirmed = 0
    BY <1>1 DEF observe_full_weekly_reset
  <2> QED BY <2>1, NoChainIs
<1>2. CASE Complete(s)
  <2>1. ~IsReplay(chain, s)
    <3>1. CASE chain = NoChain
      BY <1>2, <3>1, NoChainIs DEF Complete, IsReplay
    <3>2. CASE Chained(chain, s.owner, L)
      <4>1. chain.epoch = TimeOf(L)
        BY <3>2 DEF Chained, TimeOf
      <4> QED BY <4>1, Times DEF IsReplay
    <3> QED BY <3>1, <3>2
  <2>2. /\ full.chain = IF s.pct["weekly"] = 100 THEN next ELSE NoChain
        /\ full.confirmed = IF Confirms(before, s) THEN before.epoch ELSE 0
    BY <1>2, <2>1 DEF observe_full_weekly_reset
  <2>3. before = NoChain \/ (before = chain /\ chain.owner = s.owner /\ Near(chain, s))
    BY DEF Continued
  <2> HIDE DEF before
  <2>4. ASSUME before # NoChain
        PROVE  /\ L # <<>> /\ Complete(Newest(L)) /\ Newest(L).pct["weekly"] = 100
               /\ Newest(L).owner = s.owner /\ chain # NoChain
               /\ before.epoch = TimeOf(L) /\ before.reset = Newest(L).reset["weekly"]
               /\ before.candidate = chain.candidate
               /\ s.epoch - TimeOf(L) <= GapLimit
    BY <2>3, <2>4 DEF Chained, TimeOf, Near
  <2>5. c => Candidate(M)
    <3> SUFFICES ASSUME c PROVE Candidate(M)
      OBVIOUS
    <3>1. /\ before # NoChain /\ before.reset > s.epoch /\ s.pct["weekly"] = 100
          /\ s.reset["weekly"] >= before.reset + MinAdvance
      BY DEF Advances
    <3>2. /\ L # <<>> /\ Complete(Newest(L)) /\ Newest(L).pct["weekly"] = 100
          /\ Newest(L).owner = s.owner /\ before.reset = Newest(L).reset["weekly"]
          /\ s.epoch - TimeOf(L) <= GapLimit
      BY <2>4, <3>1
    <3>3. /\ Newest(L) = M[Len(M) - 1] /\ Newest(M) = s /\ Len(M) >= 2
          /\ TimeOf(L) = Newest(L).epoch /\ s.reset["weekly"] \in Int /\ s.epoch \in Nat
      BY <3>2, Times
    <3>4. Newest(L).reset["weekly"] \in Int
      BY <3>2, Times
    <3>5. /\ s.epoch < Newest(L).reset["weekly"]
          /\ s.reset["weekly"] - Newest(L).reset["weekly"] >= MinAdvance
      BY <3>1, <3>2, <3>3, <3>4, WeeklyResetAssumption
    <3> QED BY <1>2, <3>1, <3>2, <3>3, <3>5 DEF Candidate
  <2>6. c \in BOOLEAN
    BY DEF Advances
  <2>7. full.chain = NoChain \/ Chained(full.chain, s.owner, M)
    <3> HIDE DEF c
    <3>1. CASE s.pct["weekly"] = 100
      <4>1. full.chain = [epoch |-> s.epoch, reset |-> s.reset["weekly"], owner |-> s.owner,
                          candidate |-> c]
        BY <2>2, <3>1
      <4>2. M # <<>> /\ Newest(M) = s
        BY Times
      <4> QED BY <1>2, <2>5, <2>6, <3>1, <4>1, <4>2 DEF Chained
    <3>2. CASE s.pct["weekly"] # 100
      BY <2>2, <3>2
    <3> QED BY <3>1, <3>2
  <2>8. full.chain.candidate => c
    <3>1. next.candidate = c
      OBVIOUS
    <3> HIDE DEF next, c
    <3> QED BY <2>2, <3>1, NoChainIs
  <2>9. c => chain # NoChain
    BY <2>4 DEF Advances
  <2>10. ASSUME full.confirmed # 0
         PROVE  /\ chain # NoChain /\ chain.candidate
                /\ full.confirmed = TimeOf(L) /\ Confirming(L, s)
    <3>1. Confirms(before, s) /\ full.confirmed = before.epoch
      BY <2>2, <2>10
    <3>2. before # NoChain
      BY <3>1, NoChainIs DEF Confirms
    <3>3. /\ L # <<>> /\ Newest(L).owner = s.owner /\ chain # NoChain
          /\ before.epoch = TimeOf(L) /\ before.reset = Newest(L).reset["weekly"]
          /\ before.candidate = chain.candidate
          /\ s.epoch - TimeOf(L) <= GapLimit
      BY <2>4, <3>2
    <3>4. Newest(L).reset["weekly"] \in Int /\ s.reset["weekly"] \in Int
      BY <3>3, Times
    <3>5. Distance(Newest(L).reset["weekly"], s.reset["weekly"]) <= ConfirmTolerance
      BY <3>1, <3>3, <3>4 DEF Confirms, Distance
    <3> QED BY <1>2, <3>1, <3>3, <3>5 DEF Confirms, Confirming
  <2> HIDE DEF c, next
  <2> QED BY <2>5, <2>7, <2>8, <2>9, <2>10
<1> QED BY <1>1, <1>2

-----------------------------------------------------------------------------
(* From d to e the detector of group o goes on at time t: what it deferred is
   reported, unless the sample confirms it. *)
GoesOn(d, e, L, o, m, confirmed, t) ==
    /\ m = Weekly(d, o).deferred
    /\ \A q \in Ids \ {o} : Idle(Weekly(d, q)) /\ Weekly(e, q) = Weekly(d, q)
    /\ Weekly(e, o).deferred = <<>> \/ Weekly(e, o).deferred[1] = t
    /\ d.proofs \subseteq e.proofs /\ d.anomalies \subseteq e.anomalies
    /\ \A p \in e.proofs \ d.proofs : p.method = "full_observed" =>
           confirmed # 0 /\ p.at = confirmed
    /\ confirmed # 0 =>
           /\ confirmed = TimeOf(L) /\ Unsettled(d, TimeOf(L))
           /\ \E p \in e.proofs : p.method = "full_observed" /\ p.at = confirmed
    /\ m # <<>> /\ m[1] # confirmed => Shifted(e, <<o, m>>)
    /\ \A a \in e.anomalies \ d.anomalies : a.window = "weekly" /\ a.kind = "reset_shift" =>
           \/ a.episode[3] = t
           \/ m # <<>> /\ m[1] # confirmed /\ a.owner = o /\ a.episode = <<m[2], m[3], m[1]>>

(* Then the movements that were ever deferred stay settled. *)
LEMMA MovementsSettled ==
    ASSUME NEW d, NEW e, NEW L, NEW H, NEW o \in Ids, NEW m, NEW confirmed, NEW t \in Nat,
           TimeOf(L) \in Nat, TimeOf(L) < t,
           Watched(d, L), Dated(d, TimeOf(L)), Settling(d, TimeOf(L), H),
           GoesOn(d, e, L, o, m, confirmed, t)
    PROVE  Settling(e, TimeOf(L), H)
<1> SUFFICES ASSUME NEW x \in H PROVE Movement(x, TimeOf(L)) /\ OneOf(e, x)
  BY DEF Settling
<1>1. Movement(x, TimeOf(L)) /\ OneOf(d, x)
  BY DEF Settling
<1> DEFINE n == x[2]
<1>2. /\ x[1] \in Ids /\ n = <<n[1], n[2], n[3]>> /\ n[1] \in 1..TimeOf(L) /\ n # <<>>
      /\ n[1] # t /\ n[1] # 0
  BY <1>1 DEF Movement
<1> USE DEF GoesOn
<1>3. m = <<>> \/ m = <<TimeOf(L), m[2], m[3]>>
  BY DEF Watched, Watching
<1>4. Was(d, x) => Was(e, x)
  BY DEF Was
<1>5. Shifted(d, x) => Shifted(e, x)
  BY DEF Shifted
<1>7. ~Waits(e, x)
  <2>1. CASE x[1] = o
    BY <1>2, <2>1 DEF Waits
  <2>2. CASE x[1] # o
    BY <1>2, <2>2 DEF Waits, Idle
  <2> QED BY <2>1, <2>2
<1>8. Shifted(e, x) /\ ~Shifted(d, x) => /\ x[1] = o /\ n = m /\ m # <<>> /\ m[1] # confirmed
  <2> SUFFICES ASSUME Shifted(e, x), ~Shifted(d, x)
               PROVE  x[1] = o /\ n = m /\ m # <<>> /\ m[1] # confirmed
    OBVIOUS
  <2>1. PICK a \in e.anomalies : /\ a.owner = x[1] /\ a.window = "weekly" /\ a.kind = "reset_shift"
                                 /\ a.episode = <<n[2], n[3], n[1]>>
    BY DEF Shifted
  <2>2. a \notin d.anomalies
    BY <2>1 DEF Shifted
  <2>3. a.episode[3] # t
    BY <1>2, <2>1
  <2>4. m # <<>> /\ m[1] # confirmed /\ a.owner = o /\ a.episode = <<m[2], m[3], m[1]>>
    BY <2>1, <2>2, <2>3
  <2>5. <<n[2], n[3], n[1]>> = <<m[2], m[3], m[1]>>
    BY <2>1, <2>4
  <2>6. n[1] = m[1] /\ n[2] = m[2] /\ n[3] = m[3]
    BY <2>5
  <2>7. m = <<m[1], m[2], m[3]>>
    BY <1>3, <2>4
  <2>8. n = m
    BY <1>2, <2>6, <2>7
  <2> QED BY <2>1, <2>4, <2>8
<1>9. Was(e, x) /\ ~Was(d, x) => confirmed # 0 /\ n[1] = confirmed
  BY DEF Was
<1>10. CASE Waits(d, x)
  <2>1. x[1] = o /\ m = n
    BY <1>2, <1>10 DEF Waits, Idle
  <2>2. ~Was(d, x) /\ ~Shifted(d, x)
    BY <1>1, <1>10 DEF OneOf
  <2>3. CASE m[1] = confirmed
    <3>1. Was(e, x)
      BY <1>2, <2>1, <2>3 DEF Was
    <3>2. ~Shifted(e, x)
      BY <1>8, <2>2, <2>3
    <3> QED BY <1>1, <1>7, <3>1, <3>2 DEF OneOf
  <2>4. CASE m[1] # confirmed
    <3>1. Shifted(e, <<o, m>>)
      BY <1>2, <2>1, <2>4
    <3>2. Shifted(e, x)
      BY <2>1, <3>1 DEF Shifted
    <3>3. ~Was(e, x)
      BY <1>9, <2>1, <2>2, <2>4
    <3> QED BY <1>1, <1>7, <3>2, <3>3 DEF OneOf
  <2> QED BY <2>3, <2>4
<1>11. CASE ~Waits(d, x) /\ Was(d, x)
  <2>1. ~Shifted(d, x) /\ Was(e, x)
    BY <1>1, <1>4, <1>11 DEF OneOf
  <2>2. ~Shifted(e, x)
    BY <1>8, <1>11, <2>1 DEF Waits
  <2> QED BY <1>1, <1>7, <2>1, <2>2 DEF OneOf
<1>12. CASE ~Waits(d, x) /\ Shifted(d, x)
  <2>1. ~Was(d, x) /\ Shifted(e, x)
    BY <1>1, <1>5, <1>12 DEF OneOf
  <2>2. ~Was(e, x)
    <3> SUFFICES ASSUME Was(e, x) PROVE FALSE
      OBVIOUS
    <3>1. confirmed # 0 /\ n[1] = TimeOf(L) /\ Unsettled(d, TimeOf(L))
      BY <1>9, <2>1
    <3>2. PICK a \in d.anomalies : /\ a.window = "weekly" /\ a.kind = "reset_shift"
                                   /\ a.episode = <<n[2], n[3], n[1]>>
      BY <1>12 DEF Shifted
    <3>3. a.episode[3] = n[1] /\ a.at = a.episode[3]
      BY <3>2 DEF Dated
    <3> QED BY <3>1, <3>2, <3>3 DEF Unsettled
  <2> QED BY <1>1, <1>7, <2>1, <2>2 DEF OneOf
<1> QED BY <1>1, <1>10, <1>11, <1>12 DEF OneOf

-----------------------------------------------------------------------------
(* What one sample after L leaves as it was. *)
LEMMA StillEvident ==
    ASSUME NEW L, NEW s, NEW M, Extended(L, s, M), NEW H, NEW d, Evident(d, L, H)
    PROVE  /\ Dated(d, s.epoch) /\ Settling(d, s.epoch, H) /\ FullIsConfirmed(d, M)
           /\ PairIsOfOneOwner(d, M) /\ AcceptedIsQuiet(d, M)
<1>1. /\ TimeOf(L) \in Nat /\ s.epoch \in Nat /\ TimeOf(L) < s.epoch
      /\ Len(L) \in Nat /\ Len(M) = Len(L) + 1 /\ DOMAIN L = 1..Len(L) /\ DOMAIN M = 1..Len(M)
      /\ M[Len(M)] = s /\ \A i \in 1..Len(L) : M[i] = L[i]
  <2>1. TimeOf(L) \in Nat /\ s.epoch \in Nat /\ TimeOf(L) < s.epoch
    BY Times
  <2>2. /\ Len(L) \in Nat /\ Len(M) = Len(L) + 1 /\ DOMAIN L = 1..Len(L) /\ DOMAIN M = 1..Len(M)
        /\ M[Len(M)] = s /\ \A i \in 1..Len(L) : M[i] = L[i]
    BY DEF Extended, Samples, Newest
  <2> QED BY <2>1, <2>2
<1>2. Dated(d, s.epoch)
  <2>1. Dated(d, TimeOf(L))
    BY DEF Evident
  <2>3. \A n \in 1..TimeOf(L) : n \in 1..s.epoch
    BY <1>1
  <2> QED BY <2>1, <2>3 DEF Dated
<1>3. Settling(d, s.epoch, H)
  <2>1. \A x : Movement(x, TimeOf(L)) => Movement(x, s.epoch)
    BY <1>1 DEF Movement
  <2> QED BY <2>1 DEF Evident, Settling
<1>4. FullIsConfirmed(d, M)
  <2> SUFFICES ASSUME NEW p \in d.proofs, p.method = "full_observed"
               PROVE  \E i \in 2..Len(M) - 1 :
            LET a == M[i - 1] b == M[i] c == M[i + 1] IN
            /\ b.epoch = p.at /\ c.epoch = p.seen
            /\ Complete(a) /\ Complete(b) /\ Complete(c) /\ a.owner = b.owner /\ b.owner = c.owner
            /\ a.pct["weekly"] = 100 /\ b.pct["weekly"] = 100
            /\ b.epoch - a.epoch <= GapLimit /\ c.epoch - b.epoch <= GapLimit
            /\ b.epoch < a.reset["weekly"] /\ b.reset["weekly"] - a.reset["weekly"] >= MinAdvance
            /\ Distance(b.reset["weekly"], c.reset["weekly"]) <= ConfirmTolerance
    BY DEF FullIsConfirmed
  <2>1. PICK i \in 2..Len(L) - 1 :
            LET a == L[i - 1] b == L[i] c == L[i + 1] IN
            /\ b.epoch = p.at /\ c.epoch = p.seen
            /\ Complete(a) /\ Complete(b) /\ Complete(c) /\ a.owner = b.owner /\ b.owner = c.owner
            /\ a.pct["weekly"] = 100 /\ b.pct["weekly"] = 100
            /\ b.epoch - a.epoch <= GapLimit /\ c.epoch - b.epoch <= GapLimit
            /\ b.epoch < a.reset["weekly"] /\ b.reset["weekly"] - a.reset["weekly"] >= MinAdvance
            /\ Distance(b.reset["weekly"], c.reset["weekly"]) <= ConfirmTolerance
    BY DEF Evident, FullIsConfirmed
  <2>2. i \in 2..Len(M) - 1 /\ M[i - 1] = L[i - 1] /\ M[i] = L[i] /\ M[i + 1] = L[i + 1]
    BY <1>1
  <2> QED BY <2>1, <2>2
<1>5. PairIsOfOneOwner(d, M)
  <2> SUFFICES ASSUME NEW p \in d.proofs, p.method # "full_observed"
               PROVE  \E i, j \in DOMAIN M :
                          /\ i < j /\ M[j].epoch = p.seen /\ Complete(M[i]) /\ Complete(M[j])
                          /\ \A k \in i..j : M[k].owner = M[j].owner
    BY DEF PairIsOfOneOwner
  <2>1. PICK i \in DOMAIN L, j \in DOMAIN L :
            /\ i < j /\ L[j].epoch = p.seen /\ Complete(L[i]) /\ Complete(L[j])
            /\ \A k \in i..j : L[k].owner = L[j].owner
    BY DEF Evident, PairIsOfOneOwner
  <2>2. i \in DOMAIN M /\ j \in DOMAIN M /\ \A k \in i..j : M[k] = L[k]
    BY <1>1
  <2>3. M[i] = L[i] /\ M[j] = L[j]
    BY <1>1
  <2> QED BY <2>1, <2>2, <2>3
<1>6. AcceptedIsQuiet(d, M)
  <2> SUFFICES ASSUME NEW p \in d.proofs, NEW a \in d.anomalies, NEW i \in 2..Len(M),
                      p.method # "full_observed", M[i].epoch = p.seen,
                      Complete(M[i - 1]), M[i - 1].owner = M[i].owner,
                      a.window = "weekly", a.at = p.seen
               PROVE  FALSE
    BY DEF AcceptedIsQuiet
  <2>1. CASE i = Len(M)
    <3>1. p.seen \in 1..TimeOf(L) /\ p.seen = s.epoch
      BY <1>1, <2>1 DEF Evident, Dated
    <3> QED BY <1>1, <3>1
  <2>2. CASE i # Len(M)
    <3>1. i \in 2..Len(L) /\ M[i] = L[i] /\ M[i - 1] = L[i - 1]
      BY <1>1, <2>2
    <3> QED BY <3>1 DEF Evident, AcceptedIsQuiet
  <2> QED BY <2>1, <2>2
<1> QED BY <1>2, <1>3, <1>4, <1>5, <1>6

-----------------------------------------------------------------------------
SameHistory(d, e) == e.seen = d.seen /\ e.seenOwner = d.seenOwner /\ e.baseline = d.baseline

(* From d to e nothing changes but the anomalies. *)
OnlyTold(d, e) ==
    /\ Whole(e) /\ e.active = d.active /\ e.detector = d.detector /\ e.snapshots = d.snapshots
    /\ e.proofs = d.proofs /\ e.events = d.events /\ SameHistory(d, e)
    /\ d.anomalies \subseteq e.anomalies

LEMMA ReportTells ==
    ASSUME NEW d, Whole(d), NEW o, NEW w, NEW kind, NEW episode, NEW at,
           NEW a, a = Anomaly(o, w, kind, episode, at), NEW e, e = Report(d, a)
    PROVE  /\ OnlyTold(d, e) /\ e.anomalies \subseteq d.anomalies \cup {a}
           /\ a.owner = o /\ a.window = w /\ a.kind = kind /\ a.episode = episode /\ a.at = at
           /\ \E b \in e.anomalies : /\ b.owner = o /\ b.window = w /\ b.kind = kind
                                     /\ b.episode = episode
<1>1. /\ a.owner = o /\ a.window = w /\ a.kind = kind /\ a.episode = episode /\ a.at = at
  BY DEF Anomaly
<1>2. CASE Reported(d, a)
  <2>1. e = d
    BY <1>2 DEF Report
  <2> QED BY <1>1, <1>2, <2>1 DEF Reported, OnlyTold, SameHistory
<1>3. CASE ~Reported(d, a)
  <2>1. e = [d EXCEPT !.anomalies = @ \cup {a}]
    BY <1>3 DEF Report
  <2>2. OnlyTold(d, e) /\ e.anomalies = d.anomalies \cup {a}
    BY <2>1 DEF OnlyTold, SameHistory, Whole
  <2> QED BY <1>1, <2>2
<1> QED BY <1>2, <1>3

(* A deferred movement that is not confirmed is reported. *)
LEMMA ResolveTells ==
    ASSUME NEW d, Whole(d), NEW o, NEW st, NEW confirmed, NEW m, m = st.deferred,
           NEW e, e = Resolve(d, o, st, confirmed)
    PROVE  /\ OnlyTold(d, e)
           /\ m # <<>> /\ m[1] # confirmed => Shifted(e, <<o, m>>)
           /\ \A a \in e.anomalies \ d.anomalies :
                 /\ m # <<>> /\ m[1] # confirmed
                 /\ a.owner = o /\ a.window = "weekly" /\ a.kind = "reset_shift"
                 /\ a.episode = <<m[2], m[3], m[1]>> /\ a.at = m[1]
<1>1. CASE m = <<>> \/ m[1] = confirmed
  <2>1. e = d
    BY <1>1 DEF Resolve
  <2> QED BY <1>1, <2>1 DEF OnlyTold, SameHistory
<1>2. CASE ~(m = <<>> \/ m[1] = confirmed)
  <2> DEFINE a == Anomaly(o, "weekly", "reset_shift", <<m[2], m[3], m[1]>>, m[1])
             x == <<o, m>>
  <2>1. e = Report(d, a)
    BY <1>2 DEF Resolve
  <2>2. /\ OnlyTold(d, e) /\ e.anomalies \subseteq d.anomalies \cup {a}
        /\ a.owner = o /\ a.window = "weekly" /\ a.kind = "reset_shift"
        /\ a.episode = <<m[2], m[3], m[1]>> /\ a.at = m[1]
        /\ \E b \in e.anomalies : /\ b.owner = o /\ b.window = "weekly" /\ b.kind = "reset_shift"
                                  /\ b.episode = <<m[2], m[3], m[1]>>
    <3> HIDE DEF a
    <3>1. a = Anomaly(o, "weekly", "reset_shift", <<m[2], m[3], m[1]>>, m[1])
      BY DEF a
    <3> QED BY <2>1, <3>1, ReportTells
  <2> HIDE DEF a
  <2>3. Shifted(e, x)
    <3>1. x[1] = o /\ x[2] = m
      OBVIOUS
    <3> HIDE DEF x
    <3> QED BY <2>2, <3>1 DEF Shifted
  <2> QED BY <1>2, <2>2, <2>3
<1> QED BY <1>1, <1>2

(* A detector is saved, nothing else. *)
OnlySaved(d, e) ==
    /\ e.proofs = d.proofs /\ e.events = d.events /\ e.anomalies = d.anomalies
    /\ SameHistory(d, e)

LEMMA SaveOnly ==
    ASSUME NEW d, Whole(d), NEW o, NEW w, NEW st, NEW epoch
    PROVE  OnlySaved(d, Save(d, o, w, st, epoch))
<1> DEFINE x == [st EXCEPT !.known = TRUE, !.updated = epoch]
<1>1. Save(d, o, w, st, epoch) = [d EXCEPT !.detector[<<o, w>>] = x]
  BY DEF Save
<1> HIDE DEF x
<1> QED BY <1>1 DEF OnlySaved, SameHistory, Whole

(* The weekly detector of o breaks its chain before the sample s. *)
LEMMA BreakEvident ==
    ASSUME NEW L, NEW s, NEW M, Extended(L, s, M), NEW H,
           NEW d, Timely(d, s.epoch), Evident(d, L, H),
           NEW o \in Ids, \A q \in Ids \ {o} : Idle(Weekly(d, q)),
           NEW e, e = Break(d, o, s.epoch)
    PROVE  /\ Evident(e, L, H) /\ Timely(e, s.epoch) /\ e.active = d.active
           /\ SameHistory(d, e) /\ (Follows(d, L) => Follows(e, L))
           /\ Idle(Weekly(e, o)) /\ \A q \in Ids \ {o} : Weekly(e, q) = Weekly(d, q)
<1> DEFINE k  == <<o, "weekly">>
           st == Weekly(d, o)
           c  == Resolve(d, o, st, 0)
           z  == [st EXCEPT !.deferred = <<>>, !.chain = NoChain]
           m  == st.deferred
<1>t. /\ TimeOf(L) \in Nat /\ s.epoch \in Nat /\ TimeOf(L) < s.epoch
      /\ (L # <<>> => TimeOf(L) > 0)
  BY Times
<1>1. k \in Detectors /\ "weekly" \in Windows
  BY DEF Detectors, Windows
<1>2. Load(d, o, "weekly", s.epoch) = st
  BY LoadIs DEF Timely, Weekly
<1>3. Timely(e, s.epoch) /\ OneDetector(d, e, k)
  BY <1>t, BreakOne
<1>4. \A q \in Ids \ {o} : Weekly(e, q) = Weekly(d, q)
  <2> SUFFICES ASSUME NEW q \in Ids, q # o PROVE Weekly(e, q) = Weekly(d, q)
    OBVIOUS
  <2>1. <<q, "weekly">> \in Detectors /\ <<q, "weekly">> # k
    BY DEF Detectors, Windows
  <2> QED BY <1>3, <2>1 DEF OneDetector, Weekly
<1>5. /\ Watching(st, o, L) /\ WholeState(st)
      /\ st.chain.candidate => Unsettled(d, TimeOf(L))
  <2>1. Watching(st, o, L) /\ (st.chain.candidate => Unsettled(d, TimeOf(L)))
    BY DEF Evident, Watched
  <2>2. WholeState(d.detector[k])
    <3> HIDE DEF k
    <3> QED BY <1>1 DEF Timely
  <2> QED BY <2>1, <2>2 DEF Weekly
<1>6. CASE ~st.known \/ s.epoch <= st.epoch
  <2>1. e = d
    BY <1>2, <1>6 DEF Break
  <2>2. ~(s.epoch <= st.epoch)
    BY <1>t, <1>5 DEF Watching, WholeState
  <2>3. Idle(st)
    BY <1>5, <1>6, <2>2 DEF Watching, Idle
  <2> QED BY <1>3, <1>4, <2>1, <2>3 DEF SameHistory
<1>7. CASE ~(~st.known \/ s.epoch <= st.epoch)
  <2>1. e = Save(c, o, "weekly", z, s.epoch)
    BY <1>2, <1>7 DEF Break
  <2>2. /\ OnlyTold(d, c)
        /\ m # <<>> /\ m[1] # 0 => Shifted(c, <<o, m>>)
        /\ \A a \in c.anomalies \ d.anomalies :
                 /\ m # <<>> /\ m[1] # 0
                 /\ a.owner = o /\ a.window = "weekly" /\ a.kind = "reset_shift"
                 /\ a.episode = <<m[2], m[3], m[1]>> /\ a.at = m[1]
    BY ResolveTells DEF Timely
  <2>3. /\ WholeState(z) /\ Idle(z) /\ z.epoch = st.epoch /\ z.pct = st.pct /\ z.reset = st.reset
    <3>1. z = [st EXCEPT !.deferred = <<>>, !.chain = NoChain]
      OBVIOUS
    <3> HIDE DEF z, st
    <3> QED BY <1>5, <3>1 DEF WholeState, Idle
  <2> HIDE DEF c, z
  <2>4. Saved(c, e, k, z, s.epoch) /\ OnlySaved(c, e)
    <3>1. Whole(c) /\ Table(c.detector)
      BY <2>2 DEF OnlyTold, Timely
    <3>2. k = <<o, "weekly">>
      OBVIOUS
    <3> HIDE DEF k
    <3> QED BY <1>t, <1>1, <2>1, <2>3, <3>1, <3>2, SaveOne, SaveOnly
  <2>5. /\ Idle(Weekly(e, o)) /\ Weekly(e, o).known /\ Weekly(e, o).epoch = st.epoch
        /\ Weekly(e, o).pct = st.pct /\ Weekly(e, o).reset = st.reset
    BY <2>3, <2>4 DEF Saved, Weekly, Idle
  <2>6. /\ d.anomalies \subseteq e.anomalies /\ e.proofs = d.proofs /\ e.events = d.events
        /\ SameHistory(d, e) /\ e.active = d.active
        /\ m # <<>> /\ m[1] # 0 => Shifted(e, <<o, m>>)
        /\ \A a \in e.anomalies \ d.anomalies :
                 /\ m # <<>> /\ m[1] # 0
                 /\ a.owner = o /\ a.window = "weekly" /\ a.kind = "reset_shift"
                 /\ a.episode = <<m[2], m[3], m[1]>> /\ a.at = m[1]
    BY <2>2, <2>4, <1>3 DEF OnlyTold, OnlySaved, SameHistory, OneDetector, Shifted
  <2> HIDE DEF st, k
  <2>7. ASSUME m # <<>>
        PROVE  /\ m = <<TimeOf(L), m[2], m[3]>> /\ m[1] = TimeOf(L) /\ TimeOf(L) \in 1..TimeOf(L)
               /\ Unsettled(d, TimeOf(L))
    <3>1. m = <<TimeOf(L), m[2], m[3]>> /\ st.chain # NoChain /\ st.chain.candidate /\ L # <<>>
      BY <1>5, <2>7 DEF Watching, Chained
    <3> QED BY <1>t, <1>5, <3>1
  <2>8. Watched(e, L)
    <3> SUFFICES ASSUME NEW q \in Ids
                 PROVE  /\ Watching(Weekly(e, q), q, L)
                        /\ Weekly(e, q).chain.candidate => Unsettled(e, TimeOf(L))
      BY DEF Watched
    <3>1. Idle(Weekly(e, q)) /\ Weekly(e, q).epoch <= TimeOf(L)
      <4>1. CASE q = o
        BY <1>5, <2>5, <4>1 DEF Watching
      <4>2. CASE q # o
        BY <1>4, <4>2 DEF Evident, Watched, Watching
      <4> QED BY <4>1, <4>2
    <3> QED BY <3>1, NoChainIs DEF Watching, Idle
  <2>9. Typed(e)
    BY <2>6 DEF Evident, Typed, Windows, Kinds
  <2>10. Dated(e, TimeOf(L))
    <3> SUFFICES ASSUME NEW a \in e.anomalies, a.window = "weekly", a \notin d.anomalies
                 PROVE  a.at \in 1..TimeOf(L) /\ a.episode[3] = a.at
      BY <2>6 DEF Evident, Dated
    <3>1. m # <<>> /\ a.episode = <<m[2], m[3], m[1]>> /\ a.at = m[1]
      BY <2>6
    <3> QED BY <2>7, <3>1
  <2>11. FullIsConfirmed(e, L) /\ PairIsOfOneOwner(e, L)
    BY <2>6 DEF Evident, FullIsConfirmed, PairIsOfOneOwner
  <2>12. AcceptedIsQuiet(e, L)
    <3> SUFFICES ASSUME NEW p \in d.proofs, NEW a \in e.anomalies, a \notin d.anomalies,
                        p.method # "full_observed", a.window = "weekly", a.at = p.seen
                 PROVE  FALSE
      BY <2>6 DEF Evident, AcceptedIsQuiet
    <3>1. m # <<>> /\ a.at = m[1]
      BY <2>6
    <3> QED BY <2>7, <3>1 DEF Unsettled
  <2>13. Settling(e, TimeOf(L), H)
    <3>1. Watched(d, L) /\ Dated(d, TimeOf(L)) /\ Settling(d, TimeOf(L), H)
      BY DEF Evident
    <3>2. GoesOn(d, e, L, o, m, 0, s.epoch)
      <4>1. \A q \in Ids \ {o} : Idle(Weekly(d, q)) /\ Weekly(e, q) = Weekly(d, q)
        BY <1>4
      <4>2. Weekly(e, o).deferred = <<>>
        BY <2>5 DEF Idle
      <4>3. m = Weekly(d, o).deferred
        BY DEF st
      <4> HIDE DEF m
      <4> QED BY <2>6, <4>1, <4>2, <4>3 DEF GoesOn
    <3> QED BY <1>t, <3>1, <3>2, MovementsSettled
  <2>14. Follows(d, L) => Follows(e, L)
    <3> SUFFICES ASSUME Follows(d, L), L # <<>>, Complete(Newest(L))
                 PROVE  Follows(e, L)
      BY DEF Follows
    <3>1. Newest(L).owner \in Ids
      BY Times
    <3>2. CASE Newest(L).owner = o
      BY <2>5, <3>2 DEF Follows, st
    <3>3. CASE Newest(L).owner # o
      BY <1>4, <3>1, <3>3 DEF Follows
    <3> QED BY <3>2, <3>3
  <2>15. Evident(e, L, H)
    BY <2>8, <2>9, <2>10, <2>11, <2>12, <2>13 DEF Evident
  <2> QED BY <1>3, <1>4, <2>5, <2>6, <2>14, <2>15
<1> QED BY <1>6, <1>7

-----------------------------------------------------------------------------
LEMMA AddEventOne ==
    ASSUME NEW d, Whole(d), NEW w, NEW f, NEW e, e = AddEvent(d, w, f)
    PROVE  /\ Beside(d, e) /\ e.anomalies = d.anomalies /\ e.proofs = d.proofs /\ SameHistory(d, e)
           /\ OneEvent(d.events) => OneEvent(e.events)
<1> DEFINE new == [window |-> w, at |-> f.at, method |-> f.method]
<1>1. new.window = w /\ new.at = f.at
  OBVIOUS
<1> HIDE DEF new
<1>2. CASE \E g \in d.events : g.window = w /\ g.at = f.at
  <2>1. e = d
    BY <1>2 DEF AddEvent
  <2> QED BY <2>1 DEF Beside, SameHistory
<1>3. CASE ~\E g \in d.events : g.window = w /\ g.at = f.at
  <2>1. e = [d EXCEPT !.events = @ \cup {new}]
    BY <1>3 DEF AddEvent, new
  <2>2. /\ Beside(d, e) /\ e.anomalies = d.anomalies /\ e.proofs = d.proofs /\ SameHistory(d, e)
        /\ e.events = d.events \cup {new}
    BY <2>1 DEF Beside, Whole, SameHistory
  <2> QED BY <1>1, <1>3, <2>2 DEF OneEvent
<1> QED BY <1>2, <1>3

LEMMA AddProofOne ==
    ASSUME NEW d, Whole(d), NEW p, NEW e, e = AddProof(d, p)
    PROVE  /\ Beside(d, e) /\ e.anomalies = d.anomalies /\ e.events = d.events /\ SameHistory(d, e)
           /\ d.proofs \subseteq e.proofs /\ e.proofs \subseteq d.proofs \cup {p}
           /\ \E q \in e.proofs : q.method = p.method /\ q.at = p.at
<1>1. CASE \E q \in d.proofs : q.method = p.method /\ q.at = p.at
  <2>1. e = d
    BY <1>1 DEF AddProof
  <2> QED BY <1>1, <2>1 DEF Beside, SameHistory
<1>2. CASE ~\E q \in d.proofs : q.method = p.method /\ q.at = p.at
  <2>1. e = [d EXCEPT !.proofs = @ \cup {p}]
    BY <1>2 DEF AddProof
  <2>2. /\ Beside(d, e) /\ e.anomalies = d.anomalies /\ e.events = d.events /\ SameHistory(d, e)
        /\ e.proofs = d.proofs \cup {p}
    BY <2>1 DEF Beside, Whole, SameHistory
  <2> QED BY <2>2
<1> QED BY <1>1, <1>2

(* The full evidence for a reset at time at, seen by a later sample. *)
LEMMA RecordFullShows ==
    ASSUME NEW d, Whole(d), NEW at, NEW seen, NEW e, e = RecordFull(d, at, seen)
    PROVE  /\ Beside(d, e) /\ e.anomalies = d.anomalies /\ SameHistory(d, e)
           /\ OneEvent(d.events) => OneEvent(e.events)
           /\ d.proofs \subseteq e.proofs
           /\ \A p \in e.proofs \ d.proofs : /\ p.method = "full_observed" /\ p.at = at
                                             /\ p.seen = seen
           /\ \E p \in e.proofs : p.method = "full_observed" /\ p.at = at
<1> DEFINE p     == [method |-> "full_observed", at |-> at, seen |-> seen]
           other == {f \in d.events : f.window = "weekly" /\ f.at = at}
           noted == AddProof(d, p)
           kept  == [noted EXCEPT !.events = @ \ other]
<1>1. e = AddEvent(kept, "weekly", p)
  BY DEF RecordFull
<1>2. p.method = "full_observed" /\ p.at = at /\ p.seen = seen
  OBVIOUS
<1> HIDE DEF p, other
<1>3. /\ Beside(d, noted) /\ noted.anomalies = d.anomalies /\ noted.events = d.events
      /\ SameHistory(d, noted) /\ d.proofs \subseteq noted.proofs
      /\ noted.proofs \subseteq d.proofs \cup {p}
      /\ \E q \in noted.proofs : q.method = p.method /\ q.at = p.at
  BY AddProofOne
<1> HIDE DEF noted
<1>4. /\ Beside(d, kept) /\ kept.anomalies = d.anomalies /\ kept.events = d.events \ other
      /\ SameHistory(d, kept) /\ kept.proofs = noted.proofs
  BY <1>3 DEF Beside, SameHistory, Whole
<1> HIDE DEF kept
<1>5. /\ Beside(kept, e) /\ e.anomalies = kept.anomalies /\ e.proofs = kept.proofs
      /\ SameHistory(kept, e) /\ (OneEvent(kept.events) => OneEvent(e.events))
  BY <1>1, <1>4, AddEventOne DEF Beside
<1>6. OneEvent(d.events) => OneEvent(kept.events)
  BY <1>4 DEF OneEvent
<1>7. Beside(d, e) /\ e.anomalies = d.anomalies /\ SameHistory(d, e) /\ e.proofs = noted.proofs
  BY <1>4, <1>5 DEF Beside, SameHistory
<1> QED BY <1>2, <1>3, <1>5, <1>6, <1>7

-----------------------------------------------------------------------------
(* The kind of an anomaly, and its moment. *)
LEMMA JudgeKind ==
    ASSUME NEW st, NEW before, NEW s, NEW w
    PROVE  Judge(st, before, s, w).kind \in Kinds \cup {"none"}
<1>1. Suspect(st, before, s.reset[w], s.epoch) \in Kinds \cup {"none"}
  BY DEF Suspect, Kinds
<1> QED BY <1>1 DEF Judge, Kinds

LEMMA EpisodesKind ==
    ASSUME NEW st, WholeState(st), NEW kind \in Kinds \cup {"none"}, NEW before, NEW now_,
           NEW jump, NEW epoch, NEW r, r = Episodes(st, kind, before, now_, jump, epoch),
           NEW old
    PROVE  /\ r.kind \in {kind, "none"}
           /\ r.kind = "reset_shift" =>
                  Episode(r.kind, old, r.state, before, now_, epoch)[3] = epoch
<1> DEFINE calm == [st EXCEPT !.increasing = @ /\ jump]
<1>1. WholeState(calm)
  BY DEF WholeState
<1> HIDE DEF calm
<1>2. \/ r.kind = "none"
      \/ r.kind = kind /\ kind # "reset_shift"
      \/ /\ r.kind = kind /\ kind = "reset_shift"
         /\ r.state = [calm EXCEPT !.shift = <<before, now_>>, !.shiftFrom = epoch]
  BY DEF Episodes, calm, Kinds
<1>3. \A x : [calm EXCEPT !.shift = x, !.shiftFrom = epoch].shiftFrom = epoch
  BY <1>1 DEF WholeState
<1>4. r.kind = "reset_shift" => r.state.shiftFrom = epoch
  BY <1>2, <1>3
<1>5. r.kind = "reset_shift" =>
          Episode(r.kind, old, r.state, before, now_, epoch) = <<before, now_, r.state.shiftFrom>>
  BY DEF Episode
<1> QED BY <1>2, <1>4, <1>5

(* What a comparison shows: the state in which its detector goes on, the
   evidence it adds, what it reports; and nothing of this sample is reported
   when it is a reset of the window, or a candidate for one. *)
Showing(d, shown, w, s, st, before, full, final, kind) ==
    /\ WholeState(final) /\ final.epoch = s.epoch /\ final.pct = s.pct[w]
    /\ final.reset = s.reset[w] /\ final.chain = full.chain
    /\ \/ final.deferred = <<>>
       \/ /\ full.chain.candidate
          /\ final.deferred = <<s.epoch, final.deferred[2], final.deferred[3]>>
    /\ Beside(d, shown) /\ SameHistory(d, shown)
    /\ OneEvent(d.events) => OneEvent(shown.events)
    /\ d.proofs \subseteq shown.proofs /\ d.anomalies \subseteq shown.anomalies
    /\ \A p \in shown.proofs \ d.proofs :
           /\ p.method = "full_observed" /\ full.confirmed # 0 /\ p.at = full.confirmed
           /\ p.seen = s.epoch
    /\ full.confirmed # 0 =>
           \E p \in shown.proofs : p.method = "full_observed" /\ p.at = full.confirmed
    /\ w = "weekly" /\ st.deferred # <<>> /\ st.deferred[1] # full.confirmed
           => Shifted(shown, <<s.owner, st.deferred>>)
    /\ \/ before # None /\ st.epoch < before /\ before <= s.epoch
       \/ /\ w = "weekly"
          /\ full.chain.candidate \/ is_weekly_refill(st.pct, before, s.pct[w], s.reset[w])
       => kind = "none"
    /\ \A a \in shown.anomalies \ d.anomalies :
           /\ a.owner = s.owner /\ a.window = w /\ a.kind \in Kinds
           /\ \/ /\ a.at = s.epoch /\ kind # "none"
                 /\ a.kind = "reset_shift" => a.episode[3] = s.epoch
              \/ /\ w = "weekly" /\ st.deferred # <<>> /\ st.deferred[1] # full.confirmed
                 /\ a.kind = "reset_shift" /\ a.at = st.deferred[1]
                 /\ a.episode = <<st.deferred[2], st.deferred[3], st.deferred[1]>>

LEMMA CompareShows ==
    ASSUME NEW d, Whole(d), NEW w, NEW s, s.epoch \in Nat, NEW st, WholeState(st), NEW force,
           NEW before, before = IF st.reset # None THEN st.reset ELSE st.available,
           NEW full, full = IF w = "weekly"
                            THEN observe_full_weekly_reset(IF force THEN NoChain ELSE st.chain, s)
                            ELSE [chain |-> NoChain, confirmed |-> 0]
    PROVE  \E shown, final, kind :
               /\ Compare(d, w, s, st, force) = Save(shown, s.owner, w, final, s.epoch)
               /\ Showing(d, shown, w, s, st, before, full, final, kind)
<1> DEFINE now_    == s.reset[w]
           moved   == before # None /\ now_ # None /\ Distance(now_, before) > ShiftTolerance
           movement == IF full.chain.candidate /\ moved
                       THEN <<s.epoch, before, now_>> ELSE <<>>
           chained == [st EXCEPT !.chain = full.chain, !.deferred = movement]
           crossed == before # None /\ st.epoch < before /\ before <= s.epoch
           reset   == crossed \/ Recognized(st, w, before, s, full.confirmed, full.chain.candidate)
           judged  == IF reset THEN [kind |-> "none", state |-> chained]
                      ELSE Judge(chained, before, s, w)
           jump    == s.pct[w] > st.pct + Tolerance
           settled == Episodes(judged.state, judged.kind, before, now_, jump, s.epoch)
           episode == Episode(settled.kind, st, settled.state, before, now_, s.epoch)
           proven  == IF full.confirmed = 0 THEN d ELSE RecordFull(d, full.confirmed, s.epoch)
           solved  == IF w = "weekly" THEN Resolve(proven, s.owner, st, full.confirmed)
                      ELSE proven
           a       == Anomaly(s.owner, w, settled.kind, episode, s.epoch)
           shown   == IF settled.kind = "none" THEN solved ELSE Report(solved, a)
           final   == [RecordDate(settled.state, now_) EXCEPT
                           !.epoch = s.epoch, !.pct = s.pct[w], !.reset = now_,
                           !.available = IF now_ # None THEN now_ ELSE @]
           accepted == \/ crossed
                       \/ /\ w = "weekly"
                          /\ \/ full.chain.candidate
                             \/ is_weekly_refill(st.pct, before, s.pct[w], s.reset[w])
<1>0. Compare(d, w, s, st, force) = Save(shown, s.owner, w, final, s.epoch)
  BY DEF Compare
<1>1. accepted => reset
  BY DEF Recognized
<1>2. WholeState(chained) /\ chained.chain = full.chain /\ chained.deferred = movement
  <2> DEFINE x == full.chain
  <2>1. chained = [st EXCEPT !.chain = x, !.deferred = movement]
    OBVIOUS
  <2> HIDE DEF chained, movement, x
  <2>2. WholeState(chained) /\ chained.chain = x /\ chained.deferred = movement
    BY <2>1 DEF WholeState
  <2> QED BY <2>2 DEF x
<1>3. \/ movement = <<>>
      \/ full.chain.candidate /\ movement = <<s.epoch, movement[2], movement[3]>>
  <2>1. <<s.epoch, before, now_>>[2] = before /\ <<s.epoch, before, now_>>[3] = now_
    OBVIOUS
  <2> HIDE DEF moved, now_
  <2> QED BY <2>1
<1> HIDE DEF chained, reset, movement
<1>4. /\ WholeState(judged.state) /\ judged.state.chain = full.chain
      /\ judged.state.deferred = movement /\ judged.kind \in Kinds \cup {"none"}
      /\ reset => judged.kind = "none"
  BY <1>2, JudgeStill, JudgeKind DEF StillOf
<1> HIDE DEF judged, jump, now_
<1>5. /\ WholeState(settled.state) /\ settled.state.chain = full.chain
      /\ settled.state.deferred = movement
  BY <1>4, EpisodesStill DEF StillOf
<1>6. /\ settled.kind \in Kinds \cup {"none"}
      /\ reset => settled.kind = "none"
      /\ settled.kind = "reset_shift" => episode[3] = s.epoch
  <2>1. /\ settled.kind \in {judged.kind, "none"}
        /\ settled.kind = "reset_shift" =>
               Episode(settled.kind, st, settled.state, before, now_, s.epoch)[3] = s.epoch
    <3> HIDE DEF settled
    <3>1. settled = Episodes(judged.state, judged.kind, before, now_, jump, s.epoch)
      BY DEF settled
    <3> QED BY <1>4, <3>1, EpisodesKind
  <2> QED BY <1>4, <2>1
<1> HIDE DEF settled, episode
<1>7. /\ WholeState(final) /\ final.epoch = s.epoch /\ final.pct = s.pct[w]
      /\ final.reset = s.reset[w] /\ final.chain = full.chain /\ final.deferred = movement
  <2> DEFINE dated == RecordDate(settled.state, now_)
             v     == IF now_ # None THEN now_ ELSE dated.available
             p     == s.pct[w]
             t     == s.epoch
  <2>1. WholeState(dated) /\ dated.chain = full.chain /\ dated.deferred = movement
    BY <1>5, RecordDateStill DEF StillOf
  <2>2. final = [dated EXCEPT !.epoch = t, !.pct = p, !.reset = now_, !.available = v] /\ t \in Nat
    OBVIOUS
  <2> HIDE DEF final, dated, v, p, t
  <2>3. WholeState(final) /\ final.epoch = t /\ final.pct = p /\ final.reset = now_
        /\ final.chain = dated.chain /\ final.deferred = dated.deferred
    BY <2>1, <2>2 DEF WholeState
  <2> QED BY <2>1, <2>3 DEF t, p, now_
<1> HIDE DEF final
<1>8. /\ Beside(d, proven) /\ proven.anomalies = d.anomalies /\ SameHistory(d, proven)
      /\ OneEvent(d.events) => OneEvent(proven.events)
      /\ d.proofs \subseteq proven.proofs
      /\ \A p \in proven.proofs \ d.proofs :
             /\ p.method = "full_observed" /\ full.confirmed # 0 /\ p.at = full.confirmed
             /\ p.seen = s.epoch
      /\ full.confirmed # 0 =>
             \E p \in proven.proofs : p.method = "full_observed" /\ p.at = full.confirmed
  <2>1. CASE full.confirmed = 0
    BY <2>1 DEF Beside, SameHistory
  <2>2. CASE full.confirmed # 0
    BY <2>2, RecordFullShows
  <2> QED BY <2>1, <2>2
<1> HIDE DEF proven
<1>9. /\ OnlyTold(proven, solved)
      /\ w = "weekly" /\ st.deferred # <<>> /\ st.deferred[1] # full.confirmed
             => Shifted(solved, <<s.owner, st.deferred>>)
      /\ \A b \in solved.anomalies \ d.anomalies :
             /\ w = "weekly" /\ st.deferred # <<>> /\ st.deferred[1] # full.confirmed
             /\ b.owner = s.owner /\ b.window = "weekly" /\ b.kind = "reset_shift"
             /\ b.episode = <<st.deferred[2], st.deferred[3], st.deferred[1]>>
             /\ b.at = st.deferred[1]
  <2>1. CASE w # "weekly"
    BY <1>8, <2>1 DEF OnlyTold, SameHistory, Beside
  <2>2. CASE w = "weekly"
    <3>1. solved = Resolve(proven, s.owner, st, full.confirmed) /\ Whole(proven)
      BY <1>8, <2>2 DEF Beside
    <3> HIDE DEF solved
    <3> QED BY <1>8, <2>2, <3>1, ResolveTells
  <2> QED BY <2>1, <2>2
<1> HIDE DEF solved
<1>10. /\ OnlyTold(solved, shown)
       /\ \A b \in shown.anomalies \ solved.anomalies :
              /\ settled.kind # "none" /\ b.owner = s.owner /\ b.window = w
              /\ b.kind = settled.kind /\ b.episode = episode /\ b.at = s.epoch
  <2>1. CASE settled.kind = "none"
    BY <1>9, <2>1 DEF OnlyTold, SameHistory
  <2>2. CASE settled.kind # "none"
    <3>1. shown = Report(solved, a) /\ Whole(solved)
      BY <1>9, <2>2 DEF OnlyTold
    <3>2. a = Anomaly(s.owner, w, settled.kind, episode, s.epoch)
      OBVIOUS
    <3> HIDE DEF shown, a
    <3>3. /\ OnlyTold(solved, shown) /\ shown.anomalies \subseteq solved.anomalies \cup {a}
          /\ a.owner = s.owner /\ a.window = w /\ a.kind = settled.kind /\ a.episode = episode
          /\ a.at = s.epoch
      BY <3>1, <3>2, ReportTells
    <3> QED BY <2>2, <3>3
  <2> QED BY <2>1, <2>2
<1> HIDE DEF shown
<1>11. /\ Beside(d, shown) /\ SameHistory(d, shown)
       /\ shown.proofs = proven.proofs /\ shown.events = proven.events
       /\ d.anomalies \subseteq shown.anomalies /\ solved.anomalies \subseteq shown.anomalies
  BY <1>8, <1>9, <1>10 DEF OnlyTold, SameHistory, Beside
<1>12. w = "weekly" /\ st.deferred # <<>> /\ st.deferred[1] # full.confirmed
           => Shifted(shown, <<s.owner, st.deferred>>)
  BY <1>9, <1>11 DEF Shifted
<1>13. \A b \in shown.anomalies \ d.anomalies :
           /\ b.owner = s.owner /\ b.window = w /\ b.kind \in Kinds
           /\ \/ /\ b.at = s.epoch /\ settled.kind # "none"
                 /\ b.kind = "reset_shift" => b.episode[3] = s.epoch
              \/ /\ w = "weekly" /\ st.deferred # <<>> /\ st.deferred[1] # full.confirmed
                 /\ b.kind = "reset_shift" /\ b.at = st.deferred[1]
                 /\ b.episode = <<st.deferred[2], st.deferred[3], st.deferred[1]>>
  <2> SUFFICES ASSUME NEW b \in shown.anomalies, b \notin d.anomalies
               PROVE
           /\ b.owner = s.owner /\ b.window = w /\ b.kind \in Kinds
           /\ \/ /\ b.at = s.epoch /\ settled.kind # "none"
                 /\ b.kind = "reset_shift" => b.episode[3] = s.epoch
              \/ /\ w = "weekly" /\ st.deferred # <<>> /\ st.deferred[1] # full.confirmed
                 /\ b.kind = "reset_shift" /\ b.at = st.deferred[1]
                 /\ b.episode = <<st.deferred[2], st.deferred[3], st.deferred[1]>>
    OBVIOUS
  <2>1. CASE b \in solved.anomalies
    BY <1>9, <2>1 DEF Kinds
  <2>2. CASE b \notin solved.anomalies
    BY <1>6, <1>10, <2>2
  <2> QED BY <2>1, <2>2
<1>14. accepted => settled.kind = "none"
  BY <1>1, <1>6
<1>15. Showing(d, shown, w, s, st, before, full, final, settled.kind)
  <2>1. /\ \/ before # None /\ st.epoch < before /\ before <= s.epoch
           \/ /\ w = "weekly"
              /\ full.chain.candidate \/ is_weekly_refill(st.pct, before, s.pct[w], s.reset[w])
           => settled.kind = "none"
    BY <1>14
  <2>2. /\ \/ final.deferred = <<>>
           \/ /\ full.chain.candidate
              /\ final.deferred = <<s.epoch, final.deferred[2], final.deferred[3]>>
    BY <1>3, <1>7
  <2>3. /\ OneEvent(d.events) => OneEvent(shown.events)
        /\ d.proofs \subseteq shown.proofs
        /\ \A p \in shown.proofs \ d.proofs :
              /\ p.method = "full_observed" /\ full.confirmed # 0 /\ p.at = full.confirmed
              /\ p.seen = s.epoch
        /\ full.confirmed # 0 =>
              \E p \in shown.proofs : p.method = "full_observed" /\ p.at = full.confirmed
    BY <1>8, <1>11
  <2> HIDE DEF accepted, a
  <2> QED BY <1>7, <1>11, <1>12, <1>13, <2>1, <2>2, <2>3, Zenon DEF Showing
<1> QED BY <1>0, <1>15

-----------------------------------------------------------------------------
(* The five hour window shows nothing of the weekly one. *)
LEMMA FiveHourShows ==
    ASSUME NEW s, s.epoch \in Nat, s.owner \in Ids, NEW d, Timely(d, s.epoch), NEW force,
           NEW e, e = Detect(d, "5h", s, force)
    PROVE  /\ e.proofs = d.proofs /\ SameHistory(d, e) /\ d.anomalies \subseteq e.anomalies
           /\ OneEvent(d.events) => OneEvent(e.events)
           /\ \A a \in e.anomalies \ d.anomalies :
                  a.owner = s.owner /\ a.window = "5h" /\ a.kind \in Kinds
<1> DEFINE k  == <<s.owner, "5h">>
           st == d.detector[k]
           before == IF st.reset # None THEN st.reset ELSE st.available
           full   == [chain |-> NoChain, confirmed |-> 0]
<1>1. k \in Detectors /\ Whole(d)
  BY DEF Detectors, Windows, Timely
<1>2. Load(d, s.owner, "5h", s.epoch) = st
  BY LoadIs DEF Timely
<1>3. WholeState(st)
  <2> HIDE DEF k
  <2> QED BY <1>1 DEF Timely
<1> HIDE DEF st
<1>4. \/ e = d
      \/ e = Baseline(d, "5h", s, st)
      \/ e = Compare(d, "5h", s, st, force)
  BY <1>2 DEF Detect
<1>5. CASE e = d
  BY <1>5 DEF SameHistory
<1>6. CASE e = Baseline(d, "5h", s, st)
  <2>1. OnlySaved(d, e)
    BY <1>1, <1>6, SaveOnly DEF Baseline
  <2> QED BY <2>1 DEF OnlySaved
<1>7. CASE e = Compare(d, "5h", s, st, force)
  <2>1. PICK shown, final, kind :
            /\ Compare(d, "5h", s, st, force) = Save(shown, s.owner, "5h", final, s.epoch)
            /\ Showing(d, shown, "5h", s, st, before, full, final, kind)
    <3>1. full = IF "5h" = "weekly"
                 THEN observe_full_weekly_reset(IF force THEN NoChain ELSE st.chain, s)
                 ELSE [chain |-> NoChain, confirmed |-> 0]
      OBVIOUS
    <3>2. before = IF st.reset # None THEN st.reset ELSE st.available
      OBVIOUS
    <3> HIDE DEF full, before
    <3> QED BY <1>1, <1>3, <3>1, <3>2, CompareShows
  <2>2. full.confirmed = 0
    OBVIOUS
  <2> HIDE DEF full, before
  <2>3. /\ Whole(shown) /\ shown.proofs = d.proofs /\ SameHistory(d, shown)
        /\ d.anomalies \subseteq shown.anomalies
        /\ OneEvent(d.events) => OneEvent(shown.events)
        /\ \A a \in shown.anomalies \ d.anomalies :
               a.owner = s.owner /\ a.window = "5h" /\ a.kind \in Kinds
    BY <2>1, <2>2 DEF Showing, Beside
  <2>4. OnlySaved(shown, e)
    BY <1>7, <2>1, <2>3, SaveOnly
  <2> QED BY <2>3, <2>4 DEF OnlySaved, SameHistory
<1> QED BY <1>4, <1>5, <1>6, <1>7

LEMMA FiveHourEvident ==
    ASSUME NEW L, NEW s, NEW M, Extended(L, s, M), NEW H,
           NEW d, Timely(d, s.epoch), Evident(d, L, H), NEW force,
           NEW e, e = Detect(d, "5h", s, force)
    PROVE  /\ Evident(e, L, H) /\ Timely(e, s.epoch) /\ SameHistory(d, e)
           /\ (Follows(d, L) => Follows(e, L))
           /\ \A o \in Ids : Weekly(e, o) = Weekly(d, o)
<1>1. s.epoch \in Nat /\ s.owner \in Ids /\ "5h" \in Windows
  BY Times DEF Windows
<1>2. /\ e.proofs = d.proofs /\ SameHistory(d, e) /\ d.anomalies \subseteq e.anomalies
      /\ OneEvent(d.events) => OneEvent(e.events)
      /\ \A a \in e.anomalies \ d.anomalies :
             a.owner = s.owner /\ a.window = "5h" /\ a.kind \in Kinds
  BY <1>1, FiveHourShows
<1>3. Timely(e, s.epoch) /\ OneDetector(d, e, <<s.owner, "5h">>)
  BY <1>1, DetectQuiet
<1>4. \A o \in Ids : Weekly(e, o) = Weekly(d, o)
  <2> SUFFICES ASSUME NEW o \in Ids PROVE Weekly(e, o) = Weekly(d, o)
    OBVIOUS
  <2>1. <<o, "weekly">> \in Detectors /\ <<o, "weekly">> # <<s.owner, "5h">>
    BY DEF Detectors, Windows
  <2> QED BY <1>3, <2>1 DEF OneDetector, Weekly
<1>5. \A a \in e.anomalies : a.window = "weekly" => a \in d.anomalies
  BY <1>2
<1>6. Watched(e, L)
  <2>1. \A t : Unsettled(d, t) => Unsettled(e, t)
    BY <1>2, <1>5 DEF Unsettled
  <2> QED BY <1>4, <2>1 DEF Evident, Watched
<1>7. Typed(e) /\ Dated(e, TimeOf(L))
  BY <1>1, <1>2, <1>5 DEF Evident, Typed, Dated
<1>8. Settling(e, TimeOf(L), H)
  <2> SUFFICES ASSUME NEW x \in H PROVE Movement(x, TimeOf(L)) /\ OneOf(e, x)
    BY DEF Settling
  <2>1. Movement(x, TimeOf(L)) /\ OneOf(d, x)
    BY DEF Evident, Settling
  <2>2. Waits(e, x) <=> Waits(d, x)
    BY <1>4, <2>1 DEF Waits, Movement
  <2>3. (Was(e, x) <=> Was(d, x)) /\ (Shifted(e, x) <=> Shifted(d, x))
    BY <1>2, <1>5 DEF Was, Shifted
  <2> QED BY <2>1, <2>2, <2>3 DEF OneOf
<1>9. FullIsConfirmed(e, L) /\ PairIsOfOneOwner(e, L)
  <2>1. FullIsConfirmed(d, L) /\ PairIsOfOneOwner(d, L)
    BY DEF Evident
  <2>2. e.proofs = d.proofs
    BY <1>2
  <2>3. FullIsConfirmed(e, L)
    BY <2>1, <2>2 DEF FullIsConfirmed
  <2> QED BY <2>1, <2>2, <2>3 DEF PairIsOfOneOwner
<1>10. AcceptedIsQuiet(e, L)
  BY <1>2, <1>5 DEF Evident, AcceptedIsQuiet
<1>11. Follows(d, L) => Follows(e, L)
  <2> SUFFICES ASSUME Follows(d, L), L # <<>>, Complete(Newest(L)) PROVE Follows(e, L)
    BY DEF Follows
  <2>1. Newest(L).owner \in Ids
    BY Times
  <2> QED BY <1>4, <2>1 DEF Follows
<1> QED BY <1>2, <1>3, <1>4, <1>6, <1>7, <1>8, <1>9, <1>10, <1>11 DEF Evident

-----------------------------------------------------------------------------
LEMMA BaselineSaves ==
    ASSUME NEW d, NEW w, NEW s, s.epoch \in Nat, NEW st, WholeState(st)
    PROVE  \E z : /\ Baseline(d, w, s, st) = Save(d, s.owner, w, z, s.epoch)
                  /\ WholeState(z) /\ z.epoch = s.epoch /\ z.pct = s.pct[w] /\ z.reset = s.reset[w]
                  /\ z.deferred = st.deferred
                  /\ w = "weekly" => z.chain = observe_full_weekly_reset(NoChain, s).chain
<1> DEFINE chain == IF w = "weekly" THEN observe_full_weekly_reset(NoChain, s).chain ELSE st.chain
           m == st.deferred
           p == s.pct[w]
           r == s.reset[w]
           t == s.epoch
           fresh == [StateDefault EXCEPT
                        !.known = st.known, !.updated = st.updated, !.deferred = m,
                        !.epoch = t, !.pct = p, !.reset = r, !.available = r, !.chain = chain]
           dated == RecordDate(fresh, r)
<1>1. Baseline(d, w, s, st) = Save(d, s.owner, w, dated, s.epoch)
  BY DEF Baseline
<1>2. t \in Nat
  OBVIOUS
<1>3. /\ WholeState(fresh) /\ fresh.epoch = t /\ fresh.pct = p /\ fresh.reset = r
      /\ fresh.deferred = m /\ fresh.chain = chain
  <2>1. fresh = [StateDefault EXCEPT
                    !.known = st.known, !.updated = st.updated, !.deferred = m,
                    !.epoch = t, !.pct = p, !.reset = r, !.available = r, !.chain = chain]
    OBVIOUS
  <2> HIDE DEF fresh, chain, m, p, r, t
  <2> QED BY <1>2, <2>1 DEF WholeState, StateDefault
<1> HIDE DEF fresh, chain, m, p, r, t
<1>4. /\ WholeState(dated) /\ dated.epoch = t /\ dated.pct = p /\ dated.reset = r
      /\ dated.deferred = m /\ dated.chain = chain
  BY <1>3, RecordDateStill DEF StillOf
<1> HIDE DEF dated
<1> QED BY <1>1, <1>4 DEF chain, m, p, r, t

(* What the weekly window shows of a sample that follows L. *)
Shown(e, L, s, M, H) ==
    /\ Evident(e, M, H) /\ Follows(e, M)
    /\ \A p \in e.proofs : p.method # "full_observed" => p.seen \in 1..TimeOf(L)
    /\ /\ L # <<>> /\ Complete(Newest(L)) /\ Newest(L).owner = s.owner /\ Complete(s)
       /\ ObservedEvents(Newest(L), s) # {}
       => \A a \in e.anomalies : a.window = "weekly" => a.at # s.epoch

(* Without a value in the sample, or not complete, it shows nothing. *)
LEMMA BrokenShows ==
    ASSUME NEW L, NEW s, NEW M, Extended(L, s, M), NEW H,
           NEW e, Timely(e, s.epoch), Evident(e, L, H), ~Complete(s),
           \A q \in Ids : Idle(Weekly(e, q))
    PROVE  Shown(e, L, s, M, H)
<1>1. /\ TimeOf(L) \in Nat /\ s.epoch \in Nat /\ TimeOf(L) < s.epoch /\ TimeOf(M) = s.epoch
      /\ Newest(M) = s
  BY Times
<1>2. /\ Dated(e, s.epoch) /\ Settling(e, s.epoch, H) /\ FullIsConfirmed(e, M)
      /\ PairIsOfOneOwner(e, M) /\ AcceptedIsQuiet(e, M)
  BY StillEvident
<1>3. Watched(e, M)
  <2> SUFFICES ASSUME NEW q \in Ids
               PROVE  Watching(Weekly(e, q), q, M) /\ ~Weekly(e, q).chain.candidate
    BY DEF Watched
  <2>1. <<q, "weekly">> \in Detectors
    BY DEF Detectors, Windows
  <2>2. Weekly(e, q).epoch <= TimeOf(M)
    BY <1>1, <2>1 DEF Timely, Weekly
  <2> QED BY <2>2, NoChainIs DEF Watching, Idle
<1>4. Typed(e) /\ \A p \in e.proofs : p.method # "full_observed" => p.seen \in 1..TimeOf(L)
  BY DEF Evident, Dated
<1>5. Follows(e, M)
  BY <1>1 DEF Follows
<1> QED BY <1>1, <1>2, <1>3, <1>4, <1>5 DEF Shown, Evident

LEMMA BaselineShows ==
    ASSUME NEW L, NEW s, NEW M, Extended(L, s, M), NEW H,
           NEW d, Timely(d, s.epoch), Evident(d, L, H), s.pct["weekly"] # None,
           \A q \in Ids : Idle(Weekly(d, q)),
           NEW st, st = Weekly(d, s.owner), NEW e, e = Baseline(d, "weekly", s, st)
    PROVE  Shown(e, L, s, M, H) /\ SameHistory(d, e)
<1> DEFINE o == s.owner
           k == <<o, "weekly">>
<1>1. /\ TimeOf(L) \in Nat /\ s.epoch \in Nat /\ TimeOf(L) < s.epoch /\ TimeOf(M) = s.epoch
      /\ Newest(M) = s /\ o \in Ids
  BY Times
<1>2. k \in Detectors /\ "weekly" \in Windows /\ Whole(d) /\ Table(d.detector)
  BY <1>1 DEF Detectors, Windows, Timely
<1>3. WholeState(st) /\ Idle(st)
  <2>1. st = d.detector[k]
    BY DEF Weekly
  <2> HIDE DEF k
  <2> QED BY <1>1, <1>2, <2>1 DEF Timely
<1>4. PICK z : /\ e = Save(d, o, "weekly", z, s.epoch)
               /\ WholeState(z) /\ z.epoch = s.epoch /\ z.pct = s.pct["weekly"]
               /\ z.reset = s.reset["weekly"] /\ z.deferred = <<>>
               /\ z.chain = observe_full_weekly_reset(NoChain, s).chain
  BY <1>1, <1>3, BaselineSaves DEF Idle
<1>5. Saved(d, e, k, z, s.epoch) /\ OnlySaved(d, e)
  <2>1. k = <<o, "weekly">>
    OBVIOUS
  <2> HIDE DEF k, o
  <2> QED BY <1>1, <1>2, <1>4, <2>1, SaveOne, SaveOnly
<1>6. z.chain = NoChain \/ (Chained(z.chain, o, M) /\ ~z.chain.candidate)
  <2> DEFINE full == observe_full_weekly_reset(NoChain, s)
  <2>1. /\ full.chain = NoChain \/ Chained(full.chain, s.owner, M)
        /\ ~full.chain.candidate
    <3>1. \A f : f = full => /\ f.chain = NoChain \/ Chained(f.chain, s.owner, M)
                             /\ ~f.chain.candidate
      BY ChainAfter
    <3> QED BY <3>1
  <2> QED BY <1>4, <2>1
<1> HIDE DEF o, k
<1>7. /\ Weekly(e, o).known = TRUE /\ Weekly(e, o).epoch = s.epoch
      /\ Weekly(e, o).pct = s.pct["weekly"] /\ Weekly(e, o).reset = s.reset["weekly"]
      /\ Weekly(e, o).deferred = <<>> /\ Weekly(e, o).chain = z.chain
  BY <1>4, <1>5 DEF Saved, Weekly, k
<1>8. \A q \in Ids \ {o} : Weekly(e, q) = Weekly(d, q)
  <2> SUFFICES ASSUME NEW q \in Ids, q # o PROVE Weekly(e, q) = Weekly(d, q)
    OBVIOUS
  <2>1. <<q, "weekly">> \in Detectors /\ <<q, "weekly">> # k
    BY DEF Detectors, Windows, k
  <2> QED BY <1>5, <2>1 DEF Saved, OneDetector, Weekly
<1>9. Watched(e, M)
  <2> SUFFICES ASSUME NEW q \in Ids
               PROVE  Watching(Weekly(e, q), q, M) /\ ~Weekly(e, q).chain.candidate
    BY DEF Watched
  <2>1. CASE q = o
    BY <1>1, <1>6, <1>7, <2>1, NoChainIs DEF Watching
  <2>2. CASE q # o
    <3>1. <<q, "weekly">> \in Detectors
      BY DEF Detectors, Windows
    <3>2. Weekly(d, q).epoch <= s.epoch
      BY <1>1, <3>1 DEF Timely, Weekly
    <3> QED BY <1>1, <1>8, <2>2, <3>2, NoChainIs DEF Watching, Idle
  <2> QED BY <2>1, <2>2
<1>10. e.proofs = d.proofs /\ e.events = d.events /\ e.anomalies = d.anomalies /\ SameHistory(d, e)
  BY <1>5 DEF OnlySaved
<1>11. /\ Dated(d, s.epoch) /\ Settling(d, s.epoch, H) /\ FullIsConfirmed(d, M)
       /\ PairIsOfOneOwner(d, M) /\ AcceptedIsQuiet(d, M)
  BY StillEvident
<1>12. Typed(e) /\ Dated(e, s.epoch) /\ PairIsOfOneOwner(e, M) /\ AcceptedIsQuiet(e, M)
  BY <1>10, <1>11 DEF Evident, Typed, Dated, PairIsOfOneOwner, AcceptedIsQuiet
<1>13. FullIsConfirmed(e, M)
  BY <1>10, <1>11 DEF FullIsConfirmed
<1>14. Settling(e, s.epoch, H)
  <2> SUFFICES ASSUME NEW x \in H PROVE Movement(x, s.epoch) /\ OneOf(e, x)
    BY DEF Settling
  <2>1. Movement(x, s.epoch) /\ OneOf(d, x)
    BY <1>11 DEF Settling
  <2>2. Weekly(e, x[1]).deferred = Weekly(d, x[1]).deferred
    <3>1. CASE x[1] = o
      BY <1>1, <1>7, <3>1 DEF Idle
    <3>2. CASE x[1] # o
      BY <1>8, <2>1, <3>2 DEF Movement
    <3> QED BY <3>1, <3>2
  <2>3. /\ Waits(e, x) <=> Waits(d, x)
        /\ (Was(e, x) <=> Was(d, x)) /\ (Shifted(e, x) <=> Shifted(d, x))
    BY <1>10, <2>2 DEF Waits, Was, Shifted
  <2> QED BY <2>1, <2>3 DEF OneOf
<1>15. Follows(e, M)
  BY <1>1, <1>7 DEF Follows, o
<1>16. /\ \A p \in e.proofs : p.method # "full_observed" => p.seen \in 1..TimeOf(L)
       /\ \A a \in e.anomalies : a.window = "weekly" => a.at # s.epoch
  <2>1. Dated(d, TimeOf(L))
    BY DEF Evident
  <2> QED BY <1>1, <1>10, <2>1 DEF Dated
<1> QED BY <1>1, <1>9, <1>10, <1>12, <1>13, <1>14, <1>15, <1>16 DEF Shown, Evident

LEMMA ComparedShows ==
    ASSUME NEW L, NEW s, NEW M, Extended(L, s, M), NEW H,
           NEW d, Timely(d, s.epoch), Evident(d, L, H), Follows(d, L), s.pct["weekly"] # None,
           \A q \in Ids \ {s.owner} : Idle(Weekly(d, q)),
           NEW st, st = Weekly(d, s.owner), NEW force, force => Idle(st),
           NEW e, e = Compare(d, "weekly", s, st, force)
    PROVE  Shown(e, L, s, M, H) /\ SameHistory(d, e)
<1> DEFINE o == s.owner
           k == <<o, "weekly">>
           m == st.deferred
           before == IF st.reset # None THEN st.reset ELSE st.available
           full   == observe_full_weekly_reset(st.chain, s)
<1>1. /\ TimeOf(L) \in Nat /\ s.epoch \in Nat /\ TimeOf(L) < s.epoch /\ TimeOf(M) = s.epoch
      /\ Newest(M) = s /\ o \in Ids
  BY Times
<1>2. k \in Detectors /\ "weekly" \in Windows /\ Whole(d) /\ Table(d.detector)
  BY <1>1 DEF Detectors, Windows, Timely
<1>3. WholeState(st)
  <2>1. st = d.detector[k]
    BY DEF Weekly
  <2> HIDE DEF k
  <2> QED BY <1>1, <1>2, <2>1 DEF Timely
<1>4. /\ Watching(st, o, L) /\ (st.chain.candidate => Unsettled(d, TimeOf(L)))
      /\ Dated(d, TimeOf(L)) /\ Settling(d, TimeOf(L), H) /\ Watched(d, L) /\ Typed(d)
  BY <1>1 DEF Evident, Watched
<1>5. PICK shown, final, kind :
          /\ e = Save(shown, o, "weekly", final, s.epoch)
          /\ Showing(d, shown, "weekly", s, st, before, full, final, kind)
  <2>1. (IF force THEN NoChain ELSE st.chain) = st.chain
    BY DEF Idle
  <2>2. full = IF "weekly" = "weekly"
               THEN observe_full_weekly_reset(IF force THEN NoChain ELSE st.chain, s)
               ELSE [chain |-> NoChain, confirmed |-> 0]
    BY <2>1
  <2>3. before = IF st.reset # None THEN st.reset ELSE st.available
    OBVIOUS
  <2> HIDE DEF full, before
  <2> QED BY <1>1, <1>2, <1>3, <2>2, <2>3, CompareShows
<1>6. /\ full.chain = NoChain \/ Chained(full.chain, o, M)
      /\ full.chain.candidate => Candidate(M) /\ st.chain # NoChain
      /\ full.confirmed # 0 => /\ st.chain # NoChain /\ st.chain.candidate
                               /\ full.confirmed = TimeOf(L) /\ Confirming(L, s)
  <2>1. full = observe_full_weekly_reset(st.chain, s)
    OBVIOUS
  <2>2. st.chain = NoChain \/ Chained(st.chain, s.owner, L)
    BY <1>4 DEF Watching
  <2> HIDE DEF full
  <2> QED BY <2>1, <2>2, ChainAfter
<1> HIDE DEF full
<1>7. Saved(shown, e, k, final, s.epoch) /\ OnlySaved(shown, e)
  <2>1. Whole(shown) /\ Table(shown.detector) /\ WholeState(final)
    BY <1>2, <1>5 DEF Showing, Beside
  <2>2. k = <<o, "weekly">>
    OBVIOUS
  <2> HIDE DEF k, o
  <2> QED BY <1>1, <1>2, <1>5, <2>1, <2>2, SaveOne, SaveOnly
<1>8. /\ e.proofs = shown.proofs /\ e.events = shown.events /\ e.anomalies = shown.anomalies
      /\ SameHistory(d, e)
  BY <1>5, <1>7 DEF OnlySaved, SameHistory, Showing
<1> HIDE DEF k
<1>9. /\ Weekly(e, o).known = TRUE /\ Weekly(e, o).epoch = s.epoch
      /\ Weekly(e, o).pct = s.pct["weekly"] /\ Weekly(e, o).reset = s.reset["weekly"]
      /\ Weekly(e, o).deferred = final.deferred /\ Weekly(e, o).chain = full.chain
  BY <1>5, <1>7 DEF Saved, Weekly, k, Showing
<1>10. \A q \in Ids \ {o} : Weekly(e, q) = Weekly(d, q)
  <2> SUFFICES ASSUME NEW q \in Ids, q # o PROVE Weekly(e, q) = Weekly(d, q)
    OBVIOUS
  <2>1. <<q, "weekly">> \in Detectors /\ <<q, "weekly">> # k
    BY DEF Detectors, Windows, k
  <2>2. shown.detector = d.detector
    BY <1>5 DEF Showing, Beside
  <2> QED BY <1>7, <2>1, <2>2 DEF Saved, OneDetector, Weekly
<1>11. \A a \in e.anomalies \ d.anomalies :
           /\ a.owner = o /\ a.window = "weekly" /\ a.kind \in Kinds
           /\ \/ /\ a.at = s.epoch /\ kind # "none"
                 /\ a.kind = "reset_shift" => a.episode[3] = s.epoch
              \/ /\ m # <<>> /\ m[1] # full.confirmed
                 /\ a.kind = "reset_shift" /\ a.at = m[1] /\ a.episode = <<m[2], m[3], m[1]>>
  BY <1>5, <1>8 DEF Showing
<1>12. m # <<>> => /\ m = <<TimeOf(L), m[2], m[3]>> /\ m[1] = TimeOf(L)
                   /\ TimeOf(L) \in 1..TimeOf(L) /\ Unsettled(d, TimeOf(L))
  <2> SUFFICES ASSUME m # <<>>
               PROVE  /\ m = <<TimeOf(L), m[2], m[3]>> /\ m[1] = TimeOf(L)
                      /\ TimeOf(L) \in 1..TimeOf(L) /\ Unsettled(d, TimeOf(L))
    OBVIOUS
  <2>1. st.chain # NoChain /\ st.chain.candidate /\ m = <<TimeOf(L), m[2], m[3]>> /\ L # <<>>
    BY <1>4 DEF Watching, Chained
  <2>2. TimeOf(L) > 0
    BY <2>1, Times
  <2> QED BY <1>1, <1>4, <2>1, <2>2
<1>13. /\ d.proofs \subseteq e.proofs /\ d.anomalies \subseteq e.anomalies
       /\ \A p \in e.proofs \ d.proofs :
              /\ p.method = "full_observed" /\ full.confirmed # 0 /\ p.at = full.confirmed
              /\ p.seen = s.epoch
       /\ full.confirmed # 0 =>
              \E p \in e.proofs : p.method = "full_observed" /\ p.at = full.confirmed
       /\ m # <<>> /\ m[1] # full.confirmed => Shifted(e, <<o, m>>)
       /\ OneEvent(d.events) => OneEvent(e.events)
  BY <1>5, <1>8 DEF Showing, Shifted
<1>14. Settling(e, s.epoch, H)
  <2>1. final.deferred = <<>> \/ final.deferred[1] = s.epoch
    BY <1>5 DEF Showing
  <2>2. GoesOn(d, e, L, o, m, full.confirmed, s.epoch)
    BY <1>4, <1>6, <1>9, <1>10, <1>11, <1>13, <2>1 DEF GoesOn
  <2>3. Settling(e, TimeOf(L), H)
    BY <1>1, <1>4, <2>2, MovementsSettled
  <2>4. \A x : Movement(x, TimeOf(L)) => Movement(x, s.epoch)
    BY <1>1 DEF Movement
  <2> QED BY <2>3, <2>4 DEF Settling
<1>15. full.chain.candidate => Unsettled(e, s.epoch)
  <2> SUFFICES ASSUME full.chain.candidate PROVE Unsettled(e, s.epoch)
    OBVIOUS
  <2>1. kind = "none"
    BY <1>5 DEF Showing
  <2>2. ASSUME NEW a \in e.anomalies, a.window = "weekly" PROVE a.at # s.epoch
    <3>1. CASE a \in d.anomalies
      BY <1>1, <1>4, <2>2, <3>1 DEF Dated
    <3>2. CASE a \notin d.anomalies
      BY <1>1, <1>11, <1>12, <2>1, <3>2
    <3> QED BY <3>1, <3>2
  <2>3. ASSUME NEW p \in e.proofs
        PROVE  IF p.method = "full_observed" THEN p.at # s.epoch ELSE p.seen # s.epoch
    <3>1. CASE p \in d.proofs
      BY <1>1, <1>4, <3>1 DEF Dated
    <3>2. CASE p \notin d.proofs
      BY <1>1, <1>6, <1>13, <3>2
    <3> QED BY <3>1, <3>2
  <2> QED BY <2>2, <2>3 DEF Unsettled
<1>16. Watched(e, M)
  <2> SUFFICES ASSUME NEW q \in Ids
               PROVE  /\ Watching(Weekly(e, q), q, M)
                      /\ Weekly(e, q).chain.candidate => Unsettled(e, s.epoch)
    BY <1>1 DEF Watched
  <2>1. CASE q = o
    <3>1. \/ final.deferred = <<>>
          \/ /\ full.chain.candidate
             /\ final.deferred = <<s.epoch, final.deferred[2], final.deferred[3]>>
      BY <1>5 DEF Showing
    <3> QED BY <1>1, <1>6, <1>9, <1>15, <2>1, <3>1, NoChainIs DEF Watching
  <2>2. CASE q # o
    <3>1. <<q, "weekly">> \in Detectors
      BY DEF Detectors, Windows
    <3>2. Weekly(d, q).epoch <= s.epoch
      BY <1>1, <3>1 DEF Timely, Weekly
    <3> QED BY <1>1, <1>10, <2>2, <3>2, NoChainIs DEF Watching, Idle
  <2> QED BY <2>1, <2>2
<1>17. /\ Dated(d, s.epoch) /\ FullIsConfirmed(d, M) /\ PairIsOfOneOwner(d, M)
       /\ AcceptedIsQuiet(d, M)
  BY StillEvident
<1>18. Typed(e)
  BY <1>1, <1>2, <1>4, <1>11, <1>13 DEF Typed
<1>19. Dated(e, s.epoch)
  <2>1. ASSUME NEW p \in e.proofs
        PROVE  p.seen \in 1..s.epoch /\ (p.method = "full_observed" => p.at \in 1..s.epoch)
    <3>1. CASE p \in d.proofs
      BY <1>17, <3>1 DEF Dated
    <3>2. CASE p \notin d.proofs
      BY <1>1, <1>6, <1>13, <3>2
    <3> QED BY <3>1, <3>2
  <2>2. ASSUME NEW a \in e.anomalies, a.window = "weekly"
        PROVE  a.at \in 1..s.epoch /\ (a.kind = "reset_shift" => a.episode[3] = a.at)
    <3>1. CASE a \in d.anomalies
      BY <1>17, <2>2, <3>1 DEF Dated
    <3>2. CASE a \notin d.anomalies
      BY <1>1, <1>11, <1>12, <3>2
    <3> QED BY <3>1, <3>2
  <2> QED BY <2>1, <2>2 DEF Dated
<1>20. PairIsOfOneOwner(e, M)
  BY <1>13, <1>17 DEF PairIsOfOneOwner
<1>21. AcceptedIsQuiet(e, M)
  <2> SUFFICES ASSUME NEW p \in d.proofs, NEW a \in e.anomalies, a \notin d.anomalies,
                      p.method # "full_observed", a.at = p.seen
               PROVE  FALSE
    BY <1>13, <1>17 DEF AcceptedIsQuiet
  <2>1. p.seen \in 1..TimeOf(L)
    BY <1>4 DEF Dated
  <2>2. a.at # s.epoch
    BY <1>1, <2>1
  <2>3. m # <<>> /\ a.at = m[1]
    BY <1>11, <2>2
  <2> QED BY <1>12, <2>3 DEF Unsettled
<1>22. FullIsConfirmed(e, M)
  <2>1. ASSUME NEW p \in e.proofs, p \notin d.proofs
        PROVE  \E i \in 2..Len(M) - 1 :
            LET a == M[i - 1] b == M[i] c == M[i + 1] IN
            /\ b.epoch = p.at /\ c.epoch = p.seen
            /\ Complete(a) /\ Complete(b) /\ Complete(c) /\ a.owner = b.owner /\ b.owner = c.owner
            /\ a.pct["weekly"] = 100 /\ b.pct["weekly"] = 100
            /\ b.epoch - a.epoch <= GapLimit /\ c.epoch - b.epoch <= GapLimit
            /\ b.epoch < a.reset["weekly"] /\ b.reset["weekly"] - a.reset["weekly"] >= MinAdvance
            /\ Distance(b.reset["weekly"], c.reset["weekly"]) <= ConfirmTolerance
    <3>1. /\ p.at = TimeOf(L) /\ p.seen = s.epoch /\ Confirming(L, s) /\ Chained(st.chain, o, L)
          /\ st.chain.candidate
      BY <1>4, <1>6, <1>13, <2>1 DEF Watching
    <3>2. Candidate(L) /\ L # <<>> /\ TimeOf(L) = Newest(L).epoch
      BY <3>1 DEF Chained, TimeOf
    <3> DEFINE i == Len(L)
    <3>3. /\ i \in 2..Len(M) - 1 /\ M[i - 1] = L[Len(L) - 1] /\ M[i] = Newest(L) /\ M[i + 1] = s
      <4>1. Len(L) \in Nat /\ Len(L) >= 2 /\ DOMAIN L = 1..Len(L) /\ Len(M) = Len(L) + 1
        BY <3>2 DEF Candidate, Extended, Samples
      <4> QED BY <4>1 DEF Extended, Newest
    <3>4. LET a == M[i - 1] b == M[i] c == M[i + 1] IN
            /\ b.epoch = p.at /\ c.epoch = p.seen
            /\ Complete(a) /\ Complete(b) /\ Complete(c) /\ a.owner = b.owner /\ b.owner = c.owner
            /\ a.pct["weekly"] = 100 /\ b.pct["weekly"] = 100
            /\ b.epoch - a.epoch <= GapLimit /\ c.epoch - b.epoch <= GapLimit
            /\ b.epoch < a.reset["weekly"] /\ b.reset["weekly"] - a.reset["weekly"] >= MinAdvance
            /\ Distance(b.reset["weekly"], c.reset["weekly"]) <= ConfirmTolerance
      BY <3>1, <3>2, <3>3 DEF Candidate, Confirming
    <3> QED BY <3>3, <3>4
  <2> QED BY <1>17, <2>1 DEF FullIsConfirmed
<1>23. Follows(e, M)
  BY <1>1, <1>9 DEF Follows
<1>24. \A p \in e.proofs : p.method # "full_observed" => p.seen \in 1..TimeOf(L)
  BY <1>4, <1>13 DEF Dated
<1>25. /\ L # <<>> /\ Complete(Newest(L)) /\ Newest(L).owner = s.owner /\ Complete(s)
       /\ ObservedEvents(Newest(L), s) # {}
       => \A a \in e.anomalies : a.window = "weekly" => a.at # s.epoch
  <2> SUFFICES ASSUME L # <<>>, Complete(Newest(L)), Newest(L).owner = s.owner, Complete(s),
                      ObservedEvents(Newest(L), s) # {},
                      NEW a \in e.anomalies, a.window = "weekly"
               PROVE  a.at # s.epoch
    OBVIOUS
  <2>1. /\ st.epoch = Newest(L).epoch /\ st.pct = Newest(L).pct["weekly"]
        /\ st.reset = Newest(L).reset["weekly"] /\ before = st.reset /\ before # None
    BY DEF Follows, Complete
  <2>2. CrossedOnTime(Newest(L), s) \/ Refilled(Newest(L), s)
    BY DEF ObservedEvents
  <2>3. \/ before # None /\ st.epoch < before /\ before <= s.epoch
        \/ is_weekly_refill(st.pct, before, s.pct["weekly"], s.reset["weekly"])
    BY <2>1, <2>2 DEF CrossedOnTime, Refilled
  <2> HIDE DEF before
  <2>4. kind = "none"
    BY <1>5, <2>3 DEF Showing
  <2>5. CASE a \in d.anomalies
    BY <1>1, <1>4, <2>5 DEF Dated
  <2>6. CASE a \notin d.anomalies
    BY <1>1, <1>11, <1>12, <2>4, <2>6
  <2> QED BY <2>5, <2>6
<1> QED BY <1>1, <1>8, <1>14, <1>16, <1>18, <1>19, <1>20, <1>21, <1>22, <1>23, <1>24, <1>25
        DEF Shown, Evident

(* What the weekly window makes of a sample, whichever way it takes. *)
LEMMA WeeklyShows ==
    ASSUME NEW L, NEW s, NEW M, Extended(L, s, M), NEW H,
           NEW d, Timely(d, s.epoch), Evident(d, L, H), Follows(d, L),
           \A q \in Ids \ {s.owner} : Idle(Weekly(d, q)),
           NEW force, force => Idle(Weekly(d, s.owner)),
           NEW e, e = Detect(d, "weekly", s, force)
    PROVE  Shown(e, L, s, M, H) /\ SameHistory(d, e)
<1> DEFINE st == Weekly(d, s.owner)
<1>1. /\ TimeOf(L) \in Nat /\ s.epoch \in Nat /\ TimeOf(L) < s.epoch /\ s.owner \in Ids
  BY Times
<1>2. Load(d, s.owner, "weekly", s.epoch) = st
  BY LoadIs DEF Timely, Weekly
<1>3. Watching(st, s.owner, L) /\ WholeState(st)
  <2>1. Watching(st, s.owner, L)
    BY <1>1 DEF Evident, Watched
  <2>2. <<s.owner, "weekly">> \in Detectors
    BY <1>1 DEF Detectors, Windows
  <2>3. \A k \in Detectors : WholeState(d.detector[k])
    BY DEF Timely
  <2>4. WholeState(d.detector[<<s.owner, "weekly">>])
    BY <2>2, <2>3
  <2> QED BY <2>1, <2>4 DEF Weekly
<1> HIDE DEF st
<1>4. CASE s.pct["weekly"] = None
  <2>1. e = Break(d, s.owner, s.epoch)
    BY <1>4 DEF Detect
  <2>2. /\ Evident(e, L, H) /\ Timely(e, s.epoch) /\ SameHistory(d, e)
        /\ Idle(Weekly(e, s.owner))
        /\ \A q \in Ids \ {s.owner} : Weekly(e, q) = Weekly(d, q)
    BY <1>1, <2>1, BreakEvident
  <2>3. \A q \in Ids : Idle(Weekly(e, q))
    BY <2>2
  <2>4. ~Complete(s)
    BY <1>4 DEF Complete
  <2> QED BY <2>2, <2>3, <2>4, BrokenShows
<1>5. CASE s.pct["weekly"] # None /\ ((force /\ ~st.known) \/ st.pct = None)
  <2>1. e = Baseline(d, "weekly", s, st)
    BY <1>2, <1>5 DEF Detect
  <2>2. Idle(st)
    BY <1>3, <1>5 DEF Watching, Idle, st
  <2>3. \A q \in Ids : Idle(Weekly(d, q))
    BY <2>2 DEF st
  <2> QED BY <1>5, <2>1, <2>3, BaselineShows DEF st
<1>6. CASE s.pct["weekly"] # None /\ ~((force /\ ~st.known) \/ st.pct = None)
  <2>1. ~IsOld(st, s)
    BY <1>1, <1>3 DEF Watching, WholeState, IsOld
  <2>2. e = Compare(d, "weekly", s, st, force)
    BY <1>2, <1>6, <2>1 DEF Detect
  <2>3. force => Idle(st)
    BY DEF st
  <2> QED BY <1>6, <2>2, <2>3, ComparedShows DEF st
<1> QED BY <1>4, <1>5, <1>6

-----------------------------------------------------------------------------
(* What is recorded of a pair of complete samples. *)
LEMMA RecordShows ==
    ASSUME NEW d, Whole(d), NEW p, NEW c, NEW e, e = Record(d, p, c)
    PROVE  /\ Beside(d, e) /\ e.anomalies = d.anomalies /\ SameHistory(d, e)
           /\ OneEvent(d.events) => OneEvent(e.events)
           /\ d.proofs \subseteq e.proofs
           /\ \A q \in e.proofs \ d.proofs : /\ ObservedEvents(p, c) # {} /\ q.seen = c.epoch
                                             /\ q.method # "full_observed"
<1> DEFINE f == CHOOSE f \in ObservedEvents(p, c) : TRUE
           x == AddProof(d, f)
<1>1. CASE ObservedEvents(p, c) = {}
  <2>1. e = d
    BY <1>1 DEF Record
  <2> QED BY <2>1 DEF Beside, SameHistory
<1>2. CASE ObservedEvents(p, c) # {}
  <2>1. e = AddEvent(x, "weekly", f)
    BY <1>2 DEF Record
  <2>2. f \in ObservedEvents(p, c)
    BY <1>2
  <2> HIDE DEF f
  <2>3. f.seen = c.epoch /\ f.method # "full_observed"
    BY <2>2 DEF ObservedEvents
  <2>4. /\ Beside(d, x) /\ x.anomalies = d.anomalies /\ x.events = d.events /\ SameHistory(d, x)
        /\ d.proofs \subseteq x.proofs /\ x.proofs \subseteq d.proofs \cup {f}
    BY AddProofOne
  <2> HIDE DEF x
  <2>5. /\ Beside(x, e) /\ e.anomalies = x.anomalies /\ e.proofs = x.proofs /\ SameHistory(x, e)
        /\ OneEvent(x.events) => OneEvent(e.events)
    BY <2>1, <2>4, AddEventOne DEF Beside
  <2>6. Beside(d, e) /\ SameHistory(d, e)
    BY <2>4, <2>5 DEF Beside, SameHistory
  <2> QED BY <1>2, <2>3, <2>4, <2>5, <2>6
<1> QED BY <1>1, <1>2

(* The history goes on with s: a pair it is evidence of is one of base and s. *)
Noted(d, e, s, base) ==
    /\ Whole(e) /\ e.detector = d.detector /\ e.anomalies = d.anomalies
    /\ e.active = d.active /\ e.seen = s.epoch /\ e.seenOwner = s.owner
    /\ e.baseline = (IF Complete(s) THEN {s} ELSE base)
    /\ OneEvent(d.events) => OneEvent(e.events)
    /\ d.proofs \subseteq e.proofs
    /\ \A q \in e.proofs \ d.proofs :
           /\ q.seen = s.epoch /\ q.method # "full_observed"
           /\ Complete(s) /\ \E p \in base : ObservedEvents(p, s) # {}

LEMMA HistoryNotes ==
    ASSUME NEW s, s.epoch \in Nat, NEW d, Whole(d), d.seen < s.epoch, d.seen \in Nat,
           NEW prior \in Nat, prior < s.epoch, NEW active,
           NEW e, e = observe_weekly_reset_history(d, s, prior, active)
    PROVE  Noted(d, e, s, BaseOf(d, s))
<1> DEFINE first == BaseOf(d, s)
           inter == IF d.start # None THEN d.interrupted ELSE Interrupted(d, s, active)
           chain == Load(d, s.owner, "weekly", s.epoch).chain
           p     == CHOOSE p \in first : TRUE
           noted == IF Complete(s) /\ first # {} THEN Record(d, p, s) ELSE d
           start == IF Complete(s) /\ noted.start = None
                    THEN EvidenceStart(noted, s, chain, first, inter) ELSE noted.start
           base  == IF Complete(s) THEN {s} ELSE first
           t     == s.epoch
           o     == s.owner
<1>1. e = [noted EXCEPT !.start = start, !.seen = t, !.seenOwner = o,
                        !.interrupted = inter, !.baseline = base]
  <2>1. observe_weekly_reset_history(d, s, prior, active) =
            IF s.epoch <= (IF d.seen > 0 THEN d.seen ELSE prior) THEN d
            ELSE [noted EXCEPT !.start = start, !.seen = s.epoch, !.seenOwner = s.owner,
                               !.interrupted = inter, !.baseline = base]
    BY DEF observe_weekly_reset_history
  <2>2. ~(s.epoch <= (IF d.seen > 0 THEN d.seen ELSE prior))
    OBVIOUS
  <2> QED BY <2>1, <2>2
<1>2. /\ Beside(d, noted) /\ noted.anomalies = d.anomalies
      /\ OneEvent(d.events) => OneEvent(noted.events)
      /\ d.proofs \subseteq noted.proofs
      /\ \A q \in noted.proofs \ d.proofs :
             /\ q.seen = s.epoch /\ q.method # "full_observed"
             /\ Complete(s) /\ first # {} /\ ObservedEvents(p, s) # {}
  <2>1. CASE Complete(s) /\ first # {}
    <3>1. noted = Record(d, p, s)
      BY <2>1
    <3> HIDE DEF noted, p, first
    <3>2. /\ Beside(d, noted) /\ noted.anomalies = d.anomalies /\ SameHistory(d, noted)
          /\ OneEvent(d.events) => OneEvent(noted.events)
          /\ d.proofs \subseteq noted.proofs
          /\ \A q \in noted.proofs \ d.proofs : /\ ObservedEvents(p, s) # {} /\ q.seen = s.epoch
                                                /\ q.method # "full_observed"
      BY <3>1, RecordShows
    <3> QED BY <2>1, <3>2
  <2>2. CASE ~(Complete(s) /\ first # {})
    <3>1. noted = d
      BY <2>2
    <3> HIDE DEF noted
    <3> QED BY <3>1 DEF Beside
  <2> QED BY <2>1, <2>2
<1>3. first # {} => p \in first
  OBVIOUS
<1> HIDE DEF noted, start, inter, p
<1>4. /\ Whole(e) /\ e.detector = noted.detector /\ e.anomalies = noted.anomalies
      /\ e.active = noted.active /\ e.seen = t /\ e.seenOwner = o /\ e.baseline = base
      /\ e.proofs = noted.proofs /\ e.events = noted.events
  <2>1. Whole(noted)
    BY <1>2 DEF Beside
  <2> HIDE DEF t, o, base
  <2> QED BY <1>1, <2>1 DEF Whole
<1> HIDE DEF first
<1>5. e.detector = d.detector /\ e.active = d.active
  BY <1>2, <1>4 DEF Beside
<1>6. \A q \in e.proofs \ d.proofs :
           /\ q.seen = s.epoch /\ q.method # "full_observed"
           /\ Complete(s) /\ \E r \in first : ObservedEvents(r, s) # {}
  BY <1>2, <1>3, <1>4
<1> QED BY <1>2, <1>4, <1>5, <1>6 DEF Noted, first
(* The sample that the history compares the next one with. *)
LEMMA BaseIs ==
    ASSUME NEW L, NEW s, NEW M, Extended(L, s, M), NEW d, Based(d, L),
           NEW p \in BaseOf(d, s)
    PROVE  /\ L # <<>> /\ Newest(L).owner = s.owner /\ d.baseline = BaseOf(d, s)
           /\ \E i \in DOMAIN L :
                 /\ d.baseline = {L[i]} /\ p = L[i] /\ Complete(L[i])
                 /\ i \in DOMAIN M /\ M[i] = L[i] /\ i < Len(M) /\ Len(M) \in DOMAIN M
                 /\ \A k \in i..Len(M) : M[k].owner = s.owner
           /\ Complete(Newest(L)) => p = Newest(L)
<1>1. /\ d.baseline # {} /\ BaseOf(d, s) = d.baseline /\ d.seenOwner = s.owner
      /\ p \in d.baseline
  BY DEF BaseOf
<1>2. /\ L # <<>> /\ d.seenOwner = Newest(L).owner
      /\ Complete(Newest(L)) => d.baseline = {Newest(L)}
  BY <1>1 DEF Based
<1>3. PICK i \in DOMAIN L :
          /\ d.baseline = {L[i]} /\ Complete(L[i])
          /\ \A k \in i..Len(L) : L[k].owner = Newest(L).owner
  BY <1>1, <1>2 DEF Based
<1>4. /\ Len(L) \in Nat /\ Len(M) = Len(L) + 1 /\ DOMAIN L = 1..Len(L) /\ DOMAIN M = 1..Len(M)
      /\ M[Len(M)] = s /\ \A j \in 1..Len(L) : M[j] = L[j]
  BY DEF Extended, Samples, Newest
<1>5. \A k \in i..Len(M) : M[k].owner = s.owner
  <2> TAKE k \in i..Len(M)
  <2>1. CASE k = Len(M)
    BY <1>4, <2>1
  <2>2. CASE k # Len(M)
    <3>1. k \in i..Len(L) /\ M[k] = L[k]
      BY <1>3, <1>4, <2>2
    <3> QED BY <1>1, <1>2, <1>3, <3>1
  <2> QED BY <2>1, <2>2
<1>6. /\ i \in DOMAIN M /\ M[i] = L[i] /\ i < Len(M) /\ Len(M) \in DOMAIN M
  BY <1>4
<1>7. p = L[i] /\ (Complete(Newest(L)) => p = Newest(L))
  BY <1>1, <1>2, <1>3
<1> QED BY <1>1, <1>2, <1>3, <1>5, <1>6, <1>7

(* While the quota stays full and the deadline lies ahead, the pair is no
   evidence: a candidate waits for the sample that confirms it. *)
LEMMA CandidateIsNoPair ==
    ASSUME NEW L, NEW s, NEW M, Extended(L, s, M), L # <<>>, Candidate(M)
    PROVE  Complete(Newest(L)) /\ ObservedEvents(Newest(L), s) = {}
<1> DEFINE a == Newest(L)
<1>1. a = M[Len(M) - 1] /\ Newest(M) = s /\ a.reset["weekly"] \in Int /\ s.epoch \in Nat
  BY Times
<1>2. /\ Complete(a) /\ a.pct["weekly"] = 100 /\ s.pct["weekly"] = 100
      /\ s.epoch < a.reset["weekly"]
  BY <1>1 DEF Candidate
<1> HIDE DEF a
<1>3. ~CrossedOnTime(a, s) /\ ~Refilled(a, s)
  BY <1>1, <1>2 DEF CrossedOnTime, Refilled, is_weekly_refill, IsRefill
<1> QED BY <1>2, <1>3 DEF ObservedEvents, a

(* After the history nothing is lacking of the evidence of M. *)
LEMMA HistoryShows ==
    ASSUME NEW L, NEW s, NEW M, Extended(L, s, M), NEW H,
           NEW d, Timely(d, s.epoch), Shown(d, L, s, M, H), Based(d, L),
           NEW e, Noted(d, e, s, BaseOf(d, s))
    PROVE  Evident(e, M, H) /\ Follows(e, M) /\ Based(e, M)
<1> DEFINE base == BaseOf(d, s)
<1>1. /\ TimeOf(L) \in Nat /\ s.epoch \in Nat \ {0} /\ TimeOf(L) < s.epoch /\ TimeOf(M) = s.epoch
      /\ Newest(M) = s /\ M # <<>> /\ s.owner \in Ids
  BY Times
<1>2. /\ Len(L) \in Nat /\ Len(M) = Len(L) + 1 /\ DOMAIN L = 1..Len(L) /\ DOMAIN M = 1..Len(M)
      /\ M[Len(M)] = s /\ \A j \in 1..Len(L) : M[j] = L[j]
  BY DEF Extended, Samples, Newest
<1>3. /\ e.detector = d.detector /\ e.anomalies = d.anomalies /\ d.proofs \subseteq e.proofs
      /\ e.seen = s.epoch /\ e.seenOwner = s.owner
      /\ e.baseline = (IF Complete(s) THEN {s} ELSE base)
      /\ OneEvent(d.events) => OneEvent(e.events)
  BY DEF Noted
<1>4. ASSUME NEW q \in e.proofs, q \notin d.proofs
      PROVE  /\ q.seen = s.epoch /\ q.method # "full_observed" /\ Complete(s)
             /\ \E p \in base : ObservedEvents(p, s) # {}
  BY <1>4 DEF Noted
<1>5. \A p \in base :
          /\ L # <<>> /\ Newest(L).owner = s.owner /\ d.baseline = base
          /\ \E i \in DOMAIN L :
                /\ d.baseline = {L[i]} /\ p = L[i] /\ Complete(L[i])
                /\ i \in DOMAIN M /\ M[i] = L[i] /\ i < Len(M) /\ Len(M) \in DOMAIN M
                /\ \A k \in i..Len(M) : M[k].owner = s.owner
          /\ Complete(Newest(L)) => p = Newest(L)
  BY BaseIs
<1> HIDE DEF base
<1>6. \A q \in e.proofs : q.method = "full_observed" => q \in d.proofs
  BY <1>4
<1>7. Watched(d, M) /\ Typed(d) /\ Dated(d, s.epoch) /\ Settling(d, s.epoch, H)
      /\ FullIsConfirmed(d, M) /\ PairIsOfOneOwner(d, M) /\ AcceptedIsQuiet(d, M) /\ Follows(d, M)
  BY <1>1 DEF Shown, Evident
<1>8. Watched(e, M)
  <2> SUFFICES ASSUME NEW o \in Ids
               PROVE  /\ Watching(Weekly(e, o), o, M)
                      /\ Weekly(e, o).chain.candidate => Unsettled(e, s.epoch)
    BY <1>1 DEF Watched
  <2>1. Weekly(e, o) = Weekly(d, o)
    BY <1>3 DEF Weekly
  <2>2. Watching(Weekly(d, o), o, M) /\ (Weekly(d, o).chain.candidate => Unsettled(d, s.epoch))
    BY <1>1, <1>7 DEF Watched
  <2>3. ASSUME Weekly(d, o).chain.candidate PROVE e.proofs = d.proofs
    <3> SUFFICES ASSUME NEW q \in e.proofs, q \notin d.proofs PROVE FALSE
      BY <1>3
    <3>1. PICK p \in base : ObservedEvents(p, s) # {}
      BY <1>4
    <3>2. Candidate(M)
      <4>1. Weekly(d, o).chain # NoChain
        BY <2>3, NoChainIs
      <4>2. Chained(Weekly(d, o).chain, o, M)
        BY <2>2, <4>1 DEF Watching
      <4> HIDE DEF Weekly
      <4>3. PICK c \in BOOLEAN :
                /\ Weekly(d, o).chain = [epoch |-> s.epoch, reset |-> s.reset["weekly"],
                                        owner |-> s.owner, candidate |-> c]
                /\ c => Candidate(M)
        BY <1>1, <4>2 DEF Chained
      <4> QED BY <2>3, <4>3
    <3>3. L # <<>>
      BY <1>5, <3>1
    <3>4. Complete(Newest(L)) /\ ObservedEvents(Newest(L), s) = {}
      BY <3>2, <3>3, CandidateIsNoPair
    <3> QED BY <1>5, <3>1, <3>4
  <2>4. Weekly(d, o).chain.candidate => Unsettled(e, s.epoch)
    BY <1>3, <2>2, <2>3 DEF Unsettled
  <2> QED BY <2>1, <2>2, <2>4
<1>9. Typed(e)
  BY <1>3, <1>7 DEF Typed
<1>10. Dated(e, s.epoch)
  <2>1. \A q \in e.proofs : q.seen \in 1..s.epoch /\ (q.method = "full_observed" => q.at \in 1..s.epoch)
    BY <1>1, <1>4, <1>7 DEF Dated
  <2> QED BY <1>3, <1>7, <2>1 DEF Dated
<1>11. Settling(e, s.epoch, H)
  <2> SUFFICES ASSUME NEW x \in H PROVE Movement(x, s.epoch) /\ OneOf(e, x)
    BY DEF Settling
  <2>1. Movement(x, s.epoch) /\ OneOf(d, x)
    BY <1>7 DEF Settling
  <2>2. /\ Waits(e, x) <=> Waits(d, x)
        /\ (Was(e, x) <=> Was(d, x)) /\ (Shifted(e, x) <=> Shifted(d, x))
    BY <1>3, <1>6 DEF Waits, Was, Shifted, Weekly
  <2> QED BY <2>1, <2>2 DEF OneOf
<1>12. FullIsConfirmed(e, M)
  <2>1. \A q \in e.proofs : q.method = "full_observed" => q \in d.proofs
    BY <1>6
  <2> QED BY <1>7, <2>1 DEF FullIsConfirmed
<1>13. PairIsOfOneOwner(e, M)
  <2> SUFFICES ASSUME NEW q \in e.proofs, q \notin d.proofs
               PROVE  \E i, j \in DOMAIN M :
                          /\ i < j /\ M[j].epoch = q.seen /\ Complete(M[i]) /\ Complete(M[j])
                          /\ \A k \in i..j : M[k].owner = M[j].owner
    BY <1>7 DEF PairIsOfOneOwner
  <2>1. q.seen = s.epoch /\ Complete(s) /\ \E p \in base : TRUE
    BY <1>4
  <2>2. PICK i \in DOMAIN L :
            /\ Complete(L[i]) /\ i \in DOMAIN M /\ M[i] = L[i] /\ i < Len(M) /\ Len(M) \in DOMAIN M
            /\ \A k \in i..Len(M) : M[k].owner = s.owner
    BY <1>5, <2>1
  <2> QED BY <1>2, <2>1, <2>2
<1>14. AcceptedIsQuiet(e, M)
  <2> SUFFICES ASSUME NEW q \in e.proofs, q \notin d.proofs, NEW a \in d.anomalies,
                      NEW i \in 2..Len(M), M[i].epoch = q.seen,
                      Complete(M[i - 1]), M[i - 1].owner = M[i].owner,
                      a.window = "weekly", a.at = q.seen
               PROVE  FALSE
    BY <1>3, <1>7 DEF AcceptedIsQuiet
  <2>1. q.seen = s.epoch /\ Complete(s)
    BY <1>4
  <2>2. i = Len(M)
    <3>1. CASE i < Len(M)
      <4>0. i \in DOMAIN M /\ Len(M) \in DOMAIN M
        BY <1>2
      <4>a. \A j, k \in DOMAIN M : j < k => M[j].epoch < M[k].epoch
        BY DEF Extended, Samples
      <4>1. M[i].epoch < M[Len(M)].epoch
        BY <3>1, <4>0, <4>a
      <4> QED BY <1>1, <1>2, <2>1, <4>1
    <3> QED BY <1>2, <3>1
  <2>3. PICK p \in base : ObservedEvents(p, s) # {}
    BY <1>4
  <2>4. L # <<>> /\ Newest(L) = M[i - 1] /\ M[i] = s
    BY <1>2, <1>5, <2>2, <2>3, Times
  <2>5. p = Newest(L)
    BY <1>5, <2>3, <2>4
  <2> QED BY <2>1, <2>3, <2>4, <2>5 DEF Shown
<1>15. Follows(e, M)
  BY <1>3, <1>7 DEF Follows, Weekly
<1>16. Based(e, M)
  <2>1. CASE Complete(s)
    <3>1. Len(M) \in DOMAIN M /\ \A k \in Len(M)..Len(M) : k = Len(M)
      BY <1>2
    <3> QED BY <1>1, <1>2, <1>3, <2>1, <3>1 DEF Based
  <2>2. CASE ~Complete(s)
    <3>1. e.baseline = base
      BY <1>3, <2>2
    <3>2. base = {} \/ \E i \in DOMAIN M :
              /\ base = {M[i]} /\ Complete(M[i])
              /\ \A k \in i..Len(M) : M[k].owner = s.owner
      BY <1>5
    <3> QED BY <1>1, <1>3, <2>2, <3>1, <3>2 DEF Based
  <2> QED BY <2>1, <2>2
<1> QED BY <1>1, <1>8, <1>9, <1>10, <1>11, <1>12, <1>13, <1>14, <1>15, <1>16 DEF Evident
-----------------------------------------------------------------------------
(* Only the owner of the newest sample may have a chain. *)
LEMMA OthersAreIdle ==
    ASSUME NEW d, NEW L, Watched(d, L), NEW q \in Ids, L = <<>> \/ Newest(L).owner # q
    PROVE  Idle(Weekly(d, q))
<1>1. Watching(Weekly(d, q), q, L)
  BY DEF Watched
<1> HIDE DEF Weekly
<1> QED BY <1>1 DEF Watching, Chained, Idle

(* Another owner is active: the rest of the archive is the same. *)
LEMMA TurnedEvident ==
    ASSUME NEW t, NEW L, NEW H, NEW d, Timely(d, t), Evident(d, L, H), NEW o,
           NEW e, e = [d EXCEPT !.active = o]
    PROVE  /\ Evident(e, L, H) /\ Timely(e, t) /\ SameHistory(d, e) /\ e.active = o
           /\ (Follows(d, L) => Follows(e, L)) /\ \A q : Weekly(e, q) = Weekly(d, q)
<1>1. /\ Whole(e) /\ e.seen = d.seen /\ e.active = o /\ e.snapshots = d.snapshots
      /\ SameHistory(d, e)
  BY DEF Timely, Whole, SameHistory
<1>2. /\ e.detector = d.detector /\ e.anomalies = d.anomalies /\ e.proofs = d.proofs
      /\ e.events = d.events
  BY DEF Timely, Whole
<1>3. Timely(e, t)
  BY <1>1, <1>2 DEF Timely
<1>4. \A q : Weekly(e, q) = Weekly(d, q)
  BY <1>2 DEF Weekly
<1>5. Watched(e, L) /\ Typed(e) /\ Dated(e, TimeOf(L))
  BY <1>2, <1>4 DEF Evident, Watched, Unsettled, Typed, Dated
<1>6. Settling(e, TimeOf(L), H)
  <2>1. \A x : Waits(e, x) <=> Waits(d, x)
    BY <1>4 DEF Waits
  <2>2. \A x : Was(e, x) <=> Was(d, x)
    BY <1>2 DEF Was
  <2>3. \A x : Shifted(e, x) <=> Shifted(d, x)
    BY <1>2 DEF Shifted
  <2>4. \A x : OneOf(d, x) => OneOf(e, x)
    BY <2>1, <2>2, <2>3 DEF OneOf
  <2> QED BY <2>4 DEF Evident, Settling
<1>7. FullIsConfirmed(e, L) /\ PairIsOfOneOwner(e, L) /\ AcceptedIsQuiet(e, L)
  BY <1>2 DEF Evident, FullIsConfirmed, PairIsOfOneOwner, AcceptedIsQuiet
<1>8. Follows(d, L) => Follows(e, L)
  BY <1>4 DEF Follows
<1> QED BY <1>1, <1>3, <1>4, <1>5, <1>6, <1>7, <1>8 DEF Evident

(* One observation: from the evidence of L to that of M. *)
LEMMA SnapshotEvident ==
    ASSUME NEW L, NEW s, NEW M, Extended(L, s, M), NEW H,
           NEW d, Timely(d, TimeOf(L)), Evident(d, L, H), Follows(d, L), Based(d, L),
           L # <<>> => d.active = Newest(L).owner
    PROVE  LET e == process_snapshot(d, s)
           IN  Evident(e, M, H) /\ Follows(e, M) /\ Based(e, M)
<1> DEFINE prior  == IF \E k \in Ids \X Windows : d.detector[k].known
                     THEN LET k == CHOOSE k \in Ids \X Windows :
                                       \A l \in Ids \X Windows :
                                           d.detector[l].updated <= d.detector[k].updated
                          IN d.detector[k].updated
                     ELSE 0
           force  == d.active # s.owner
           left   == IF force /\ d.active \in Ids THEN Break(d, d.active, s.epoch) ELSE d
           turned == [left EXCEPT !.active = s.owner]
           five   == Detect(turned, "5h", s, force)
           weekly == Detect(five, "weekly", s, force)
           e      == observe_weekly_reset_history(weekly, s, prior, d.active)
<1>1. process_snapshot(d, s) = e
  BY DEF process_snapshot
<1>2. /\ TimeOf(L) \in Nat /\ s.epoch \in Nat /\ TimeOf(L) < s.epoch /\ s.owner \in Ids
      /\ L # <<>> => Newest(L).owner \in Ids
  BY Times
<1>3. prior \in Nat /\ prior < s.epoch
  <2>1. prior \in 0..TimeOf(L)
    BY <1>2, PriorIsEarlier
  <2> HIDE DEF prior
  <2> QED BY <1>2, <2>1
<1> HIDE DEF prior
<1>4. Timely(d, s.epoch) /\ Watched(d, L)
  BY <1>2, TimelyLater DEF Evident
<1>5. /\ Evident(left, L, H) /\ Timely(left, s.epoch) /\ SameHistory(d, left) /\ Follows(left, L)
      /\ \A q \in Ids \ {s.owner} : Idle(Weekly(left, q))
      /\ force => Idle(Weekly(left, s.owner))
  <2>1. CASE force /\ d.active \in Ids
    <3>1. left = Break(d, d.active, s.epoch)
      BY <2>1
    <3>2. \A q \in Ids \ {d.active} : Idle(Weekly(d, q))
      BY <1>4, OthersAreIdle
    <3> HIDE DEF left
    <3>3. /\ Evident(left, L, H) /\ Timely(left, s.epoch) /\ SameHistory(d, left)
          /\ Follows(left, L) /\ Idle(Weekly(left, d.active))
          /\ \A q \in Ids \ {d.active} : Weekly(left, q) = Weekly(d, q)
      BY <1>4, <2>1, <3>1, <3>2, BreakEvident
    <3>4. \A q \in Ids : Idle(Weekly(left, q))
      BY <3>2, <3>3
    <3> QED BY <1>2, <3>3, <3>4
  <2>2. CASE ~(force /\ d.active \in Ids)
    <3>1. left = d
      BY <2>2
    <3>2. \A q \in Ids : q # s.owner \/ force => Idle(Weekly(d, q))
      <4> SUFFICES ASSUME NEW q \in Ids, q # s.owner \/ force PROVE Idle(Weekly(d, q))
        OBVIOUS
      <4>1. L = <<>> \/ Newest(L).owner # q
        BY <1>2, <2>2
      <4> QED BY <1>4, <4>1, OthersAreIdle
    <3>3. SameHistory(d, d)
      BY DEF SameHistory
    <3> HIDE DEF left, force
    <3> QED BY <1>2, <1>4, <3>1, <3>2, <3>3
  <2> QED BY <2>1, <2>2
<1> HIDE DEF left, force
<1>6. /\ Evident(turned, L, H) /\ Timely(turned, s.epoch) /\ SameHistory(left, turned)
      /\ Follows(turned, L) /\ turned.active = s.owner
      /\ \A q : Weekly(turned, q) = Weekly(left, q)
  <2>1. turned = [left EXCEPT !.active = s.owner]
    OBVIOUS
  <2> HIDE DEF turned
  <2> QED BY <1>5, <2>1, TurnedEvident
<1> HIDE DEF turned
<1>7. /\ Evident(five, L, H) /\ Timely(five, s.epoch) /\ SameHistory(turned, five)
      /\ Follows(five, L)
      /\ \A q \in Ids : Weekly(five, q) = Weekly(turned, q)
  BY <1>6, FiveHourEvident
<1> HIDE DEF five
<1>8. /\ \A q \in Ids \ {s.owner} : Idle(Weekly(five, q))
      /\ force => Idle(Weekly(five, s.owner))
  BY <1>2, <1>5, <1>6, <1>7
<1>9. Shown(weekly, L, s, M, H) /\ SameHistory(five, weekly)
  BY <1>7, <1>8, WeeklyShows
<1>10. Timely(weekly, s.epoch)
  <2>1. "weekly" \in Windows
    BY DEF Windows
  <2> QED BY <1>2, <1>7, <2>1, DetectQuiet
<1> HIDE DEF weekly
<1>11. Based(weekly, L) /\ weekly.seen = d.seen
  <2>1. SameHistory(d, weekly)
    BY <1>5, <1>6, <1>7, <1>9 DEF SameHistory
  <2> QED BY <2>1 DEF Based, SameHistory
<1>12. Noted(weekly, e, s, BaseOf(weekly, s))
  <2>1. Whole(weekly) /\ weekly.seen \in Nat /\ weekly.seen < s.epoch
    BY <1>2, <1>10, <1>11 DEF Timely
  <2>2. e = observe_weekly_reset_history(weekly, s, prior, d.active)
    OBVIOUS
  <2> HIDE DEF e
  <2> QED BY <1>2, <1>3, <2>1, <2>2, HistoryNotes
<1> HIDE DEF e
<1>13. Evident(e, M, H) /\ Follows(e, M) /\ Based(e, M)
  BY <1>9, <1>10, <1>11, <1>12, HistoryShows
<1> QED BY <1>1, <1>13
-----------------------------------------------------------------------------
(* What is to be journaled is in the archive, each anomaly once. *)
Listed ==
    /\ \A i \in DOMAIN pending : pending[i] \in db.anomalies
    /\ \A i, j \in DOMAIN pending : i # j => pending[i] # pending[j]

EvidenceInv ==
    /\ AnomalyInv /\ ReplayInv
    /\ Samples(log) /\ Evident(db, log, deferred) /\ Follows(db, log) /\ Based(db, log)
    /\ Listed /\ db.active \in Ids \cup {"nobody"} /\ faults \in 0..MaxFaults

LEMMA EvidenceBegins == Init => EvidenceInv
<1> SUFFICES ASSUME Init PROVE EvidenceInv
  OBVIOUS
<1>1. /\ log = <<>> /\ db = EmptyArchive /\ pending = <<>> /\ deferred = {} /\ faults = 0
  BY DEF Init
<1>2. AnomalyInv /\ ReplayInv
  BY AnomaliesStart, ReplayStart
<1>3. /\ db.proofs = {} /\ db.anomalies = {} /\ db.events = {} /\ db.baseline = {} /\ db.seen = 0
      /\ db.active = "nobody" /\ db.detector = [k \in Detectors |-> StateDefault]
  BY <1>1 DEF EmptyArchive, Detectors
<1>4. Samples(log) /\ TimeOf(log) = 0
  BY <1>1 DEF Samples, TimeOf
<1>5. Watched(db, log)
  <2> SUFFICES ASSUME NEW o \in Ids
               PROVE  Watching(Weekly(db, o), o, log) /\ ~Weekly(db, o).chain.candidate
    BY DEF Watched
  <2>1. <<o, "weekly">> \in Detectors
    BY DEF Detectors, Windows
  <2>2. Weekly(db, o) = StateDefault
    BY <1>3, <2>1 DEF Weekly
  <2>3. StateDefault.epoch = 0 /\ StateDefault.chain = NoChain /\ StateDefault.deferred = <<>>
    BY DEF StateDefault
  <2> QED BY <1>4, <2>2, <2>3, NoChainIs DEF Watching
<1>6. Evident(db, log, deferred)
  BY <1>1, <1>3, <1>5 DEF Evident, Typed, OneEvent, Dated, Settling, FullIsConfirmed,
                          PairIsOfOneOwner, AcceptedIsQuiet
<1>7. Follows(db, log) /\ Based(db, log)
  BY <1>1, <1>3 DEF Follows, Based
<1>8. Listed
  BY <1>1 DEF Listed
<1>9. faults \in 0..MaxFaults
  BY <1>1, AnomaliesAssumption
<1> QED BY <1>2, <1>3, <1>4, <1>6, <1>7, <1>8, <1>9 DEF EvidenceInv

(* The movements deferred by the newest sample still wait. *)
Waiting(d) ==
    {<<o, d.detector[<<o, "weekly">>].deferred>> : o \in
        {o \in Ids : d.detector[<<o, "weekly">>].deferred # <<>>}}

LEMMA NewlyDeferred ==
    ASSUME NEW L, NEW s, NEW M, Extended(L, s, M), NEW H, NEW d, Evident(d, M, H)
    PROVE  Evident(d, M, H \cup Waiting(d))
<1> DEFINE K == {<<o, Weekly(d, o).deferred>> : o \in {o \in Ids : Weekly(d, o).deferred # <<>>}}
           t == TimeOf(M)
<1>1. t \in Nat /\ t > 0
  BY Times
<1> HIDE DEF t
<1>2. ASSUME NEW x \in K PROVE Movement(x, t) /\ OneOf(d, x)
  <2>1. PICK o \in Ids : Weekly(d, o).deferred # <<>> /\ x = <<o, Weekly(d, o).deferred>>
    BY <1>2
  <2> DEFINE m == x[2]
  <2>2. x[1] = o /\ m = Weekly(d, o).deferred /\ m # <<>>
    BY <2>1
  <2>3. /\ Weekly(d, o).chain.candidate /\ m = <<t, m[2], m[3]>>
        /\ Unsettled(d, t)
    BY <2>2 DEF Evident, Watched, Watching, t
  <2> HIDE DEF m
  <2>4. m[1] = t
    BY <2>3
  <2>5. Waits(d, x)
    BY <2>2 DEF Waits, m
  <2>6. ~Was(d, x)
    BY <2>3, <2>4 DEF Was, Unsettled, m
  <2>7. ~Shifted(d, x)
    <3> SUFFICES ASSUME NEW a \in d.anomalies, a.window = "weekly", a.kind = "reset_shift",
                        a.episode = <<m[2], m[3], m[1]>>
                 PROVE  FALSE
      BY DEF Shifted, m
    <3>1. a.at = a.episode[3] /\ a.episode[3] = t
      BY <2>4 DEF Evident, Dated
    <3> QED BY <2>3, <3>1 DEF Unsettled
  <2>8. Movement(x, t)
    BY <1>1, <2>2, <2>3, <2>4 DEF Movement, m
  <2> QED BY <2>5, <2>6, <2>7, <2>8 DEF OneOf
<1>3. Settling(d, t, H)
  BY DEF Evident, t
<1>4. Settling(d, t, H \cup K)
  <2> HIDE DEF K
  <2> QED BY <1>2, <1>3 DEF Settling
<1> QED BY <1>4 DEF Evident, t, Weekly, Waiting

LEMMA ObserveEvident ==
    ASSUME EvidenceInv, NEW s, s.epoch \in Nat, Now < s.epoch, s.owner \in Ids,
           s.reset["weekly"] \in Int, Observe(s)
    PROVE  EvidenceInv'
<1>1. /\ db' = process_snapshot(db, s) /\ log' = Append(log, s) /\ pending = <<>>
      /\ deferred' = deferred \cup Waiting(db')
      /\ UNCHANGED <<pending, told, faults>>
  BY DEF Observe, Waiting
<1>2. AnomalyInv' /\ ReplayInv'
  BY ObserveKept, ObserveSettles DEF EvidenceInv
<1>3. TimeOf(log) = Now
  BY DEF TimeOf, Newest, Now
<1>4. Extended(log, s, log')
  <2>1. PICK S : log \in Seq(S)
    BY DEF EvidenceInv, ReplayInv
  <2> QED BY <1>1, <1>3, <2>1, ExtendedBy DEF EvidenceInv
<1>5. log' # <<>> /\ Newest(log') = s
  BY <1>4, Times
<1>6. /\ Timely(db, TimeOf(log)) /\ (log # <<>> => db.active = Newest(log).owner)
  BY <1>3 DEF EvidenceInv, ReplayInv, Settled, Newest
<1>7. /\ Evident(process_snapshot(db, s), log', deferred) /\ Follows(process_snapshot(db, s), log')
      /\ Based(process_snapshot(db, s), log')
  BY <1>4, <1>6, SnapshotEvident DEF EvidenceInv
<1>8. Evident(db', log', deferred) /\ Follows(db', log') /\ Based(db', log')
  BY <1>1, <1>7
<1>9. Evident(db', log', deferred')
  BY <1>1, <1>4, <1>8, NewlyDeferred
<1>10. db'.active \in Ids
  BY <1>2, <1>5 DEF ReplayInv, Settled, Newest
<1>11. Samples(log')
  BY <1>4 DEF Extended
<1>12. Listed'
  BY <1>1 DEF Listed
<1>13. faults' \in 0..MaxFaults
  BY <1>1 DEF EvidenceInv
<1> QED BY <1>2, <1>8, <1>9, <1>10, <1>11, <1>12, <1>13 DEF EvidenceInv

LEMMA ListEvident ==
    ASSUME EvidenceInv, ListPending
    PROVE  EvidenceInv'
<1> DEFINE P == pending_anomalies
           n == Cardinality(P)
<1>1. /\ pending' \in [1..n -> P]
      /\ \A i, j \in DOMAIN pending' : i < j => pending'[i] # pending'[j]
      /\ UNCHANGED <<db, told, faults, log, found, deferred>>
  BY DEF ListPending
<1>2. AnomalyInv'
  BY ListKept DEF EvidenceInv
<1>3. P \subseteq db.anomalies
  BY DEF pending_anomalies
<1>4. n \in Nat
  BY <1>3, FS_Subset, FS_CardinalityType DEF EvidenceInv, AnomalyInv
<1> HIDE DEF P, n
<1>5. Listed'
  BY <1>1, <1>3, <1>4 DEF Listed
<1>6. ReplayInv'
  <2>1. Now' = Now
    BY <1>1 DEF Now
  <2> QED BY <1>1, <2>1 DEF EvidenceInv, ReplayInv
<1> QED BY <1>1, <1>2, <1>5, <1>6 DEF EvidenceInv

(* The mark that it is journaled is not part of what an anomaly says. *)
LEMMA MarkedEvident ==
    ASSUME NEW L, NEW H, NEW d, Evident(d, L, H), NEW a \in d.anomalies, NEW b,
           b.owner = a.owner, b.window = a.window, b.kind = a.kind, b.episode = a.episode,
           b.at = a.at,
           NEW e, e.anomalies = (d.anomalies \ {a}) \cup {b}, e.proofs = d.proofs,
           e.events = d.events, e.detector = d.detector
    PROVE  Evident(e, L, H)
<1>1. ASSUME NEW c \in e.anomalies
      PROVE  \E x \in d.anomalies : /\ x.owner = c.owner /\ x.window = c.window /\ x.kind = c.kind
                                    /\ x.episode = c.episode /\ x.at = c.at
  BY <1>1
<1>2. ASSUME NEW x \in d.anomalies
      PROVE  \E c \in e.anomalies : /\ x.owner = c.owner /\ x.window = c.window /\ x.kind = c.kind
                                    /\ x.episode = c.episode /\ x.at = c.at
  BY <1>2
<1>3. \A q : Weekly(e, q) = Weekly(d, q)
  BY DEF Weekly
<1>4. Watched(e, L)
  <2>1. \A t : Unsettled(d, t) => Unsettled(e, t)
    BY <1>1 DEF Unsettled
  <2> QED BY <1>3, <2>1 DEF Evident, Watched
<1>5. Typed(e)
  BY <1>1 DEF Evident, Typed
<1>6. Dated(e, TimeOf(L))
  <2> SUFFICES ASSUME NEW c \in e.anomalies, c.window = "weekly"
               PROVE  c.at \in 1..TimeOf(L) /\ (c.kind = "reset_shift" => c.episode[3] = c.at)
    BY DEF Evident, Dated
  <2>1. PICK x \in d.anomalies : /\ x.window = c.window /\ x.kind = c.kind
                                /\ x.episode = c.episode /\ x.at = c.at
    BY <1>1
  <2> QED BY <2>1 DEF Evident, Dated
<1>7. Settling(e, TimeOf(L), H)
  <2>1. \A x : (Waits(e, x) <=> Waits(d, x)) /\ (Was(e, x) <=> Was(d, x))
    BY <1>3 DEF Waits, Was
  <2>2. \A x : Shifted(e, x) => Shifted(d, x)
    <3> TAKE x
    <3> SUFFICES ASSUME NEW c \in e.anomalies, c.owner = x[1], c.window = "weekly",
                        c.kind = "reset_shift", c.episode = <<x[2][2], x[2][3], x[2][1]>>
                 PROVE  Shifted(d, x)
      BY DEF Shifted
    <3>1. PICK y \in d.anomalies : /\ y.owner = c.owner /\ y.window = c.window /\ y.kind = c.kind
                                  /\ y.episode = c.episode
      BY <1>1
    <3> QED BY <3>1 DEF Shifted
  <2>3. \A x : Shifted(d, x) => Shifted(e, x)
    <3> TAKE x
    <3> SUFFICES ASSUME NEW c \in d.anomalies, c.owner = x[1], c.window = "weekly",
                        c.kind = "reset_shift", c.episode = <<x[2][2], x[2][3], x[2][1]>>
                 PROVE  Shifted(e, x)
      BY DEF Shifted
    <3>1. PICK y \in e.anomalies : /\ y.owner = c.owner /\ y.window = c.window /\ y.kind = c.kind
                                  /\ y.episode = c.episode
      BY <1>2
    <3> QED BY <3>1 DEF Shifted
  <2>4. \A x : OneOf(d, x) => OneOf(e, x)
    BY <2>1, <2>2, <2>3 DEF OneOf
  <2> QED BY <2>4 DEF Evident, Settling
<1>8. FullIsConfirmed(e, L) /\ PairIsOfOneOwner(e, L)
  BY DEF Evident, FullIsConfirmed, PairIsOfOneOwner
<1>9. AcceptedIsQuiet(e, L)
  <2> SUFFICES ASSUME NEW p \in d.proofs, NEW c \in e.anomalies, NEW i \in 2..Len(L),
                      p.method # "full_observed", L[i].epoch = p.seen,
                      Complete(L[i - 1]), L[i - 1].owner = L[i].owner,
                      c.window = "weekly", c.at = p.seen
               PROVE  FALSE
    BY DEF AcceptedIsQuiet
  <2>1. PICK x \in d.anomalies : x.window = c.window /\ x.at = c.at
    BY <1>1
  <2> QED BY <2>1 DEF Evident, AcceptedIsQuiet
<1> QED BY <1>4, <1>5, <1>6, <1>7, <1>8, <1>9 DEF Evident

LEMMA MarkEvident ==
    ASSUME EvidenceInv, mark_journaled
    PROVE  EvidenceInv'
<1> DEFINE a == InArchive(pending[1])
           b == [a EXCEPT !.journaled = TRUE]
<1>1. /\ pending # <<>> /\ db' = Marked(a) /\ pending' = Tail(pending)
      /\ UNCHANGED <<told, faults, log, found, deferred>>
  BY DEF mark_journaled
<1>2. AnomalyInv' /\ ReplayInv'
  BY MarkKept, MarkSettled DEF EvidenceInv
<1>3. PICK S : pending \in Seq(S)
  BY DEF EvidenceInv, AnomalyInv
<1>4. /\ Len(pending) \in Nat \ {0} /\ DOMAIN pending = 1..Len(pending)
      /\ DOMAIN pending' = 1..Len(pending) - 1
      /\ \A i \in 1..Len(pending) - 1 : pending'[i] = pending[i + 1]
  BY <1>1, <1>3
<1>5. pending[1] \in db.anomalies
  BY <1>4 DEF EvidenceInv, Listed
<1>6. a = pending[1]
  BY <1>5 DEF InArchive, EvidenceInv, AnomalyInv, OneOfAKey
<1> HIDE DEF a, b
<1>7. WholeAnomaly(a)
  BY <1>5, <1>6 DEF EvidenceInv, AnomalyInv
<1>8. /\ b.owner = a.owner /\ b.window = a.window /\ b.kind = a.kind
      /\ b.episode = a.episode /\ b.at = a.at
  BY <1>7, MarkedAnomaly DEF b
<1>9. /\ db'.anomalies = (db.anomalies \ {a}) \cup {b}
      /\ db'.proofs = db.proofs /\ db'.events = db.events /\ db'.detector = db.detector
      /\ SameHistory(db, db') /\ db'.active = db.active
  BY <1>1 DEF Marked, EvidenceInv, AnomalyInv, Whole, b, SameHistory
<1>10. Evident(db', log, deferred)
  <2>1. Evident(db, log, deferred) /\ a \in db.anomalies
    BY <1>5, <1>6 DEF EvidenceInv
  <2> QED BY <1>8, <1>9, <2>1, MarkedEvident
<1>11. Follows(db', log) /\ Based(db', log)
  BY <1>9 DEF EvidenceInv, Follows, Based, SameHistory, Weekly
<1>12. Listed'
  <2>1. \A i \in DOMAIN pending' : /\ i + 1 \in DOMAIN pending /\ i + 1 # 1
                                   /\ pending'[i] = pending[i + 1]
    BY <1>4
  <2>2. 1 \in DOMAIN pending
    BY <1>4
  <2>3. \A i \in DOMAIN pending' : pending'[i] \in db.anomalies /\ pending'[i] # a
    BY <1>6, <2>1, <2>2 DEF EvidenceInv, Listed
  <2>4. \A i, j \in DOMAIN pending' : i # j => pending'[i] # pending'[j]
    <3> SUFFICES ASSUME NEW i \in DOMAIN pending', NEW j \in DOMAIN pending', i # j
                 PROVE  pending'[i] # pending'[j]
      OBVIOUS
    <3>1. i + 1 # j + 1
      BY <1>4
    <3> QED BY <2>1, <3>1 DEF EvidenceInv, Listed
  <2> QED BY <1>9, <2>3, <2>4 DEF Listed
<1> QED BY <1>1, <1>2, <1>9, <1>10, <1>11, <1>12 DEF EvidenceInv

LEMMA EvidenceKept == EvidenceInv /\ [Next]_vars => EvidenceInv'
<1> SUFFICES ASSUME EvidenceInv, [Next]_vars PROVE EvidenceInv'
  OBVIOUS
<1>1. CASE Poll
  <2>1. PICK t \in Steps, a \in Alphabet :
            Observe([epoch |-> Now + t, owner |-> a.owner, pct |-> a.pct, reset |-> a.reset])
    BY <1>1 DEF Poll
  <2> DEFINE s == [epoch |-> Now + t, owner |-> a.owner, pct |-> a.pct, reset |-> a.reset]
  <2>2. /\ s.epoch \in Nat /\ Now < s.epoch /\ s.owner \in Ids /\ s.reset["weekly"] \in Int
    <3>1. Now \in Nat /\ t \in Nat \ {0}
      BY AnomaliesAssumption DEF EvidenceInv, ReplayInv
    <3>2. a.owner \in Ids /\ a.reset["weekly"] \in Int
      BY AnomaliesAssumption DEF Windows
    <3> QED BY <3>1, <3>2
  <2>3. Observe(s)
    BY <2>1
  <2> HIDE DEF s
  <2> QED BY <2>2, <2>3, ObserveEvident
<1>2. CASE ListPending
  BY <1>2, ListEvident
<1>3. CASE mark_journaled
  BY <1>3, MarkEvident
<1>4. CASE Register \/ RoundEnds \/ UNCHANGED vars
  <2>1. AnomalyInv' /\ ReplayInv'
    BY AnomaliesKept, ReplayKept DEF EvidenceInv
  <2>2. UNCHANGED <<db, log, deferred>>
    BY <1>4 DEF Register, RoundEnds, vars
  <2>3. Listed' /\ faults' \in 0..MaxFaults
    <3>1. CASE Register \/ UNCHANGED vars
      BY <3>1 DEF Register, vars, EvidenceInv, Listed
    <3>2. CASE RoundEnds
      BY <3>2, AnomaliesAssumption DEF RoundEnds, EvidenceInv, Listed
    <3> QED BY <1>4, <3>1, <3>2
  <2> QED BY <2>1, <2>2, <2>3 DEF EvidenceInv
<1> QED BY <1>1, <1>2, <1>3, <1>4 DEF Next, journal_quota_anomalies

(* What is taken for a weekly reset was one: a full cycle is the candidate
   that the next sample confirmed, any other reset lies between two complete
   samples of one owner; a deferred movement becomes a reset or an anomaly
   and never both, and what two samples in a row prove is no anomaly. *)
THEOREM EvidenceStaysSound == Spec => []EvidenceIsSound
<1>1. EvidenceInv => EvidenceIsSound
  <2> SUFFICES ASSUME EvidenceInv PROVE EvidenceIsSound
    OBVIOUS
  <2>1. TypeOK
    BY DEF EvidenceInv, Evident, Typed, OneEvent, AnomalyInv, OneOfAKey, Listed, TypeOK
  <2>2. ConfirmedByFreshSample
    BY DEF EvidenceInv, Evident, FullIsConfirmed, ConfirmedByFreshSample
  <2>3. EvidenceOfOneOwner
    BY DEF EvidenceInv, Evident, PairIsOfOneOwner, EvidenceOfOneOwner
  <2>4. DeferredIsSettled
    BY DEF EvidenceInv, Evident, Settling, OneOf, Waits, Was, Shifted, Weekly, DeferredIsSettled
  <2>5. AdjacentAcceptedIsNoAnomaly
    BY DEF EvidenceInv, Evident, AcceptedIsQuiet, AdjacentAcceptedIsNoAnomaly
  <2> QED BY <2>1, <2>2, <2>3, <2>4, <2>5 DEF EvidenceIsSound
<1> QED BY <1>1, EvidenceBegins, EvidenceKept, PTL DEF Spec
=============================================================================
