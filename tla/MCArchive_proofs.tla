-------------------------- MODULE MCArchive_proofs --------------------------
(***************************************************************************)
(* Proofs about the archive, for every alphabet, every history found and   *)
(* every span and bound: compaction, restarts and a lost archive spare     *)
(* what is still needed, and the resets are what the samples prove.        *)
(***************************************************************************)
EXTENDS MCArchive, FiniteSetTheorems, WellFoundedInduction, TLAPS

-----------------------------------------------------------------------------
(* What an observation leaves alone. *)

(* An archive has all of its tables. *)
Tables == {"active", "detector", "anomalies", "proofs", "events", "snapshots", "start", "seen",
           "seenOwner", "baseline", "interrupted"}
Whole(d) == d = [t \in Tables |-> d[t]]

AnomalyFields == {"owner", "window", "kind", "episode", "at", "journaled"}
WholeAnomaly(a) == a = [f \in AnomalyFields |-> a[f]]

HasKnown(st) == "known" \in DOMAIN st

Detectors(d) ==
    /\ DOMAIN d.detector = Ids \X Windows
    /\ \A k \in Ids \X Windows : HasKnown(d.detector[k])

(* From d to e only detectors learn and anomalies are reported. *)
Beside(d, e) ==
    /\ Whole(e) /\ Detectors(e)
    /\ e.snapshots = d.snapshots /\ e.proofs = d.proofs /\ e.events = d.events
    /\ e.start = d.start /\ e.seen = d.seen /\ e.baseline = d.baseline
    /\ d.anomalies \subseteq e.anomalies
    /\ \A a \in e.anomalies : a \in d.anomalies \/ WholeAnomaly(a)
    /\ \A k \in Ids \X Windows : d.detector[k].known => e.detector[k].known

LEMMA BesideAgain ==
    ASSUME NEW d, NEW e, NEW f, Beside(d, e), Beside(e, f)
    PROVE  Beside(d, f)
BY DEF Beside

LEMMA BesideItself ==
    ASSUME NEW d, Whole(d), Detectors(d)
    PROVE  Beside(d, d)
BY DEF Beside

LEMMA ReportBeside ==
    ASSUME NEW d, Whole(d), Detectors(d), NEW o, NEW w, NEW kind, NEW episode, NEW at
    PROVE  Beside(d, Report(d, Anomaly(o, w, kind, episode, at)))
<1> DEFINE a == Anomaly(o, w, kind, episode, at)
<1>1. WholeAnomaly(a)
  BY DEF Anomaly, WholeAnomaly, AnomalyFields
<1> HIDE DEF a
<1>2. CASE Reported(d, a)
  BY <1>2, BesideItself DEF Report, a
<1>3. CASE ~Reported(d, a)
  <2> DEFINE e == [d EXCEPT !.anomalies = @ \cup {a}]
  <2>1. /\ Whole(e) /\ e.anomalies = d.anomalies \cup {a} /\ e.detector = d.detector
        /\ e.snapshots = d.snapshots /\ e.proofs = d.proofs /\ e.events = d.events
        /\ e.start = d.start /\ e.seen = d.seen /\ e.baseline = d.baseline
    BY DEF Whole, Tables
  <2>2. Report(d, a) = e
    BY <1>3 DEF Report
  <2> HIDE DEF e
  <2> QED BY <1>1, <2>1, <2>2 DEF Beside, Detectors, a
<1> QED BY <1>2, <1>3

LEMMA SaveBeside ==
    ASSUME NEW d, Whole(d), Detectors(d), NEW o, NEW w, NEW st, HasKnown(st), NEW epoch
    PROVE  Beside(d, Save(d, o, w, st, epoch))
<1> DEFINE z == [st EXCEPT !.known = TRUE, !.updated = epoch]
           t == [d.detector EXCEPT ![<<o, w>>] = z]
           e == Save(d, o, w, st, epoch)
<1>1. z.known /\ HasKnown(z)
  BY DEF HasKnown
<1>2. /\ Whole(e) /\ e.anomalies = d.anomalies /\ e.detector = t
      /\ e.snapshots = d.snapshots /\ e.proofs = d.proofs /\ e.events = d.events
      /\ e.start = d.start /\ e.seen = d.seen /\ e.baseline = d.baseline
  BY DEF Whole, Tables, Save
<1> HIDE DEF e, z
<1>3. /\ DOMAIN t = Ids \X Windows
      /\ \A k \in Ids \X Windows : t[k] = IF k = <<o, w>> THEN z ELSE d.detector[k]
  BY DEF Detectors
<1> HIDE DEF t
<1>4. Detectors(e) /\ \A k \in Ids \X Windows : d.detector[k].known => e.detector[k].known
  BY <1>1, <1>2, <1>3 DEF Detectors
<1> QED BY <1>2, <1>4 DEF Beside, e

LEMMA ResolveBeside ==
    ASSUME NEW d, Whole(d), Detectors(d), NEW o, NEW st, NEW confirmed
    PROVE  Beside(d, Resolve(d, o, st, confirmed))
BY BesideItself, ReportBeside DEF Resolve

LEMMA LoadHas ==
    ASSUME NEW d, Detectors(d), NEW o \in Ids, NEW w \in Windows, NEW epoch
    PROVE  HasKnown(Load(d, o, w, epoch))
<1> DEFINE st == d.detector[<<o, w>>]
<1>1. HasKnown(st)
  BY DEF Detectors
<1>2. PICK a, b, c, e, f :
          \/ Load(d, o, w, epoch) = st
          \/ Load(d, o, w, epoch) =
                 [st EXCEPT !.epoch = a, !.pct = b, !.reset = c, !.available = e, !.dates = f]
  BY DEF Load
<1> HIDE DEF st
<1> QED BY <1>1, <1>2 DEF HasKnown

LEMMA BreakBeside ==
    ASSUME NEW d, Whole(d), Detectors(d), NEW o \in Ids, NEW epoch
    PROVE  Beside(d, Break(d, o, epoch))
<1> DEFINE st == Load(d, o, "weekly", epoch)
           e  == Resolve(d, o, st, 0)
           z  == [st EXCEPT !.deferred = <<>>, !.chain = NoChain]
<1>1. HasKnown(st)
  BY LoadHas DEF Windows
<1>2. Beside(d, e)
  BY ResolveBeside
<1>3. HasKnown(z)
  BY <1>1 DEF HasKnown
<1> HIDE DEF st, e, z
<1>4. Beside(e, Save(e, o, "weekly", z, epoch))
  BY <1>2, <1>3, SaveBeside DEF Beside
<1>5. Beside(d, Save(e, o, "weekly", z, epoch))
  BY <1>2, <1>4, BesideAgain
<1> QED BY <1>5, BesideItself DEF Break, st, e, z

-----------------------------------------------------------------------------
(* The states that a comparison and a first sample save. *)

LEMMA RecordDateHas ==
    ASSUME NEW st, HasKnown(st), NEW reset
    PROVE  HasKnown(RecordDate(st, reset))
<1>1. PICK x, y, z : RecordDate(st, reset) = st
                     \/ RecordDate(st, reset) =
                            [st EXCEPT !.dates = x, !.stable = y, !.oscillation = z]
  BY DEF RecordDate
<1> QED BY <1>1 DEF HasKnown

LEMMA JudgeHas ==
    ASSUME NEW st, HasKnown(st), NEW before, NEW s, NEW w
    PROVE  HasKnown(Judge(st, before, s, w).state)
<1>1. PICK x, y, z : \/ Judge(st, before, s, w).state =
                            [st EXCEPT !.missing = x, !.missingFrom = y, !.available = z]
                     \/ \E u, v : Judge(st, before, s, w).state =
                            [[st EXCEPT !.missing = x, !.missingFrom = y, !.available = z]
                                EXCEPT !.oscillation = u, !.oscillationFrom = v]
  BY DEF Judge
<1> QED BY <1>1 DEF HasKnown

LEMMA EpisodesHas ==
    ASSUME NEW st, HasKnown(st), NEW kind, NEW before, NEW now_, NEW jump, NEW epoch
    PROVE  HasKnown(Episodes(st, kind, before, now_, jump, epoch).state)
<1> DEFINE calm == [st EXCEPT !.increasing = @ /\ jump]
           z    == Episodes(st, kind, before, now_, jump, epoch).state
<1>1. HasKnown(calm)
  BY DEF HasKnown
<1>2. \/ z = calm
      \/ z = [calm EXCEPT !.increasing = TRUE]
      \/ \E x, y : z = [calm EXCEPT !.shift = x, !.shiftFrom = y]
  BY DEF Episodes
<1> HIDE DEF calm, z
<1> QED BY <1>1, <1>2 DEF HasKnown, z

LEMMA BaselineBeside ==
    ASSUME NEW d, Whole(d), Detectors(d), NEW w, NEW s, NEW st
    PROVE  Beside(d, Baseline(d, w, s, st))
<1> DEFINE fresh == [StateDefault EXCEPT
                     !.known = st.known, !.updated = st.updated, !.deferred = st.deferred,
                     !.epoch = s.epoch, !.pct = s.pct[w],
                     !.reset = s.reset[w], !.available = s.reset[w],
                     !.chain = IF w = "weekly" THEN observe_full_weekly_reset(NoChain, s).chain
                                               ELSE st.chain]
<1>1. HasKnown(StateDefault)
  BY DEF HasKnown, StateDefault
<1>2. HasKnown(fresh)
  BY <1>1 DEF HasKnown
<1>3. Baseline(d, w, s, st) = Save(d, s.owner, w, RecordDate(fresh, s.reset[w]), s.epoch)
  BY DEF Baseline
<1> HIDE DEF fresh
<1> QED BY <1>2, <1>3, RecordDateHas, SaveBeside

(* The archive with other evidence. *)
Instead(d, proofs, events) == [d EXCEPT !.proofs = proofs, !.events = events]

(* Full evidence of a moment, and the reset it shows. *)
Full(P, at) == \E p \in P : p.method = "full_observed" /\ p.at = at
WithFull(P, at, seen) ==
    IF Full(P, at) THEN P
    ELSE P \cup {[method |-> "full_observed", at |-> at, seen |-> seen]}
WithShown(E, at) ==
    {f \in E : ~(f.window = "weekly" /\ f.at = at)} \cup {Event("weekly", at, "full_observed")}

LEMMA RecordFullIs ==
    ASSUME NEW d, Whole(d), NEW at, NEW seen
    PROVE  /\ RecordFull(d, at, seen).proofs = WithFull(d.proofs, at, seen)
           /\ RecordFull(d, at, seen).events = WithShown(d.events, at)
<1> DEFINE proof == [method |-> "full_observed", at |-> at, seen |-> seen]
           P     == IF \E p \in d.proofs : p.method = "full_observed" /\ p.at = at
                    THEN d.proofs ELSE d.proofs \cup {proof}
           E     == {f \in d.events : ~(f.window = "weekly" /\ f.at = at)}
           v     == Event("weekly", at, "full_observed")
           a     == [d EXCEPT !.proofs = P]
           b     == [a EXCEPT !.events = E]
           c     == [b EXCEPT !.events = E \cup {v}]
<1>1. AddProof(d, proof) = a
  <2>1. CASE \E p \in d.proofs : p.method = "full_observed" /\ p.at = at
    <3>1. AddProof(d, proof) = d /\ a = d
      BY <2>1 DEF AddProof, Whole
    <3> QED BY <3>1
  <2>2. CASE ~\E p \in d.proofs : p.method = "full_observed" /\ p.at = at
    BY <2>2 DEF AddProof
  <2> QED BY <2>1, <2>2
<1>2. [a EXCEPT !.events = @ \ {e \in d.events : e.window = "weekly" /\ e.at = at}] = b
  <2>1. a.events = d.events
    BY DEF Whole, Tables
  <2> QED BY <2>1
<1>a. /\ Whole(a) /\ a.proofs = P /\ a.events = d.events
      /\ a = [d EXCEPT !.proofs = P, !.events = d.events]
  <2> HIDE DEF P
  <2> QED BY DEF Whole, Tables
<1>b. /\ Whole(b) /\ b.proofs = P /\ b.events = E /\ b = [d EXCEPT !.proofs = P, !.events = E]
  <2> HIDE DEF P, E
  <2> QED BY <1>a DEF Whole, Tables
<1>3. b.events = E /\ Whole(b) /\ b.proofs = P
  BY <1>b
<1>4. AddEvent(b, "weekly", proof) = c
  <2>1. v = [window |-> "weekly", at |-> proof.at, method |-> proof.method]
    BY DEF Event
  <2>2. ~\E f \in b.events : f.window = "weekly" /\ f.at = proof.at
    BY <1>3
  <2> HIDE DEF b, v, E, proof
  <2>3. AddEvent(b, "weekly", proof) = [b EXCEPT !.events = @ \cup {v}]
    BY <2>1, <2>2 DEF AddEvent
  <2>4. [b EXCEPT !.events = @ \cup {v}] = [b EXCEPT !.events = E \cup {v}]
    BY <1>3
  <2> QED BY <2>3, <2>4
<1>5. RecordFull(d, at, seen) = c
  BY <1>1, <1>2, <1>4 DEF RecordFull
<1> DEFINE F == E \cup {v}
<1>6. c.proofs = P /\ c.events = F /\ c = [d EXCEPT !.proofs = P, !.events = F]
  <2>1. c = [b EXCEPT !.events = F]
    OBVIOUS
  <2> HIDE DEF b, c, P, E, F
  <2> QED BY <1>b, <2>1 DEF Whole, Tables
<1> HIDE DEF c, P, F
<1> QED BY <1>5, <1>6 DEF P, F, E, v, WithFull, WithShown, Full

LEMMA RecordFullLeaves ==
    ASSUME NEW d, Whole(d), NEW at, NEW seen
    PROVE  \E x, y : RecordFull(d, at, seen) = Instead(d, x, y)
<1> DEFINE proof == [method |-> "full_observed", at |-> at, seen |-> seen]
           other == {e \in d.events : e.window = "weekly" /\ e.at = at}
<1>1. PICK x : AddProof(d, proof) = [d EXCEPT !.proofs = x]
  <2>1. AddProof(d, proof) = d \/ AddProof(d, proof) = [d EXCEPT !.proofs = @ \cup {proof}]
    BY DEF AddProof
  <2>2. d = [d EXCEPT !.proofs = d.proofs]
    BY DEF Whole, Tables
  <2> HIDE DEF proof
  <2> QED BY <2>1, <2>2
<1> DEFINE a == [d EXCEPT !.proofs = x]
           b == [a EXCEPT !.events = @ \ other]
<1>2. RecordFull(d, at, seen) = AddEvent(b, "weekly", proof)
  BY <1>1 DEF RecordFull
<1>3. PICK y : b = [d EXCEPT !.proofs = x, !.events = y]
  OBVIOUS
<1>4. Whole(b)
  BY <1>3 DEF Whole, Tables
<1> HIDE DEF b, proof
<1>5. PICK z : AddEvent(b, "weekly", proof) = [b EXCEPT !.events = z]
  <2>1. b = [b EXCEPT !.events = b.events]
    BY <1>4 DEF Whole, Tables
  <2> QED BY <2>1 DEF AddEvent
<1>6. [b EXCEPT !.events = z] = [d EXCEPT !.proofs = x, !.events = z]
  BY <1>3
<1> QED BY <1>2, <1>5, <1>6 DEF Instead

(* What a comparison does: it may record full evidence, of the weekly window. *)
Observed(d, at, seen, e) == e = d \/ e = RecordFull(d, at, seen)

LEMMA ObservedWhole ==
    ASSUME NEW d, Whole(d), Detectors(d), NEW at, NEW seen, NEW e, Observed(d, at, seen, e)
    PROVE  /\ Whole(e) /\ Detectors(e) /\ e.snapshots = d.snapshots /\ e.anomalies = d.anomalies
           /\ e.start = d.start /\ e.seen = d.seen /\ e.baseline = d.baseline
           /\ e.detector = d.detector /\ e.active = d.active
<1>1. PICK x, y : e = Instead(d, x, y)
  <2>1. CASE e = d
    <3>1. e = Instead(d, d.proofs, d.events)
      BY <2>1 DEF Whole, Tables, Instead
    <3> QED BY <3>1
  <2>2. CASE e = RecordFull(d, at, seen)
    BY <2>2, RecordFullLeaves
  <2> QED BY <2>1, <2>2 DEF Observed
<1>2. LET f == Instead(d, x, y)
      IN /\ Whole(f) /\ f.snapshots = d.snapshots /\ f.anomalies = d.anomalies
         /\ f.start = d.start /\ f.seen = d.seen /\ f.baseline = d.baseline
         /\ f.detector = d.detector /\ f.active = d.active
  BY DEF Whole, Tables, Instead
<1>4. /\ Whole(e) /\ e.snapshots = d.snapshots /\ e.anomalies = d.anomalies
      /\ e.start = d.start /\ e.seen = d.seen /\ e.baseline = d.baseline
      /\ e.detector = d.detector /\ e.active = d.active
  BY <1>1, <1>2
<1> QED BY <1>4 DEF Detectors

LEMMA CompareBeside ==
    ASSUME NEW d, Whole(d), Detectors(d), NEW w \in Windows, NEW s, NEW st, HasKnown(st), NEW force
    PROVE  \E at, proven :
               /\ Observed(d, at, s.epoch, proven) /\ (w = "5h" => proven = d)
               /\ Beside(proven, Compare(d, w, s, st, force))
<1> DEFINE now_    == s.reset[w]
           before == IF st.reset # None THEN st.reset ELSE st.available
           full   == IF w = "weekly"
                     THEN observe_full_weekly_reset(IF force THEN NoChain ELSE st.chain, s)
                     ELSE [chain |-> NoChain, confirmed |-> 0]
           moved  == before # None /\ now_ # None /\ Distance(now_, before) > ShiftTolerance
           chained == [st EXCEPT !.chain = full.chain,
                                 !.deferred = IF full.chain.candidate /\ moved
                                              THEN <<s.epoch, before, now_>> ELSE <<>>]
           crossed == before # None /\ st.epoch < before /\ before <= s.epoch
           reset   == crossed \/ Recognized(st, w, before, s, full.confirmed, full.chain.candidate)
           judged  == IF reset THEN [kind |-> "none", state |-> chained]
                      ELSE Judge(chained, before, s, w)
           jump    == s.pct[w] > st.pct + Tolerance
           settled == Episodes(judged.state, judged.kind, before, now_, jump, s.epoch)
           episode == Episode(settled.kind, st, settled.state, before, now_, s.epoch)
           proven  == IF full.confirmed = 0 THEN d ELSE RecordFull(d, full.confirmed, s.epoch)
           solved  == IF w = "weekly" THEN Resolve(proven, s.owner, st, full.confirmed)
                      ELSE proven
           shown   == IF settled.kind = "none" THEN solved
                      ELSE Report(solved, Anomaly(s.owner, w, settled.kind, episode, s.epoch))
           final   == [RecordDate(settled.state, now_) EXCEPT
                           !.epoch = s.epoch, !.pct = s.pct[w], !.reset = now_,
                           !.available = IF now_ # None THEN now_ ELSE @]
<1>1. Compare(d, w, s, st, force) = Save(shown, s.owner, w, final, s.epoch)
  BY DEF Compare
<1>2. HasKnown(final)
  <2>1. HasKnown(chained)
    <3>1. \A x, y : HasKnown([st EXCEPT !.chain = x, !.deferred = y])
      BY DEF HasKnown
    <3> QED BY <3>1
  <2>2. HasKnown(judged.state)
    <3> HIDE DEF chained, reset
    <3> QED BY <2>1, JudgeHas
  <2> HIDE DEF judged, before, jump
  <2>3. HasKnown(settled.state)
    BY <2>2, EpisodesHas
  <2> HIDE DEF settled
  <2>4. HasKnown(RecordDate(settled.state, now_))
    BY <2>3, RecordDateHas
  <2>5. PICK x, y, z, u : final = [RecordDate(settled.state, now_) EXCEPT
                                       !.epoch = x, !.pct = y, !.reset = z, !.available = u]
    OBVIOUS
  <2> QED BY <2>4, <2>5 DEF HasKnown
<1>3. w = "5h" => proven = d
  OBVIOUS
<1> HIDE DEF final, episode, settled, full
<1>4. /\ Observed(d, full.confirmed, s.epoch, proven)
      /\ solved \in {proven, Resolve(proven, s.owner, st, full.confirmed)}
      /\ shown \in {solved, Report(solved, Anomaly(s.owner, w, settled.kind, episode, s.epoch))}
  BY DEF Observed
<1> HIDE DEF proven, solved, shown
<1>5. Whole(proven) /\ Detectors(proven)
  BY <1>4, ObservedWhole
<1>6. Beside(proven, solved)
  BY <1>4, <1>5, ResolveBeside, BesideItself
<1>7. Beside(proven, shown)
  <2>1. Whole(solved) /\ Detectors(solved)
    BY <1>6 DEF Beside
  <2>2. Beside(solved, shown)
    BY <1>4, <2>1, ReportBeside, BesideItself
  <2> QED BY <1>6, <2>2, BesideAgain
<1>8. Beside(shown, Save(shown, s.owner, w, final, s.epoch))
  BY <1>2, <1>7, SaveBeside DEF Beside
<1>9. Beside(proven, Compare(d, w, s, st, force))
  BY <1>1, <1>7, <1>8, BesideAgain
<1> QED BY <1>3, <1>4, <1>9

LEMMA DetectBeside ==
    ASSUME NEW d, Whole(d), Detectors(d), NEW w \in Windows, NEW s, s.owner \in Ids, NEW force
    PROVE  \E at, proven :
               /\ Observed(d, at, s.epoch, proven) /\ (w = "5h" => proven = d)
               /\ Beside(proven, Detect(d, w, s, force))
<1> DEFINE st == Load(d, s.owner, w, s.epoch)
<1>1. HasKnown(st)
  BY LoadHas
<1>2. Detect(d, w, s, force) \in {d, Break(d, s.owner, s.epoch), Baseline(d, w, s, st),
                                  Compare(d, w, s, st, force)}
  BY DEF Detect
<1> HIDE DEF st
<1>3. Beside(d, d) /\ Beside(d, Break(d, s.owner, s.epoch)) /\ Beside(d, Baseline(d, w, s, st))
  BY BesideItself, BreakBeside, BaselineBeside
<1>4. Observed(d, 0, s.epoch, d)
  BY DEF Observed
<1>5. CASE Detect(d, w, s, force) = Compare(d, w, s, st, force)
  BY <1>1, <1>5, CompareBeside
<1>6. CASE Beside(d, Detect(d, w, s, force))
  BY <1>4, <1>6
<1> QED BY <1>2, <1>3, <1>5, <1>6

-----------------------------------------------------------------------------
(* Rows in the order of time. *)

OneOfATime(S) == \A s, t \in S : s.epoch = t.epoch => s = t

LEMMA BeforeGrows ==
    ASSUME NEW S, IsFiniteSet(S), NEW s \in S, NEW t \in S, s.epoch \in Nat, t.epoch \in Nat,
           s.epoch < t.epoch, S \subseteq Row
    PROVE  /\ IsFiniteSet(Before(S, s.epoch)) /\ IsFiniteSet(Before(S, t.epoch))
           /\ Cardinality(Before(S, s.epoch)) \in Nat /\ Cardinality(Before(S, t.epoch)) \in Nat
           /\ Cardinality(Before(S, s.epoch)) < Cardinality(Before(S, t.epoch))
<1>1. Before(S, t.epoch) \subseteq S /\ Before(S, s.epoch) \subseteq Before(S, t.epoch)
  BY DEF Before, Row
<1>2. Before(S, s.epoch) # Before(S, t.epoch)
  BY DEF Before
<1>3. IsFiniteSet(Before(S, t.epoch))
  BY <1>1, FS_Subset
<1>4. /\ IsFiniteSet(Before(S, s.epoch))
      /\ Cardinality(Before(S, s.epoch)) <= Cardinality(Before(S, t.epoch))
      /\ Cardinality(Before(S, s.epoch)) # Cardinality(Before(S, t.epoch))
  BY <1>1, <1>2, <1>3, FS_Subset
<1>5. Cardinality(Before(S, s.epoch)) \in Nat /\ Cardinality(Before(S, t.epoch)) \in Nat
  BY <1>3, <1>4, FS_CardinalityType
<1> QED BY <1>3, <1>4, <1>5

(* Of rows at different times there are finitely many up to a bound. *)
LEMMA RowsAreFinite ==
    ASSUME NEW S, S \subseteq Row, OneOfATime(S), NEW n \in Nat, \A s \in S : s.epoch <= n
    PROVE  IsFiniteSet(S)
<1> DEFINE f == [s \in S |-> s.epoch]
<1>1. f \in Injection(S, 0..n)
  BY DEF Injection, IsInjective, OneOfATime, Row
<1>2. IsFiniteSet(0..n)
  BY FS_Interval
<1> QED BY <1>1, <1>2, FS_Injection

LEMMA InOrderIs ==
    ASSUME NEW S, S \subseteq Row, OneOfATime(S), IsFiniteSet(S)
    PROVE  /\ DOMAIN InOrder(S) = 1..Cardinality(S) /\ Cardinality(S) \in Nat
           /\ \A i \in DOMAIN InOrder(S) : InOrder(S)[i] \in S
           /\ \A i \in DOMAIN InOrder(S), j \in DOMAIN InOrder(S) :
                  i < j => InOrder(S)[i].epoch < InOrder(S)[j].epoch
           /\ \A s \in S : \E i \in DOMAIN InOrder(S) : InOrder(S)[i] = s
<1> DEFINE n    == Cardinality(S)
           rank == [s \in S |-> Cardinality(Before(S, s.epoch))]
           R    == InOrder(S)
<1>1. n \in Nat /\ DOMAIN R = 1..n
  BY FS_CardinalityType DEF InOrder
<1>2. \A s \in S : rank[s] \in 0..n - 1
  <2> TAKE s \in S
  <2>1. Before(S, s.epoch) \subseteq S /\ s \notin Before(S, s.epoch)
    BY DEF Before, Row
  <2>2. /\ Cardinality(Before(S, s.epoch)) <= n
        /\ Cardinality(Before(S, s.epoch)) = n => Before(S, s.epoch) = S
        /\ IsFiniteSet(Before(S, s.epoch))
    BY <2>1, FS_Subset
  <2>3. Cardinality(Before(S, s.epoch)) \in Nat
    BY <2>2, FS_CardinalityType
  <2> QED BY <1>1, <2>1, <2>2, <2>3
<1>3. \A s, t \in S : s.epoch < t.epoch => rank[s] < rank[t]
  BY BeforeGrows DEF Row
<1>4. \A s, t \in S : rank[s] = rank[t] => s = t
  <2> TAKE s \in S, t \in S
  <2>1. s.epoch \in Nat /\ t.epoch \in Nat /\ rank[s] \in Nat /\ rank[t] \in Nat
    BY <1>1, <1>2 DEF Row
  <2> QED BY <1>3, <2>1 DEF OneOfATime
<1> HIDE DEF rank
<1>5. rank \in [S -> 0..n - 1]
  BY <1>2 DEF rank
<1>6. \A i \in 0..n - 1 : \E s \in S : rank[s] = i
  <2>1. IsFiniteSet(0..n - 1) /\ Cardinality(0..n - 1) = n
    <3>1. n - 1 \in Int /\ 0 \in Int
      BY <1>1
    <3>2. /\ IsFiniteSet(0..n - 1)
          /\ Cardinality(0..n - 1) = IF 0 > n - 1 THEN 0 ELSE n - 1 - 0 + 1
      BY <3>1, FS_Interval
    <3> HIDE DEF n
    <3> QED BY <1>1, <3>2
  <2>2. rank \in Injection(S, 0..n - 1)
    BY <1>4, <1>5 DEF Injection, IsInjective
  <2>3. rank \in Surjection(S, 0..n - 1)
    BY <2>1, <2>2, FS_Injection
  <2> QED BY <2>3 DEF Surjection
<1>7. \A i \in 1..n : R[i] \in S /\ rank[R[i]] = i - 1
  <2> TAKE i \in 1..n
  <2>1. R[i] = CHOOSE s \in S : Cardinality(Before(S, s.epoch)) = i - 1
    BY DEF InOrder
  <2>2. i - 1 \in 0..n - 1
    BY <1>1
  <2>3. PICK s \in S : rank[s] = i - 1
    BY <1>6, <2>2
  <2>4. Cardinality(Before(S, s.epoch)) = i - 1
    BY <2>3 DEF rank
  <2> QED BY <2>1, <2>4 DEF rank
<1> HIDE DEF R
<1>8. \A i, j \in 1..n : i < j => R[i].epoch < R[j].epoch
  <2> SUFFICES ASSUME NEW i \in 1..n, NEW j \in 1..n, i < j, ~(R[i].epoch < R[j].epoch) PROVE FALSE
    OBVIOUS
  <2>1. R[i] \in S /\ R[j] \in S /\ rank[R[i]] = i - 1 /\ rank[R[j]] = j - 1
    BY <1>7
  <2>2. R[i].epoch \in Nat /\ R[j].epoch \in Nat
    BY <2>1 DEF Row
  <2>3. R[i] = R[j] \/ R[j].epoch < R[i].epoch
    BY <2>1, <2>2 DEF OneOfATime
  <2>4. CASE R[i] = R[j]
    BY <1>1, <2>1, <2>4
  <2>5. CASE R[j].epoch < R[i].epoch
    BY <1>1, <1>3, <2>1, <2>5
  <2> QED BY <2>3, <2>4, <2>5
<1>9. \A s \in S : \E i \in 1..n : R[i] = s
  <2> TAKE s \in S
  <2>1. rank[s] + 1 \in 1..n
    BY <1>1, <1>2
  <2> DEFINE i == rank[s] + 1
  <2>2. i \in 1..n /\ rank[s] = i - 1
    BY <1>2, <2>1
  <2> HIDE DEF i
  <2>3. R[i] \in S /\ rank[R[i]] = i - 1
    BY <1>7, <2>2
  <2>4. R[i] = s
    BY <1>4, <2>2, <2>3
  <2> QED BY <2>2, <2>4
<1> QED BY <1>1, <1>7, <1>8, <1>9 DEF R

-----------------------------------------------------------------------------
(* The weekly resets that evidence and rows give. *)

(* Of the other evidence of a moment the first that was seen. *)
Leads(P, p) ==
    /\ p.method # "full_observed"
    /\ \A q \in P : q.at = p.at /\ q.method # "full_observed" => p.seen <= q.seen

ShownBy(P, at, method) ==
    \/ method = "full_observed" /\ Full(P, at)
    \/ ~Full(P, at) /\ \E p \in P : Leads(P, p) /\ p.at = at /\ p.method = method

Settled(P, at) == \E method : ShownBy(P, at, method)

Given(P, D, at, method) ==
    \/ ShownBy(P, at, method)
    \/ Event("weekly", at, method) \in D /\ ~Settled(P, at)

RowEvents(d) == DerivedEvents(InOrder(Legacy(d)), "weekly")

(* The weekly resets of an archive are those. *)
Agrees(d) ==
    /\ \A e \in d.events : e.window = "weekly" =>
           \E at, method : /\ e = Event("weekly", at, method)
                           /\ Given(d.proofs, RowEvents(d), at, method)
    /\ \A at, method : Given(d.proofs, RowEvents(d), at, method) =>
           Event("weekly", at, method) \in d.events

LEMMA EventIs ==
    ASSUME NEW w, NEW at, NEW method
    PROVE  LET e == Event(w, at, method)
           IN e.window = w /\ e.at = at /\ e.method = method
BY DEF Event

LEMMA ProvenIs ==
    ASSUME NEW d
    PROVE  /\ \A e \in ProvenEvents(d) :
                  \E at, method : e = Event("weekly", at, method) /\ ShownBy(d.proofs, at, method)
           /\ \A at, method : ShownBy(d.proofs, at, method) =>
                  Event("weekly", at, method) \in ProvenEvents(d)
<1> DEFINE P    == d.proofs
           full == {Event("weekly", p.at, p.method) : p \in {p \in P : p.method = "full_observed"}}
           seen == {p \in P : /\ p.method # "full_observed"
                              /\ \A q \in P : q.at = p.at /\ q.method # "full_observed"
                                                   => p.seen <= q.seen}
           rest == {Event("weekly", p.at, p.method) : p \in seen}
<1>1. ProvenEvents(d) = OrIgnore(full, rest)
  BY DEF ProvenEvents
<1>2. seen = {p \in P : Leads(P, p)}
  BY DEF Leads
<1>3. /\ \A e \in full : \E at : e = Event("weekly", at, "full_observed") /\ Full(P, at)
      /\ \A at : Full(P, at) => Event("weekly", at, "full_observed") \in full
  BY DEF Full
<1> HIDE DEF seen
<1>4. /\ \A e \in rest : \E p \in P : Leads(P, p) /\ e = Event("weekly", p.at, p.method)
      /\ \A p \in P : Leads(P, p) => Event("weekly", p.at, p.method) \in rest
  BY <1>2
<1> HIDE DEF full, rest, P
<1>5. \A at, method : (\A a \in full : a.window # "weekly" \/ a.at # at) <=> ~Full(P, at)
  BY <1>3, EventIs
<1>6. ASSUME NEW e \in ProvenEvents(d)
      PROVE  \E at, method : e = Event("weekly", at, method) /\ ShownBy(P, at, method)
  <2>1. CASE e \in full
    BY <1>3, <2>1 DEF ShownBy
  <2>2. CASE e \in rest /\ \A a \in full : a.window # e.window \/ a.at # e.at
    <3>1. PICK p \in P : Leads(P, p) /\ e = Event("weekly", p.at, p.method)
      BY <1>4, <2>2
    <3>2. e.window = "weekly" /\ e.at = p.at
      BY <3>1, EventIs
    <3>3. ~Full(P, p.at)
      BY <1>5, <2>2, <3>2
    <3> QED BY <3>1, <3>3 DEF ShownBy
  <2> QED BY <1>1, <2>1, <2>2 DEF OrIgnore
<1>7. ASSUME NEW at, NEW method, ShownBy(P, at, method)
      PROVE  Event("weekly", at, method) \in ProvenEvents(d)
  <2>1. CASE method = "full_observed" /\ Full(P, at)
    BY <1>1, <1>3, <2>1 DEF OrIgnore
  <2>2. CASE ~Full(P, at) /\ \E p \in P : Leads(P, p) /\ p.at = at /\ p.method = method
    <3> DEFINE e == Event("weekly", at, method)
    <3>1. e \in rest
      BY <1>4, <2>2
    <3>2. e.window = "weekly" /\ e.at = at
      BY EventIs
    <3> HIDE DEF e
    <3>3. \A a \in full : a.window # e.window \/ a.at # e.at
      BY <1>5, <2>2, <3>2
    <3>4. e \in ProvenEvents(d)
      BY <1>1, <3>1, <3>3 DEF OrIgnore
    <3> QED BY <3>4 DEF e
  <2> QED BY <1>7, <2>1, <2>2 DEF ShownBy
<1> QED BY <1>6, <1>7 DEF P

(* What rows give of a window, of a moment one. *)
Method(w) == IF w = "5h" THEN "observed_refill" ELSE "random_observed"

LEMMA DerivedIs ==
    ASSUME NEW R, NEW w
    PROVE  /\ \A e \in DerivedEvents(R, w) :
                  \E at : e \in {Event(w, at, "scheduled_crossing"), Event(w, at, Method(w))}
           /\ \A e, f \in DerivedEvents(R, w) : e.at = f.at => e = f
<1> DEFINE planned  == {Event(w, R[i - 1].reset[w], "scheduled_crossing") :
                           i \in {i \in DOMAIN R : CrossedAt(R, w, i)}}
           refilled == {Event(w, R[i].epoch, IF w = "5h" THEN "observed_refill" ELSE "random_observed") :
                           i \in {i \in DOMAIN R : RefilledAt(R, w, i)}}
           late     == {Event(w, R[j].reset[w], "scheduled_crossing") :
                           j \in {j \in DOMAIN R : \E i \in DOMAIN R : CrossedSince(R, w, i, j)}}
<1>1. DerivedEvents(R, w) = OrIgnore(OrIgnore(planned, refilled), late)
  BY DEF DerivedEvents
<1>2. \A e \in planned : \E at : e = Event(w, at, "scheduled_crossing")
  OBVIOUS
<1>3. \A e \in refilled : \E at : e = Event(w, at, Method(w))
  BY DEF Method
<1>4. \A e \in late : \E at : e = Event(w, at, "scheduled_crossing")
  OBVIOUS
<1> HIDE DEF planned, refilled, late
<1>5. \A e, f \in planned : e.at = f.at => e = f /\ e.window = f.window
  BY <1>2, EventIs
<1>6. \A e, f \in refilled : e.at = f.at => e = f
  BY <1>3, EventIs
<1>7. \A e, f \in late : e.at = f.at => e = f
  BY <1>4, EventIs
<1>8. \A e \in planned \cup refilled \cup late : e.window = w
  BY <1>2, <1>3, <1>4, EventIs
<1>9. \A e, f \in DerivedEvents(R, w) : e.at = f.at => e = f
  BY <1>1, <1>5, <1>6, <1>7, <1>8 DEF OrIgnore
<1> QED BY <1>1, <1>2, <1>3, <1>4, <1>9 DEF OrIgnore

(* Rows before a moment give weekly resets before it. *)
LEMMA DerivedBefore ==
    ASSUME NEW R, NEW n \in Nat, DOMAIN R = 1..n, NEW b \in Nat,
           \A i \in DOMAIN R : R[i] \in Row /\ R[i].epoch < b
    PROVE  \A e \in DerivedEvents(R, "weekly") : e.at \in Int /\ e.at < b
<1> DEFINE w == "weekly"
           planned  == {Event(w, R[i - 1].reset[w], "scheduled_crossing") :
                           i \in {i \in DOMAIN R : CrossedAt(R, w, i)}}
           refilled == {Event(w, R[i].epoch, IF w = "5h" THEN "observed_refill" ELSE "random_observed") :
                           i \in {i \in DOMAIN R : RefilledAt(R, w, i)}}
           late     == {Event(w, R[j].reset[w], "scheduled_crossing") :
                           j \in {j \in DOMAIN R : \E i \in DOMAIN R : CrossedSince(R, w, i, j)}}
<1>1. DerivedEvents(R, w) = OrIgnore(OrIgnore(planned, refilled), late)
  BY DEF DerivedEvents
<1>0. \A i \in DOMAIN R : R[i].epoch \in Int /\ R[i].reset[w] \in Int
  BY DEF Row, Windows
<1>2. \A e \in planned : e.at \in Int /\ e.at < b
  <2> SUFFICES ASSUME NEW i \in DOMAIN R, CrossedAt(R, w, i)
               PROVE  R[i - 1].reset[w] \in Int /\ R[i - 1].reset[w] < b
    BY EventIs
  <2>1. i - 1 \in DOMAIN R
    BY DEF CrossedAt
  <2>2. R[i - 1].reset[w] <= R[i].epoch
    BY DEF CrossedAt, Crossed
  <2> QED BY <1>0, <2>1, <2>2
<1>3. \A e \in refilled : e.at \in Int /\ e.at < b
  BY <1>0, EventIs
<1>4. \A e \in late : e.at \in Int /\ e.at < b
  <2> SUFFICES ASSUME NEW i \in DOMAIN R, NEW j \in DOMAIN R, CrossedSince(R, w, i, j)
               PROVE  R[j].reset[w] \in Int /\ R[j].reset[w] < b
    BY EventIs
  <2>1. R[j].reset[w] <= R[i].epoch
    BY DEF CrossedSince, Crossed
  <2> QED BY <1>0, <2>1
<1> HIDE DEF planned, refilled, late
<1> QED BY <1>1, <1>2, <1>3, <1>4 DEF OrIgnore

-----------------------------------------------------------------------------
(* The weekly resets of an archive stay those its evidence and rows give. *)

LEMMA SmallestExists ==
    ASSUME NEW T \in SUBSET Nat, T # {} PROVE \E x \in T : \A y \in T : x <= y
<1>1. PICK x \in T : \A y \in T : ~ (<<y, x>> \in OpToRel(<, Nat))
  BY NatLessThanWellFounded, WFMin, Zenon
<1>2. \A y \in T : ~ (y < x)
  BY <1>1 DEF OpToRel
<1> QED BY <1>2

(* Every evidence shows a reset of its moment. *)
LEMMA ProofSettles ==
    ASSUME NEW P, \A p \in P : p.seen \in Nat, NEW p \in P
    PROVE  Settled(P, p.at)
<1>1. CASE Full(P, p.at)
  BY <1>1 DEF Settled, ShownBy
<1>2. CASE ~Full(P, p.at)
  <2> DEFINE T == {q.seen : q \in {q \in P : q.at = p.at}}
  <2>1. T \in SUBSET Nat /\ T # {}
    OBVIOUS
  <2>2. PICK x \in T : \A y \in T : x <= y
    BY <2>1, SmallestExists
  <2>3. PICK q \in P : q.at = p.at /\ q.seen = x
    OBVIOUS
  <2>4. \A r \in P : r.at = p.at => q.seen <= r.seen
    BY <2>2, <2>3
  <2>5. Leads(P, q)
    BY <1>2, <2>3, <2>4 DEF Leads, Full
  <2> QED BY <1>2, <2>3, <2>5 DEF Settled, ShownBy
<1> QED BY <1>1, <1>2

LEMMA SameRows ==
    ASSUME NEW d, NEW e, e.snapshots = d.snapshots, e.start = d.start
    PROVE  RowEvents(e) = RowEvents(d)
<1>1. Legacy(e) = Legacy(d)
  BY DEF Legacy
<1> QED BY <1>1 DEF RowEvents

LEMMA SameAgrees ==
    ASSUME NEW d, NEW e, Agrees(d), e.snapshots = d.snapshots, e.start = d.start,
           e.proofs = d.proofs, e.events = d.events
    PROVE  Agrees(e)
<1>1. RowEvents(e) = RowEvents(d)
  BY SameRows
<1> QED BY <1>1 DEF Agrees

(* The weekly resets are unchanged but at one moment. *)
LEMMA AgreesAt ==
    ASSUME NEW d, NEW e, Agrees(d), RowEvents(e) = RowEvents(d), NEW at,
           \A x, m : x # at => (Given(e.proofs, RowEvents(d), x, m) <=> Given(d.proofs, RowEvents(d), x, m)),
           \A f : f.window = "weekly" /\ f.at # at => (f \in e.events <=> f \in d.events),
           \A f \in e.events : f.window = "weekly" /\ f.at = at =>
               \E m : f = Event("weekly", at, m) /\ Given(e.proofs, RowEvents(d), at, m),
           \A m : Given(e.proofs, RowEvents(d), at, m) => Event("weekly", at, m) \in e.events
    PROVE  Agrees(e)
<1>1. ASSUME NEW f \in e.events, f.window = "weekly"
      PROVE  \E x, m : f = Event("weekly", x, m) /\ Given(e.proofs, RowEvents(d), x, m)
  <2>1. CASE f.at = at
    BY <1>1, <2>1
  <2>2. CASE f.at # at
    <3>1. f \in d.events
      BY <1>1, <2>2
    <3>2. PICK x, m : f = Event("weekly", x, m) /\ Given(d.proofs, RowEvents(d), x, m)
      BY <1>1, <3>1 DEF Agrees
    <3>3. x # at
      BY <2>2, <3>2, EventIs
    <3> QED BY <3>2, <3>3
  <2> QED BY <2>1, <2>2
<1>2. ASSUME NEW x, NEW m, Given(e.proofs, RowEvents(d), x, m)
      PROVE  Event("weekly", x, m) \in e.events
  <2>1. CASE x = at
    BY <1>2, <2>1
  <2>2. CASE x # at
    <3> DEFINE f == Event("weekly", x, m)
    <3>1. f \in d.events
      BY <1>2, <2>2 DEF Agrees
    <3>2. f.window = "weekly" /\ f.at # at
      BY <2>2, EventIs
    <3> HIDE DEF f
    <3>3. f \in e.events
      BY <3>1, <3>2
    <3> QED BY <3>3 DEF f
  <2> QED BY <2>1, <2>2
<1> QED BY <1>1, <1>2 DEF Agrees

LEMMA RecordFullAgrees ==
    ASSUME NEW d, Whole(d), Detectors(d), Agrees(d), NEW at, NEW seen
    PROVE  Agrees(RecordFull(d, at, seen))
<1> DEFINE e     == RecordFull(d, at, seen)
           P     == d.proofs
           Q     == e.proofs
           D     == RowEvents(d)
           proof == [method |-> "full_observed", at |-> at, seen |-> seen]
           shown == Event("weekly", at, "full_observed")
<1>1. e.snapshots = d.snapshots /\ e.start = d.start
  BY ObservedWhole DEF Observed
<1>2. RowEvents(e) = D
  BY <1>1, SameRows
<1>3. Q = IF Full(P, at) THEN P ELSE P \cup {proof}
  BY RecordFullIs DEF WithFull
<1>4. e.events = {f \in d.events : ~(f.window = "weekly" /\ f.at = at)} \cup {shown}
  BY RecordFullIs DEF WithShown
<1>5. proof.method = "full_observed" /\ proof.at = at
  OBVIOUS
<1>6. shown.window = "weekly" /\ shown.at = at
  BY EventIs
<1> HIDE DEF e, P, Q, D, proof, shown
<1>7. /\ P \subseteq Q /\ Full(Q, at)
      /\ \A p \in Q : p \in P \/ (p.method = "full_observed" /\ p.at = at)
  BY <1>3, <1>5 DEF Full
<1>8. \A x : x # at => (Full(Q, x) <=> Full(P, x))
  BY <1>7 DEF Full
<1>9. \A p : Leads(Q, p) <=> Leads(P, p)
  <2>1. \A q : q.method # "full_observed" => (q \in Q <=> q \in P)
    BY <1>7
  <2> TAKE p
  <2> HIDE DEF P, Q
  <2> QED BY <2>1 DEF Leads
<1>10. \A x, m : x # at => (ShownBy(Q, x, m) <=> ShownBy(P, x, m))
  <2>1. \A p : Leads(Q, p) => (p \in Q <=> p \in P)
    BY <1>7 DEF Leads
  <2> QED BY <1>8, <1>9, <2>1 DEF ShownBy
<1>11. \A m : ShownBy(Q, at, m) <=> m = "full_observed"
  BY <1>7 DEF ShownBy
<1>12. \A x, m : x # at => (Given(Q, D, x, m) <=> Given(P, D, x, m))
  BY <1>10 DEF Given, Settled
<1>13. \A m : Given(Q, D, at, m) <=> m = "full_observed"
  BY <1>11 DEF Given, Settled
<1>14. \A f : f.window = "weekly" /\ f.at # at => (f \in e.events <=> f \in d.events)
  BY <1>4, <1>6
<1>15. \A f \in e.events : f.window = "weekly" /\ f.at = at => f = shown
  BY <1>4
<1>16. shown \in e.events
  BY <1>4
<1> QED BY <1>2, <1>12, <1>13, <1>14, <1>15, <1>16, AgreesAt DEF P, Q, D, shown, e

(* Evidence seen later than any other, of a moment past the rows. *)
LEMMA RecordAgrees ==
    ASSUME NEW d, Agrees(d), NEW proof, proof.method # "full_observed", proof.seen \in Nat,
           \A p \in d.proofs : /\ p.seen \in Nat
                               /\ p.method # "full_observed" => p.seen < proof.seen,
           \A m : Event("weekly", proof.at, m) \notin RowEvents(d),
           NEW e, e.snapshots = d.snapshots, e.start = d.start,
           e.proofs = IF \E p \in d.proofs : p.method = proof.method /\ p.at = proof.at THEN d.proofs
                      ELSE d.proofs \cup {proof},
           e.events = IF \E f \in d.events : f.window = "weekly" /\ f.at = proof.at THEN d.events
                      ELSE d.events \cup {Event("weekly", proof.at, proof.method)}
    PROVE  Agrees(e)
<1> DEFINE P     == d.proofs
           Q     == e.proofs
           D     == RowEvents(d)
           at    == proof.at
           shown == Event("weekly", proof.at, proof.method)
<1>1. RowEvents(e) = D
  BY SameRows
<1>2. shown.window = "weekly" /\ shown.at = at
  BY EventIs
<1>3. Settled(P, at) <=> \E f \in d.events : f.window = "weekly" /\ f.at = at
  <2>1. ASSUME Settled(P, at) PROVE \E f \in d.events : f.window = "weekly" /\ f.at = at
    <3>1. PICK m : Given(P, D, at, m)
      BY <2>1 DEF Settled, Given
    <3>2. Event("weekly", at, m) \in d.events
      BY <3>1 DEF Agrees
    <3> QED BY <3>2, EventIs
  <2>2. ASSUME NEW f \in d.events, f.window = "weekly", f.at = at PROVE Settled(P, at)
    <3>1. PICK x, m : f = Event("weekly", x, m) /\ Given(P, D, x, m)
      BY <2>2 DEF Agrees
    <3>2. x = at
      BY <2>2, <3>1, EventIs
    <3> QED BY <3>1, <3>2 DEF Given, Settled
  <2> QED BY <2>1, <2>2
<1>4. \A p \in P : p.at = at => Settled(P, at)
  BY ProofSettles
<1>5. CASE Settled(P, at)
  <2>1. e.events = d.events
    BY <1>3, <1>5
  <2>2. /\ P \subseteq Q
        /\ \A p \in Q : p \in P \/ (p = proof /\ p.at = at /\ p.method # "full_observed")
    OBVIOUS
  <2>3. \A x : Full(Q, x) <=> Full(P, x)
    BY <2>2 DEF Full
  <2>4. \A p \in P : Leads(Q, p) <=> Leads(P, p)
    BY <2>2 DEF Leads
  <2>5. ~Full(P, at) => proof \in P \/ ~Leads(Q, proof)
    <3> SUFFICES ASSUME ~Full(P, at), Leads(Q, proof) PROVE FALSE
      OBVIOUS
    <3>1. PICK p \in P : p.at = at /\ p.method # "full_observed"
      BY <1>5 DEF Settled, ShownBy, Leads
    <3>2. proof.seen <= p.seen
      BY <2>2, <3>1 DEF Leads
    <3> QED BY <3>1, <3>2
  <2>6. \A x, m : ShownBy(Q, x, m) <=> ShownBy(P, x, m)
    <3> HIDE DEF P, Q, at
    <3> QED BY <2>2, <2>3, <2>4, <2>5 DEF ShownBy
  <2>7. \A x, m : Given(Q, D, x, m) <=> Given(P, D, x, m)
    BY <2>6 DEF Given, Settled
  <2> QED BY <1>1, <2>1, <2>7 DEF Agrees
<1>6. CASE ~Settled(P, at)
  <2>1. e.events = d.events \cup {shown}
    BY <1>3, <1>6
  <2>2. Q = P \cup {proof} /\ \A p \in P : p.at # at
    BY <1>4, <1>6
  <2>3. \A x : Full(Q, x) <=> Full(P, x)
    BY <2>2 DEF Full
  <2>4. ~Full(Q, at) /\ Leads(Q, proof)
    BY <2>2, <2>3 DEF Full, Leads
  <2>5. \A p \in P : Leads(Q, p) <=> Leads(P, p)
    BY <2>2 DEF Leads
  <2>6. \A x, m : x # at => (ShownBy(Q, x, m) <=> ShownBy(P, x, m))
    BY <2>2, <2>3, <2>5 DEF ShownBy
  <2>7. \A m : ShownBy(Q, at, m) <=> m = proof.method
    BY <2>2, <2>4 DEF ShownBy
  <2>8. \A x, m : x # at => (Given(Q, D, x, m) <=> Given(P, D, x, m))
    BY <2>6 DEF Given, Settled
  <2>9. \A m : Given(Q, D, at, m) <=> m = proof.method
    BY <2>7 DEF Given, Settled
  <2>10. \A f : f.window = "weekly" /\ f.at # at => (f \in e.events <=> f \in d.events)
    BY <1>2, <2>1
  <2>11. \A f \in e.events : f.window = "weekly" /\ f.at = at => f = shown
    BY <1>3, <1>6, <2>1
  <2> QED BY <1>1, <2>1, <2>8, <2>9, <2>10, <2>11, AgreesAt
<1> QED BY <1>5, <1>6

-----------------------------------------------------------------------------
(* An observation: evidence is of its time, and nothing that was there goes. *)

EvidenceOf(d) ==
    /\ \A p \in d.proofs : /\ p.seen \in Nat /\ p.method # "observed_refill"
                           /\ p.method # "full_observed" => p.seen <= d.seen
    /\ \A p, q \in d.proofs :
           p.method # "full_observed" /\ q.method # "full_observed" /\ p.seen = q.seen => p = q

(* The rows count up to the first baseline, and pairs from there on. *)
BaselineOf(d) ==
    /\ d.start \in Nat \cup {None} /\ (d.start # None => d.start <= d.seen + 1)
    /\ \A b \in d.baseline : b.epoch \in Nat /\ d.start # None /\ d.start <= b.epoch + 1

Sound(d) ==
    /\ Whole(d) /\ Detectors(d) /\ \A a \in d.anomalies : WholeAnomaly(a)
    /\ d.snapshots \subseteq Row /\ d.seen \in Nat
    /\ EvidenceOf(d) /\ BaselineOf(d)

Grown(d, e) ==
    /\ e.snapshots = d.snapshots /\ d.proofs \subseteq e.proofs /\ d.anomalies \subseteq e.anomalies
    /\ \A k \in Ids \X Windows : d.detector[k].known => e.detector[k].known
    /\ \A f : f.window # "weekly" => (f \in e.events <=> f \in d.events)

LEMMA BesideGrown ==
    ASSUME NEW d, Sound(d), NEW e, Beside(d, e)
    PROVE  Sound(e) /\ Grown(d, e) /\ e.seen = d.seen /\ (Agrees(d) => Agrees(e))
<1>1. Agrees(d) => Agrees(e)
  BY SameAgrees DEF Beside
<1>2. EvidenceOf(e) /\ BaselineOf(e)
  BY DEF Beside, Sound, EvidenceOf, BaselineOf
<1>3. Sound(e)
  BY <1>2 DEF Beside, Sound
<1>4. Grown(d, e)
  BY DEF Beside, Grown
<1> QED BY <1>1, <1>3, <1>4 DEF Beside

LEMMA ObservedGrown ==
    ASSUME NEW d, Sound(d), NEW at, NEW seen \in Nat, NEW e, Observed(d, at, seen, e)
    PROVE  Sound(e) /\ Grown(d, e) /\ e.seen = d.seen /\ (Agrees(d) => Agrees(e))
<1>1. /\ Whole(e) /\ Detectors(e) /\ e.snapshots = d.snapshots /\ e.anomalies = d.anomalies
      /\ e.start = d.start /\ e.seen = d.seen /\ e.baseline = d.baseline /\ e.detector = d.detector
  BY ObservedWhole DEF Sound
<1>2. CASE e = d
  BY <1>2 DEF Grown
<1>3. CASE e = RecordFull(d, at, seen)
  <2> DEFINE proof == [method |-> "full_observed", at |-> at, seen |-> seen]
  <2>1. e.proofs = WithFull(d.proofs, at, seen) /\ e.events = WithShown(d.events, at)
    BY <1>3, RecordFullIs DEF Sound
  <2>2. e.proofs \in {d.proofs, d.proofs \cup {proof}}
    BY <2>1 DEF WithFull
  <2>3. proof.method = "full_observed" /\ proof.seen = seen
    OBVIOUS
  <2> HIDE DEF proof
  <2>4. /\ d.proofs \subseteq e.proofs
        /\ \A p \in e.proofs : p \in d.proofs \/ (p.method = "full_observed" /\ p.seen \in Nat)
    BY <2>2, <2>3
  <2>5. EvidenceOf(e)
    BY <1>1, <2>4 DEF Sound, EvidenceOf
  <2>6. BaselineOf(e)
    BY <1>1 DEF Sound, BaselineOf
  <2>7. \A f : f.window # "weekly" => (f \in e.events <=> f \in d.events)
    BY <2>1, EventIs DEF WithShown
  <2>8. Agrees(d) => Agrees(e)
    BY <1>3, RecordFullAgrees DEF Sound
  <2>9. Sound(e)
    BY <1>1, <2>5, <2>6 DEF Sound
  <2> QED BY <1>1, <2>4, <2>7, <2>8, <2>9 DEF Grown
<1> QED BY <1>2, <1>3 DEF Observed

LEMMA GrownAgain ==
    ASSUME NEW d, NEW e, NEW f, Grown(d, e), Grown(e, f)
    PROVE  Grown(d, f)
BY DEF Grown

LEMMA DetectGrown ==
    ASSUME NEW d, Sound(d), NEW w \in Windows, NEW s \in Row, NEW force
    PROVE  LET e == Detect(d, w, s, force)
           IN Sound(e) /\ Grown(d, e) /\ e.seen = d.seen /\ (Agrees(d) => Agrees(e))
<1> DEFINE e == Detect(d, w, s, force)
<1>1. s.owner \in Ids /\ s.epoch \in Nat
  BY DEF Row
<1>2. PICK at, proven : Observed(d, at, s.epoch, proven) /\ Beside(proven, e)
  BY <1>1, DetectBeside DEF Sound
<1> HIDE DEF e
<1>3. Sound(proven) /\ Grown(d, proven) /\ proven.seen = d.seen /\ (Agrees(d) => Agrees(proven))
  BY <1>1, <1>2, ObservedGrown
<1>4. Sound(e) /\ Grown(proven, e) /\ e.seen = proven.seen /\ (Agrees(proven) => Agrees(e))
  BY <1>2, <1>3, BesideGrown
<1>5. Grown(d, e)
  BY <1>3, <1>4, GrownAgain
<1> QED BY <1>3, <1>4, <1>5 DEF e

-----------------------------------------------------------------------------
(* A pair of samples. *)

LEMMA ObservedEventsAre ==
    ASSUME NEW p, NEW c, p.epoch \in Nat, c \in Row, ObservedEvents(p, c) # {}
    PROVE  \E e : /\ ObservedEvents(p, c) = {e} /\ e.seen = c.epoch /\ e.at > p.epoch
                  /\ e.method \in {"scheduled_crossing", "random_observed"}
<1>1. c.epoch \in Nat
  BY DEF Row
<1>2. p.epoch < c.epoch
  BY <1>1 DEF ObservedEvents
<1> DEFINE a == [method |-> "scheduled_crossing", at |-> p.reset["weekly"], seen |-> c.epoch]
           b == [method |-> "random_observed", at |-> c.epoch, seen |-> c.epoch]
<1>3. \/ ObservedEvents(p, c) = {a} /\ CrossedOnTime(p, c)
      \/ ObservedEvents(p, c) = {b}
  BY DEF ObservedEvents
<1>4. CASE ObservedEvents(p, c) = {a} /\ CrossedOnTime(p, c)
  <2>1. a.seen = c.epoch /\ a.method = "scheduled_crossing" /\ a.at > p.epoch
    BY <1>4 DEF CrossedOnTime
  <2> HIDE DEF a
  <2> QED BY <1>4, <2>1
<1>5. CASE ObservedEvents(p, c) = {b}
  <2>1. b.seen = c.epoch /\ b.method = "random_observed" /\ b.at > p.epoch
    BY <1>2
  <2> HIDE DEF b
  <2> QED BY <1>5, <2>1
<1> QED BY <1>3, <1>4, <1>5

LEMMA RecordIs ==
    ASSUME NEW d, Whole(d), NEW p, NEW c
    PROVE  LET e == Record(d, p, c) IN
           /\ Whole(e) /\ e.snapshots = d.snapshots /\ e.anomalies = d.anomalies
           /\ e.start = d.start /\ e.seen = d.seen /\ e.baseline = d.baseline
           /\ e.detector = d.detector /\ e.active = d.active
<1>1. \A e : /\ AddProof(d, e) = d \/ \E x : AddProof(d, e) = Instead(d, x, d.events)
  <2> TAKE e
  <2>1. [d EXCEPT !.proofs = @ \cup {e}] = Instead(d, d.proofs \cup {e}, d.events)
    BY DEF Whole, Tables, Instead
  <2> QED BY <2>1 DEF AddProof
<1>2. d = Instead(d, d.proofs, d.events)
  BY DEF Whole, Tables, Instead
<1>3. \A e : \E x : AddProof(d, e) = Instead(d, x, d.events)
  BY <1>1, <1>2
<1>4. \A x, e : \E y : AddEvent(Instead(d, x, d.events), "weekly", e) = Instead(d, x, y)
  <2> TAKE x, e
  <2> DEFINE g == Instead(d, x, d.events)
  <2>1. \A y : [g EXCEPT !.events = y] = Instead(d, x, y)
    BY DEF Whole, Tables, Instead
  <2>2. AddEvent(g, "weekly", e) = g \/ \E y : AddEvent(g, "weekly", e) = [g EXCEPT !.events = y]
    BY DEF AddEvent
  <2> QED BY <2>1, <2>2
<1>5. \E x, y : Record(d, p, c) = Instead(d, x, y)
  <2>1. Record(d, p, c) = d \/ \E e : Record(d, p, c) = AddEvent(AddProof(d, e), "weekly", e)
    BY DEF Record
  <2> QED BY <1>2, <1>3, <1>4, <2>1
<1>6. PICK x, y : Record(d, p, c) = Instead(d, x, y)
  BY <1>5
<1>7. LET f == Instead(d, x, y)
      IN /\ Whole(f) /\ f.snapshots = d.snapshots /\ f.anomalies = d.anomalies
         /\ f.start = d.start /\ f.seen = d.seen /\ f.baseline = d.baseline
         /\ f.detector = d.detector /\ f.active = d.active
  BY DEF Whole, Tables, Instead
<1> QED BY <1>6, <1>7

WithProof(P, proof) ==
    IF \E p \in P : p.method = proof.method /\ p.at = proof.at THEN P ELSE P \cup {proof}
WithReset(E, proof) ==
    IF \E f \in E : f.window = "weekly" /\ f.at = proof.at THEN E
    ELSE E \cup {Event("weekly", proof.at, proof.method)}

LEMMA AddedIs ==
    ASSUME NEW d, Whole(d), NEW proof, NEW e, e = AddEvent(AddProof(d, proof), "weekly", proof)
    PROVE  e.proofs = WithProof(d.proofs, proof) /\ e.events = WithReset(d.events, proof)
<1> DEFINE a == AddProof(d, proof)
           P == IF \E p \in d.proofs : p.method = proof.method /\ p.at = proof.at
                THEN d.proofs ELSE d.proofs \cup {proof}
           v == Event("weekly", proof.at, proof.method)
<1>1. Whole(a) /\ a.proofs = P /\ a.events = d.events
  BY DEF Whole, Tables, AddProof
<1>0. e = AddEvent(a, "weekly", proof)
  OBVIOUS
<1> HIDE DEF a, P, v
<1>2. e = IF \E f \in a.events : f.window = "weekly" /\ f.at = proof.at THEN a
          ELSE [a EXCEPT !.events = @ \cup {v}]
  BY <1>0 DEF AddEvent, v, Event
<1>3. e.proofs = P
  BY <1>1, <1>2 DEF Whole, Tables
<1>4. e.events = IF \E f \in d.events : f.window = "weekly" /\ f.at = proof.at THEN d.events
                 ELSE d.events \cup {v}
  BY <1>1, <1>2 DEF Whole, Tables
<1> QED BY <1>3, <1>4 DEF P, v, WithProof, WithReset

(* Rows count as weekly evidence before the baseline only. *)
LEMMA RowsBeforeStart ==
    ASSUME NEW d, Sound(d), d.start # None, OneOfATime(d.snapshots), \A t \in d.snapshots : t.epoch <= d.seen
    PROVE  \A e \in RowEvents(d) : e.at \in Int /\ e.at < d.start
<1> DEFINE S == Legacy(d)
<1>1. d.seen \in Nat /\ d.start \in Nat
  BY DEF Sound, BaselineOf
<1>2. S \subseteq Row /\ OneOfATime(S) /\ \A t \in S : t.epoch < d.start /\ t.epoch <= d.seen
  BY DEF Legacy, Sound, OneOfATime
<1>3. IsFiniteSet(S)
  BY <1>1, <1>2, RowsAreFinite
<1> HIDE DEF S
<1>4. /\ DOMAIN InOrder(S) = 1..Cardinality(S) /\ Cardinality(S) \in Nat
      /\ \A i \in DOMAIN InOrder(S) : InOrder(S)[i] \in S
  BY <1>2, <1>3, InOrderIs
<1>5. \A i \in DOMAIN InOrder(S) : InOrder(S)[i] \in Row /\ InOrder(S)[i].epoch < d.start
  BY <1>2, <1>4
<1> QED BY <1>1, <1>4, <1>5, DerivedBefore DEF RowEvents, S

(* What evidence of the sample s leaves of d. *)
Paired(d, e, s) ==
    /\ d.proofs \subseteq e.proofs
    /\ \A q \in e.proofs : /\ q.seen \in Nat /\ q.method # "observed_refill"
                           /\ q.method # "full_observed" => q.seen <= s.epoch
    /\ \A q, r \in e.proofs :
           q.method # "full_observed" /\ r.method # "full_observed" /\ q.seen = r.seen => q = r
    /\ \A f : f.window # "weekly" => (f \in e.events <=> f \in d.events)
    /\ Agrees(d) /\ (\A t \in d.snapshots : t.epoch <= d.seen) /\ OneOfATime(d.snapshots)
           => Agrees(e)

(* A pair that began at the baseline is past the rows that count. *)
LEMMA PairGrown ==
    ASSUME NEW d, Sound(d), NEW s \in Row, d.seen < s.epoch, NEW p \in d.baseline,
           d.start # None, ObservedEvents(p, s) # {}
    PROVE  Paired(d, Record(d, p, s), s)
<1> DEFINE e == Record(d, p, s)
<1>1. s.epoch \in Nat /\ p.epoch \in Nat /\ d.seen \in Nat /\ d.start \in Nat /\ d.start <= p.epoch + 1
  BY DEF Row, Sound, BaselineOf, None
<1>2. PICK proof : /\ ObservedEvents(p, s) = {proof} /\ proof.seen = s.epoch /\ proof.at > p.epoch
                   /\ proof.method \in {"scheduled_crossing", "random_observed"}
  BY <1>1, ObservedEventsAre
<1>3. e = AddEvent(AddProof(d, proof), "weekly", proof)
  <2>1. (CHOOSE x \in ObservedEvents(p, s) : TRUE) = proof
    BY <1>2
  <2> QED BY <2>1 DEF Record
<1>4. /\ e.proofs = IF \E q \in d.proofs : q.method = proof.method /\ q.at = proof.at
                    THEN d.proofs ELSE d.proofs \cup {proof}
      /\ e.events = IF \E f \in d.events : f.window = "weekly" /\ f.at = proof.at THEN d.events
                    ELSE d.events \cup {Event("weekly", proof.at, proof.method)}
  <2>1. Whole(d)
    BY DEF Sound
  <2> HIDE DEF e
  <2>2. e.proofs = WithProof(d.proofs, proof) /\ e.events = WithReset(d.events, proof)
    BY <1>3, <2>1, AddedIs
  <2>3. e.proofs = IF \E q \in d.proofs : q.method = proof.method /\ q.at = proof.at
                   THEN d.proofs ELSE d.proofs \cup {proof}
    BY <2>2 DEF WithProof
  <2>4. e.events = IF \E f \in d.events : f.window = "weekly" /\ f.at = proof.at THEN d.events
                   ELSE d.events \cup {Event("weekly", proof.at, proof.method)}
    BY <2>2 DEF WithReset
  <2> QED BY <2>3, <2>4
<1>5. e.snapshots = d.snapshots /\ e.start = d.start
  BY RecordIs DEF Sound
<1> HIDE DEF e
<1>6. d.proofs \subseteq e.proofs /\ \A q \in e.proofs : q \in d.proofs \/ q = proof
  BY <1>4
<1>7. \A q \in d.proofs : /\ q.seen \in Nat /\ q.method # "observed_refill"
                          /\ q.method # "full_observed" => q.seen < s.epoch
  BY <1>1 DEF Sound, EvidenceOf
<1>8. \A q \in e.proofs : /\ q.seen \in Nat /\ q.method # "observed_refill"
                          /\ q.method # "full_observed" => q.seen <= s.epoch
  BY <1>1, <1>2, <1>6, <1>7
<1>9. ASSUME NEW q \in e.proofs, NEW r \in e.proofs,
             q.method # "full_observed", r.method # "full_observed", q.seen = r.seen
      PROVE  q = r
  <2>1. CASE q \in d.proofs /\ r \in d.proofs
    BY <1>9, <2>1 DEF Sound, EvidenceOf
  <2>2. CASE q \in d.proofs /\ r = proof
    BY <1>1, <1>2, <1>7, <1>9, <2>2
  <2>3. CASE q = proof /\ r \in d.proofs
    BY <1>1, <1>2, <1>7, <1>9, <2>3
  <2> QED BY <1>6, <2>1, <2>2, <2>3
<1>10. \A f : f.window # "weekly" => (f \in e.events <=> f \in d.events)
  BY <1>4, EventIs
<1>11. ASSUME Agrees(d), \A t \in d.snapshots : t.epoch <= d.seen, OneOfATime(d.snapshots)
       PROVE  Agrees(e)
  <2>4. \A f \in RowEvents(d) : f.at \in Int /\ f.at < d.start
    BY <1>11, RowsBeforeStart
  <2>5. \A m : Event("weekly", proof.at, m) \notin RowEvents(d)
    <3> SUFFICES ASSUME NEW m, Event("weekly", proof.at, m) \in RowEvents(d) PROVE FALSE
      OBVIOUS
    <3>1. proof.at \in Int /\ proof.at < d.start
      BY <2>4, EventIs
    <3> QED BY <1>1, <1>2, <3>1
  <2> QED BY <1>1, <1>2, <1>4, <1>5, <1>7, <1>11, <2>5, RecordAgrees
<1> QED BY <1>6, <1>8, <1>9, <1>10, <1>11 DEF e, Paired

LEMMA HistoryGrown ==
    ASSUME NEW d, Sound(d), NEW s \in Row, s.epoch \in Nat \ {0}, d.seen <= s.epoch,
           NEW prior, d.seen = 0 => prior = 0, NEW priorActive
    PROVE  LET h == observe_weekly_reset_history(d, s, prior, priorActive) IN
           /\ Sound(h) /\ Grown(d, h) /\ h.seen = s.epoch
           /\ Agrees(d) /\ (\A t \in d.snapshots : t.epoch <= d.seen) /\ OneOfATime(d.snapshots)
                  => Agrees(h)
<1> DEFINE h     == observe_weekly_reset_history(d, s, prior, priorActive)
           base  == BaseOf(d, s)
           inter == IF d.start # None THEN d.interrupted ELSE Interrupted(d, s, priorActive)
           chain == Load(d, s.owner, "weekly", s.epoch).chain
           noted == IF Complete(s) /\ base # {} THEN Record(d, CHOOSE p \in base : TRUE, s) ELSE d
           start == IF Complete(s) /\ noted.start = None
                    THEN EvidenceStart(noted, s, chain, base, inter) ELSE noted.start
           next  == IF Complete(s) THEN {s} ELSE base
<1>0. d.seen \in Nat /\ s.epoch \in Nat
  BY DEF Sound
<1>1. CASE s.epoch <= (IF d.seen > 0 THEN d.seen ELSE prior)
  <2>1. h = d
    BY <1>1 DEF observe_weekly_reset_history
  <2>2. d.seen = s.epoch
    BY <1>0, <1>1
  <2> QED BY <2>1, <2>2 DEF Grown
<1>2. CASE ~(s.epoch <= (IF d.seen > 0 THEN d.seen ELSE prior))
  <2>1. d.seen < s.epoch
    BY <1>0, <1>2
  <2>2. h = [noted EXCEPT !.start = start, !.seen = s.epoch, !.seenOwner = s.owner,
                          !.interrupted = inter, !.baseline = next]
    BY <1>2 DEF observe_weekly_reset_history
  <2>3. base \subseteq d.baseline
    BY DEF BaseOf
  <2>4. noted = d \/ \E p \in base : noted = Record(d, p, s)
    OBVIOUS
  <2>5. start = noted.start \/ (noted.start = None /\ start \in {s.epoch, s.epoch + 1})
    BY DEF EvidenceStart
  <2>6. next = base \/ (next = {s} /\ start # None)
    BY <1>0 DEF EvidenceStart, None
  <2> HIDE DEF h, base, inter, chain, noted, start, next
  <2>7. /\ Whole(noted) /\ noted.snapshots = d.snapshots /\ noted.anomalies = d.anomalies
        /\ noted.start = d.start /\ noted.seen = d.seen /\ noted.baseline = d.baseline
        /\ noted.detector = d.detector
    BY <2>4, RecordIs DEF Sound
  <2>8. /\ Whole(h) /\ h.snapshots = d.snapshots /\ h.anomalies = d.anomalies
        /\ h.start = start /\ h.seen = s.epoch /\ h.baseline = next
        /\ h.detector = d.detector /\ h.proofs = noted.proofs /\ h.events = noted.events
    BY <2>2, <2>7 DEF Whole, Tables
  <2>9. BaselineOf(h)
    <3>1. d.start \in Nat \cup {None} /\ (d.start # None => d.start <= d.seen + 1)
      BY DEF Sound, BaselineOf
    <3>2. start \in Nat \cup {None} /\ (start # None => start <= s.epoch + 1)
      BY <1>0, <2>1, <2>5, <2>7, <3>1 DEF None
    <3>3. \A b \in base : b.epoch \in Nat /\ start # None /\ start <= b.epoch + 1
      BY <2>3, <2>5, <2>7 DEF Sound, BaselineOf
    <3>4. \A b \in next : b.epoch \in Nat /\ start # None /\ start <= b.epoch + 1
      BY <1>0, <2>6, <3>2, <3>3
    <3> QED BY <2>8, <3>2, <3>4 DEF BaselineOf
  <2>10. Paired(d, noted, s)
    <3>1. CASE noted = d
      <4>1. \A q \in d.proofs : /\ q.seen \in Nat /\ q.method # "observed_refill"
                                /\ q.method # "full_observed" => q.seen <= s.epoch
        BY <1>0, <2>1 DEF Sound, EvidenceOf
      <4>2. \A q, r \in d.proofs :
                q.method # "full_observed" /\ r.method # "full_observed" /\ q.seen = r.seen => q = r
        BY DEF Sound, EvidenceOf
      <4> QED BY <3>1, <4>1, <4>2 DEF Paired
    <3>2. ASSUME NEW p \in base, noted = Record(d, p, s), ObservedEvents(p, s) # {}
          PROVE  Paired(d, noted, s)
      <4>1. p \in d.baseline /\ d.start # None
        BY <2>3 DEF Sound, BaselineOf
      <4> QED BY <2>1, <3>2, <4>1, PairGrown
    <3>3. ASSUME NEW p \in base, noted = Record(d, p, s), ObservedEvents(p, s) = {}
          PROVE  noted = d
      BY <3>3 DEF Record
    <3> QED BY <2>4, <3>1, <3>2, <3>3
  <2>11. EvidenceOf(h)
    BY <2>8, <2>10 DEF EvidenceOf, Paired
  <2>12. Sound(h)
    <3>1. Detectors(h) /\ \A a \in h.anomalies : WholeAnomaly(a)
      BY <2>8 DEF Sound, Detectors
    <3> QED BY <1>0, <2>8, <2>9, <2>11, <3>1 DEF Sound
  <2>13. Grown(d, h)
    BY <2>8, <2>10 DEF Grown, Paired
  <2>14. ASSUME Agrees(d), \A t \in d.snapshots : t.epoch <= d.seen, OneOfATime(d.snapshots)
         PROVE  Agrees(h)
    <3>1. Legacy(h) = Legacy(noted)
      <4>1. CASE start = noted.start
        BY <2>7, <2>8, <4>1 DEF Legacy
      <4>2. CASE noted.start = None /\ start \in {s.epoch, s.epoch + 1}
        <5>1. \A t \in d.snapshots : t.epoch \in Nat /\ t.epoch < start
          BY <1>0, <2>1, <2>14, <4>2 DEF Sound, Row
        <5> QED BY <2>7, <2>8, <4>2, <5>1 DEF Legacy
      <4> QED BY <2>5, <4>1, <4>2
    <3>2. RowEvents(h) = RowEvents(noted)
      BY <3>1 DEF RowEvents
    <3>3. Agrees(noted)
      BY <2>10, <2>14 DEF Paired
    <3> QED BY <2>8, <3>2, <3>3 DEF Agrees
  <2> QED BY <2>8, <2>12, <2>13, <2>14 DEF h
<1> QED BY <1>1, <1>2

LEMMA ProcessGrown ==
    ASSUME NEW d, Sound(d), NEW s \in Row, s.epoch \in Nat \ {0}, d.seen <= s.epoch,
           d.seen = 0 => \A k \in Ids \X Windows : ~d.detector[k].known
    PROVE  LET e == process_snapshot(d, s) IN
           /\ Sound(e) /\ Grown(d, e) /\ e.seen = s.epoch
           /\ Agrees(d) /\ (\A t \in d.snapshots : t.epoch <= d.seen) /\ OneOfATime(d.snapshots)
                  => Agrees(e)
<1> DEFINE prior   == IF \E k \in Ids \X Windows : d.detector[k].known
                      THEN LET k == CHOOSE k \in Ids \X Windows :
                                        \A l \in Ids \X Windows :
                                            d.detector[l].updated <= d.detector[k].updated
                           IN d.detector[k].updated
                      ELSE 0
           force   == d.active # s.owner
           left    == IF force /\ d.active \in Ids THEN Break(d, d.active, s.epoch) ELSE d
           turned  == [left EXCEPT !.active = s.owner]
           five    == Detect(turned, "5h", s, force)
           weekly  == Detect(five, "weekly", s, force)
           e       == observe_weekly_reset_history(weekly, s, prior, d.active)
<1>1. process_snapshot(d, s) = e
  BY DEF process_snapshot
<1>2. d.seen = 0 => prior = 0
  OBVIOUS
<1>3. Beside(d, left)
  BY BreakBeside, BesideItself DEF Sound
<1> HIDE DEF prior, force, left
<1>4. Beside(left, turned)
  <2>1. /\ Whole(turned) /\ turned.detector = left.detector /\ turned.anomalies = left.anomalies
        /\ turned.snapshots = left.snapshots /\ turned.proofs = left.proofs
        /\ turned.events = left.events /\ turned.start = left.start /\ turned.seen = left.seen
        /\ turned.baseline = left.baseline
    BY <1>3 DEF Beside, Whole, Tables
  <2> QED BY <1>3, <2>1 DEF Beside, Detectors
<1>5. Beside(d, turned)
  BY <1>3, <1>4, BesideAgain
<1> HIDE DEF turned
<1>6. Sound(turned) /\ Grown(d, turned) /\ turned.seen = d.seen /\ (Agrees(d) => Agrees(turned))
  BY <1>5, BesideGrown
<1>7. Sound(five) /\ Grown(turned, five) /\ five.seen = turned.seen /\ (Agrees(turned) => Agrees(five))
  BY <1>6, DetectGrown DEF Windows
<1> HIDE DEF five
<1>8. Sound(weekly) /\ Grown(five, weekly) /\ weekly.seen = five.seen /\ (Agrees(five) => Agrees(weekly))
  BY <1>7, DetectGrown DEF Windows
<1> HIDE DEF weekly
<1>9. /\ Sound(e) /\ Grown(weekly, e) /\ e.seen = s.epoch
      /\ Agrees(weekly) /\ (\A t \in weekly.snapshots : t.epoch <= weekly.seen)
         /\ OneOfATime(weekly.snapshots) => Agrees(e)
  BY <1>2, <1>6, <1>7, <1>8, HistoryGrown
<1> HIDE DEF e
<1>10. Grown(d, weekly)
  BY <1>6, <1>7, <1>8, GrownAgain
<1>11. Grown(d, e)
  BY <1>9, <1>10, GrownAgain
<1>12. weekly.snapshots = d.snapshots /\ weekly.seen = d.seen
  BY <1>6, <1>7, <1>8, <1>10 DEF Grown
<1> QED BY <1>1, <1>6, <1>7, <1>8, <1>9, <1>11, <1>12

-----------------------------------------------------------------------------
(* Compaction. *)

LEMMA AnchorIs ==
    ASSUME NEW d, NEW s \in d.snapshots, d.snapshots \subseteq Row, \A t \in d.snapshots : t.epoch <= s.epoch
    PROVE  Anchor(d) = s.epoch
<1> DEFINE x == LatestOf(d.snapshots)
<1>1. x \in d.snapshots /\ \A t \in d.snapshots : t.epoch <= x.epoch
  BY DEF LatestOf
<1>2. x.epoch \in Nat /\ s.epoch \in Nat
  BY <1>1 DEF Row
<1> HIDE DEF x
<1>3. x.epoch = s.epoch
  BY <1>1, <1>2
<1> QED BY <1>3 DEF Anchor, x

LEMMA CompactIs ==
    ASSUME NEW d, Whole(d)
    PROVE  LET c == compact(d) IN
           /\ Whole(c) /\ c.start = d.start /\ c.seen = d.seen /\ c.baseline = d.baseline
           /\ c.active = d.active
           /\ c.snapshots = {s \in ThinnedRows(d) : s.epoch >= Cutoff(d)}
           /\ c.proofs \subseteq d.proofs /\ (\A p \in d.proofs : p.at >= Cutoff(d) => p \in c.proofs)
           /\ c.anomalies \subseteq d.anomalies /\ (\A a \in d.anomalies : ~a.journaled => a \in c.anomalies)
           /\ c.detector = [k \in DOMAIN d.detector |->
                               IF IsStale(d, k) THEN StateDefault ELSE d.detector[k]]
<1> DEFINE cutoff == Cutoff(d)
           S == {s \in ThinnedRows(d) : s.epoch >= cutoff}
           P == {p \in d.proofs : p.at >= cutoff}
           E == {e \in d.events : e.window = "weekly" => e.at >= cutoff}
           A == {a \in d.anomalies : ~(MayForget(a) /\ a.at < cutoff)}
           T == [k \in DOMAIN d.detector |-> IF IsStale(d, k) THEN StateDefault ELSE d.detector[k]]
           c == [d EXCEPT !.snapshots = S, !.proofs = P, !.events = E, !.anomalies = A, !.detector = T]
<1>1. compact(d) = c
  BY DEF compact
<1>2. /\ P \subseteq d.proofs /\ (\A p \in d.proofs : p.at >= Cutoff(d) => p \in P)
      /\ A \subseteq d.anomalies /\ (\A a \in d.anomalies : ~a.journaled => a \in A)
  BY DEF MayForget
<1> HIDE DEF S, P, E, A, T
<1>3. /\ Whole(c) /\ c.start = d.start /\ c.seen = d.seen /\ c.baseline = d.baseline
      /\ c.active = d.active /\ c.snapshots = S /\ c.proofs = P /\ c.anomalies = A /\ c.detector = T
  BY DEF Whole, Tables
<1> HIDE DEF c
<1>4. c.snapshots = {s \in ThinnedRows(d) : s.epoch >= Cutoff(d)}
  BY <1>3 DEF S
<1>5. c.detector = [k \in DOMAIN d.detector |-> IF IsStale(d, k) THEN StateDefault ELSE d.detector[k]]
  BY <1>3 DEF T
<1>6. /\ c.proofs \subseteq d.proofs /\ (\A p \in d.proofs : p.at >= Cutoff(d) => p \in c.proofs)
      /\ c.anomalies \subseteq d.anomalies /\ (\A a \in d.anomalies : ~a.journaled => a \in c.anomalies)
  BY <1>2, <1>3
<1> QED BY <1>1, <1>3, <1>4, <1>5, <1>6

(* Recent rows are never thinned; the newest one stays. *)
LEMMA CompactRows ==
    ASSUME ArchiveAssumption, NEW d, Whole(d), d.snapshots \subseteq Row, NEW s \in d.snapshots,
           \A t \in d.snapshots : t.epoch <= s.epoch, NEW c, c.snapshots = compact(d).snapshots
    PROVE  /\ c.snapshots \subseteq d.snapshots /\ s \in c.snapshots
           /\ Anchor(d) = s.epoch /\ Anchor(c) = s.epoch /\ Cutoff(c) = Cutoff(d) /\ Cutoff(d) \in Int
           /\ \A t \in c.snapshots : t.epoch >= Cutoff(d)
           /\ \A t \in d.snapshots : t.epoch >= s.epoch - RecentSpan /\ t.epoch >= Cutoff(d)
                                         => t \in c.snapshots
<1>1. c.snapshots = {t \in ThinnedRows(d) : t.epoch >= Cutoff(d)}
  BY CompactIs
<1>2. Anchor(d) = s.epoch
  BY AnchorIs
<1>3. s.epoch \in Nat /\ \A t \in d.snapshots : t.epoch \in Nat
  BY DEF Row
<1>4. Cutoff(d) \in Int /\ Cutoff(d) <= s.epoch
  BY <1>2, <1>3 DEF Cutoff, ArchiveAssumption
<1>5. ThinnedRows(d) \subseteq d.snapshots
  BY DEF ThinnedRows, Thinned, Before
<1>6. \A t \in d.snapshots : t.epoch >= s.epoch - RecentSpan => t \in ThinnedRows(d)
  <2> SUFFICES ASSUME NEW t \in d.snapshots, t.epoch >= s.epoch - RecentSpan
               PROVE  t \in ThinnedRows(d)
    OBVIOUS
  <2>1. ~(t.epoch < s.epoch - RecentSpan) /\ ~(t.epoch < s.epoch - MediumSpan)
    BY <1>3 DEF ArchiveAssumption
  <2> QED BY <1>2, <2>1 DEF ThinnedRows, Before
<1>7. s \in ThinnedRows(d)
  BY <1>3, <1>6 DEF ArchiveAssumption
<1>8. c.snapshots \subseteq d.snapshots /\ s \in c.snapshots
  BY <1>1, <1>3, <1>4, <1>5, <1>7
<1>9. Anchor(c) = s.epoch
  BY <1>8, AnchorIs
<1>10. Cutoff(c) = Cutoff(d)
  BY <1>2, <1>9 DEF Cutoff
<1> QED BY <1>1, <1>2, <1>4, <1>6, <1>8, <1>9, <1>10

LEMMA CompactSound ==
    ASSUME NEW d, Sound(d), compact(d).snapshots \subseteq d.snapshots
    PROVE  Sound(compact(d)) /\ compact(d).seen = d.seen
<1> DEFINE c == compact(d)
<1>1. /\ Whole(c) /\ c.start = d.start /\ c.seen = d.seen /\ c.baseline = d.baseline
      /\ c.proofs \subseteq d.proofs /\ c.anomalies \subseteq d.anomalies
      /\ c.snapshots \subseteq d.snapshots
  BY CompactIs DEF Sound
<1>2. c.detector = [k \in DOMAIN d.detector |-> IF IsStale(d, k) THEN StateDefault ELSE d.detector[k]]
  BY CompactIs DEF Sound
<1> HIDE DEF c
<1>3. Detectors(c)
  <2>1. DOMAIN d.detector = Ids \X Windows /\ \A k \in Ids \X Windows : HasKnown(d.detector[k])
    BY DEF Sound, Detectors
  <2>2. HasKnown(StateDefault)
    BY DEF HasKnown, StateDefault
  <2> QED BY <1>2, <2>1, <2>2 DEF Detectors
<1>4. EvidenceOf(c)
  BY <1>1 DEF Sound, EvidenceOf
<1>5. BaselineOf(c)
  BY <1>1 DEF Sound, BaselineOf
<1> QED BY <1>1, <1>3, <1>4, <1>5 DEF Sound, c

-----------------------------------------------------------------------------
(* Deriving the resets anew. *)

(* The resets of the 5-hour window are those of the rows. *)
FiveHour(d) == \A e \in d.events : e.window # "weekly" => e \in DerivedEvents(InOrder(d.snapshots), "5h")

LEMMA RebuildIs ==
    ASSUME NEW d, Whole(d), NEW r, r = rebuild_reset_events(d)
    PROVE  /\ Whole(r) /\ r.start = d.start /\ r.seen = d.seen /\ r.baseline = d.baseline
           /\ r.active = d.active /\ r.snapshots = d.snapshots /\ r.proofs = d.proofs
           /\ r.anomalies = d.anomalies /\ r.detector = d.detector
           /\ r.events = OrIgnore(ProvenEvents(d), RowEvents(d))
                         \cup DerivedEvents(InOrder(d.snapshots), "5h")
<1> DEFINE E == OrIgnore(ProvenEvents(d), RowEvents(d)) \cup DerivedEvents(InOrder(d.snapshots), "5h")
<1>1. r = [d EXCEPT !.events = E]
  BY DEF rebuild_reset_events, RowEvents
<1> HIDE DEF E
<1>2. /\ Whole(r) /\ r.start = d.start /\ r.seen = d.seen /\ r.baseline = d.baseline
      /\ r.active = d.active /\ r.snapshots = d.snapshots /\ r.proofs = d.proofs
      /\ r.anomalies = d.anomalies /\ r.detector = d.detector /\ r.events = E
  BY <1>1 DEF Whole, Tables
<1> QED BY <1>2 DEF E

LEMMA RowEventsAre ==
    ASSUME NEW d
    PROVE  \A e \in RowEvents(d) : /\ e.window = "weekly" /\ e.method # "observed_refill"
                                   /\ \E at, m : e = Event("weekly", at, m)
<1>1. ASSUME NEW e \in RowEvents(d)
      PROVE  \E at, m : /\ m \in {"scheduled_crossing", "random_observed"}
                        /\ e = Event("weekly", at, m)
  BY DerivedIs DEF RowEvents, Method
<1>2. \A at, m : Event("weekly", at, m).window = "weekly" /\ Event("weekly", at, m).method = m
  BY EventIs
<1> QED BY <1>1, <1>2

LEMMA FiveEventsAre ==
    ASSUME NEW R
    PROVE  \A e \in DerivedEvents(R, "5h") : e.window = "5h"
<1>1. ASSUME NEW e \in DerivedEvents(R, "5h") PROVE \E at, m : e = Event("5h", at, m)
  BY DerivedIs
<1> QED BY <1>1, EventIs

LEMMA RebuildAgrees ==
    ASSUME NEW d, Whole(d)
    PROVE  LET r == rebuild_reset_events(d) IN Agrees(r) /\ FiveHour(r)
<1> DEFINE r == rebuild_reset_events(d)
           P == d.proofs
           D == RowEvents(d)
           V == ProvenEvents(d)
           F == DerivedEvents(InOrder(d.snapshots), "5h")
<1>1. r.snapshots = d.snapshots /\ r.start = d.start /\ r.proofs = d.proofs
  BY RebuildIs
<1>2. r.events = OrIgnore(V, D) \cup F
  BY RebuildIs
<1>3. RowEvents(r) = D
  BY <1>1, SameRows
<1> HIDE DEF r, V, D, F
<1>4. /\ \A e \in V : \E at, m : e = Event("weekly", at, m) /\ ShownBy(P, at, m)
      /\ \A at, m : ShownBy(P, at, m) => Event("weekly", at, m) \in V
  BY ProvenIs DEF V
<1>5. \A e \in D : e.window = "weekly" /\ \E at, m : e = Event("weekly", at, m)
  BY RowEventsAre DEF D
<1>6. \A e \in F : e.window = "5h"
  BY FiveEventsAre DEF F
<1>7. \A at : Settled(P, at) <=> \E a \in V : a.window = "weekly" /\ a.at = at
  <2> TAKE at
  <2>1. ASSUME Settled(P, at) PROVE \E a \in V : a.window = "weekly" /\ a.at = at
    <3>1. PICK m : Event("weekly", at, m) \in V
      BY <1>4, <2>1 DEF Settled
    <3> QED BY <3>1, EventIs
  <2>2. ASSUME NEW a \in V, a.at = at PROVE Settled(P, at)
    <3>1. PICK x, m : a = Event("weekly", x, m) /\ ShownBy(P, x, m)
      BY <1>4
    <3>2. x = at
      BY <2>2, <3>1, EventIs
    <3> QED BY <3>1, <3>2 DEF Settled
  <2> QED BY <2>1, <2>2
<1>8. ASSUME NEW e \in r.events, e.window = "weekly"
      PROVE  \E at, m : e = Event("weekly", at, m) /\ Given(P, D, at, m)
  <2>1. CASE e \in V
    BY <1>4, <2>1 DEF Given
  <2>2. CASE e \in D /\ \A a \in V : a.window # e.window \/ a.at # e.at
    <3>1. PICK at, m : e = Event("weekly", at, m)
      BY <1>5, <2>2
    <3>2. e.at = at
      BY <3>1, EventIs
    <3>3. ~Settled(P, at)
      BY <1>5, <1>7, <2>2, <3>2
    <3> QED BY <2>2, <3>1, <3>3 DEF Given
  <2>3. e \notin F
    BY <1>6, <1>8
  <2> QED BY <1>2, <2>1, <2>2, <2>3 DEF OrIgnore
<1>9. ASSUME NEW at, NEW m, Given(P, D, at, m) PROVE Event("weekly", at, m) \in r.events
  <2>1. CASE ShownBy(P, at, m)
    BY <1>2, <1>4, <2>1 DEF OrIgnore
  <2>2. CASE Event("weekly", at, m) \in D /\ ~Settled(P, at)
    <3> DEFINE e == Event("weekly", at, m)
    <3>1. e.window = "weekly" /\ e.at = at
      BY EventIs
    <3> HIDE DEF e
    <3>2. \A a \in V : a.window # e.window \/ a.at # e.at
      BY <1>7, <2>2, <3>1
    <3>3. e \in r.events
      BY <1>2, <2>2, <3>2 DEF OrIgnore, e
    <3> QED BY <3>3 DEF e
  <2> QED BY <1>9, <2>1, <2>2 DEF Given
<1>10. Agrees(r)
  BY <1>1, <1>3, <1>8, <1>9 DEF Agrees
<1>11. \A e \in OrIgnore(V, D) : e.window = "weekly"
  <2>1. \A e \in V : e.window = "weekly"
    BY <1>4, EventIs
  <2> QED BY <1>5, <2>1 DEF OrIgnore
<1>12. FiveHour(r)
  BY <1>1, <1>2, <1>11 DEF FiveHour, F
<1> QED BY <1>10, <1>12 DEF r

LEMMA RebuildSound ==
    ASSUME NEW d, Sound(d)
    PROVE  Sound(rebuild_reset_events(d))
<1> DEFINE r == rebuild_reset_events(d)
<1>1. /\ Whole(r) /\ r.start = d.start /\ r.seen = d.seen /\ r.baseline = d.baseline
      /\ r.snapshots = d.snapshots /\ r.proofs = d.proofs
      /\ r.anomalies = d.anomalies /\ r.detector = d.detector
  BY RebuildIs DEF Sound
<1> HIDE DEF r
<1>2. EvidenceOf(r) /\ BaselineOf(r) /\ Detectors(r)
  BY <1>1 DEF Sound, EvidenceOf, BaselineOf, Detectors
<1> QED BY <1>1, <1>2 DEF Sound, r

-----------------------------------------------------------------------------
(* What the resets of an archive say. *)

LEMMA GivenOnce ==
    ASSUME NEW d, EvidenceOf(d), NEW at, NEW m, NEW n,
           Given(d.proofs, RowEvents(d), at, m), Given(d.proofs, RowEvents(d), at, n)
    PROVE  m = n
<1> DEFINE P == d.proofs
<1>1. CASE ShownBy(P, at, m) /\ ShownBy(P, at, n)
  <2>1. CASE Full(P, at)
    BY <1>1, <2>1 DEF ShownBy
  <2>2. CASE ~Full(P, at)
    <3>1. PICK p \in P : Leads(P, p) /\ p.at = at /\ p.method = m
      BY <1>1, <2>2 DEF ShownBy
    <3>2. PICK q \in P : Leads(P, q) /\ q.at = at /\ q.method = n
      BY <1>1, <2>2 DEF ShownBy
    <3>3. p.seen \in Nat /\ q.seen \in Nat /\ p.seen <= q.seen /\ q.seen <= p.seen
      BY <3>1, <3>2 DEF Leads, EvidenceOf
    <3>4. p.seen = q.seen
      BY <3>3
    <3>5. p = q
      BY <3>1, <3>2, <3>4 DEF Leads, EvidenceOf
    <3> QED BY <3>1, <3>2, <3>5
  <2> QED BY <2>1, <2>2
<1>2. CASE ~Settled(P, at)
  <2>1. Event("weekly", at, m) \in RowEvents(d) /\ Event("weekly", at, n) \in RowEvents(d)
    BY <1>2 DEF Given, Settled
  <2> DEFINE e == Event("weekly", at, m) f == Event("weekly", at, n)
  <2>2. e.at = f.at /\ e.method = m /\ f.method = n
    BY EventIs
  <2> HIDE DEF e, f
  <2>3. e = f
    BY <2>1, <2>2, DerivedIs DEF RowEvents, e, f
  <2> QED BY <2>2, <2>3
<1> QED BY <1>1, <1>2 DEF Given, Settled

LEMMA ResetsOnce ==
    ASSUME NEW d, EvidenceOf(d), Agrees(d), FiveHour(d),
           NEW e \in d.events, NEW f \in d.events, e.window = f.window, e.at = f.at
    PROVE  e = f
<1>1. CASE e.window = "weekly"
  <2>1. PICK x, m : e = Event("weekly", x, m) /\ Given(d.proofs, RowEvents(d), x, m)
    BY <1>1 DEF Agrees
  <2>2. PICK y, n : f = Event("weekly", y, n) /\ Given(d.proofs, RowEvents(d), y, n)
    BY <1>1 DEF Agrees
  <2>3. x = y
    BY <2>1, <2>2, EventIs
  <2>4. m = n
    BY <2>1, <2>2, <2>3, GivenOnce
  <2> QED BY <2>1, <2>2, <2>3, <2>4
<1>2. CASE e.window # "weekly"
  <2>1. e \in DerivedEvents(InOrder(d.snapshots), "5h") /\ f \in DerivedEvents(InOrder(d.snapshots), "5h")
    BY <1>2 DEF FiveHour
  <2> QED BY <2>1, DerivedIs
<1> QED BY <1>1, <1>2

LEMMA AgreedAreSame ==
    ASSUME NEW d, NEW e, Agrees(d), Agrees(e), e.proofs = d.proofs, RowEvents(e) = RowEvents(d)
    PROVE  {f \in e.events : f.window = "weekly"} = {f \in d.events : f.window = "weekly"}
BY DEF Agrees

-----------------------------------------------------------------------------
(* The invariant. *)

RecentSpared ==
    \A t \in inserted : t.epoch >= Anchor(db) - RecentSpan /\ t.epoch >= Cutoff(db) => t \in db.snapshots

RowsInv ==
    /\ OneOfATime(db.snapshots) /\ \A t \in db.snapshots : t.epoch <= db.seen
    /\ inserted \subseteq Row /\ db.snapshots \subseteq inserted
    /\ IF migrated THEN /\ \E s \in db.snapshots : \A t \in db.snapshots : t.epoch <= s.epoch
                        /\ \A s \in db.snapshots : s.epoch >= Cutoff(db)
                        /\ RecentSpared
       ELSE db.snapshots = {} /\ inserted = {}
    /\ db.seen = 0 => \A k \in Ids \X Windows : ~db.detector[k].known

(* A cycle is later than all that was seen, until it has stored it itself. *)
CycleInv ==
    /\ stage \in {"idle", "archive", "store", "observe"} /\ sample.epoch \in Nat
    /\ stage # "idle" => sample \in Row /\ sample.epoch # 0
    /\ db.seen <= sample.epoch /\ (stage = "archive" => db.seen < sample.epoch)
    /\ history \subseteq Row /\ OneOfATime(history)
    /\ \A h \in history : /\ h.epoch <= sample.epoch
                          /\ stage \in {"archive", "store"} => h.epoch < sample.epoch

Inv ==
    /\ database \in {"absent", "good", "corrupt"} /\ migrated \in BOOLEAN
    /\ database = "absent" => db = EmptyArchive /\ ~migrated
    /\ Sound(db) /\ Agrees(db) /\ FiveHour(db) /\ RowsInv /\ CycleInv

(* A 5-hour refill of the rows R is read off two of them. *)
ReadOff(R, e, i, j) ==
    /\ j < i /\ e.at = R[i].epoch /\ CompleteRow(R[j], "5h") /\ CompleteRow(R[i], "5h")
    /\ OwnedAlike(R[j], R[i]) /\ Near(R[j], R[i])
    /\ \A k \in j + 1..i - 1 : OwnedAlike(R[j], R[k])

LEMMA RefilledOf ==
    ASSUME NEW R, NEW n \in Nat, DOMAIN R = 1..n, NEW e \in DerivedEvents(R, "5h"), e.method = "observed_refill"
    PROVE  \E i \in DOMAIN R, j \in DOMAIN R : ReadOff(R, e, i, j)
<1> DEFINE w == "5h"
           planned  == {Event(w, R[i - 1].reset[w], "scheduled_crossing") :
                           i \in {i \in DOMAIN R : CrossedAt(R, w, i)}}
           refilled == {Event(w, R[i].epoch, IF w = "5h" THEN "observed_refill" ELSE "random_observed") :
                           i \in {i \in DOMAIN R : RefilledAt(R, w, i)}}
           late     == {Event(w, R[j].reset[w], "scheduled_crossing") :
                           j \in {j \in DOMAIN R : \E i \in DOMAIN R : CrossedSince(R, w, i, j)}}
<1>1. DerivedEvents(R, w) = OrIgnore(OrIgnore(planned, refilled), late)
  BY DEF DerivedEvents
<1>2. \A f \in planned : f.method = "scheduled_crossing"
  BY EventIs
<1>3. \A f \in refilled : \E i \in DOMAIN R : RefilledAt(R, w, i) /\ f.at = R[i].epoch
  BY EventIs
<1>4. \A f \in late : f.method = "scheduled_crossing"
  BY EventIs
<1> HIDE DEF planned, refilled, late
<1>5. e \in refilled
  BY <1>1, <1>2, <1>4 DEF OrIgnore
<1>6. PICK i \in DOMAIN R : RefilledAt(R, w, i) /\ e.at = R[i].epoch
  BY <1>3, <1>5
<1>7. PICK j \in BaseRow(R, w, i) :
          CompleteRow(R[i], w) /\ OwnedAlike(R[j], R[i]) /\ Near(R[j], R[i])
  BY <1>6 DEF RefilledAt
<1>8. /\ j \in 1..i - 1 /\ CompleteRow(R[j], w)
      /\ \A k \in j + 1..i - 1 : OwnedAlike(R[j], R[k])
  BY DEF BaseRow
<1>9. j \in DOMAIN R /\ j < i
  BY <1>8
<1> QED BY <1>6, <1>7, <1>8, <1>9 DEF ReadOff

LEMMA RecentOfOneOwner ==
    ASSUME ArchiveAssumption, Inv, NEW e \in db.events, e.method = "observed_refill",
           e.at - GapLimit >= Anchor(db) - RecentSpan
    PROVE  OfOneOwner(e)
<1> DEFINE S == db.snapshots
           R == InOrder(S)
<1>1. S \subseteq Row /\ OneOfATime(S) /\ db.seen \in Nat /\ \A t \in S : t.epoch <= db.seen
  BY DEF Inv, Sound, RowsInv
<1>2. /\ DOMAIN R = 1..Cardinality(S) /\ Cardinality(S) \in Nat
      /\ \A i \in DOMAIN R : R[i] \in S
      /\ \A i \in DOMAIN R, j \in DOMAIN R : i < j => R[i].epoch < R[j].epoch
      /\ \A s \in S : \E i \in DOMAIN R : R[i] = s
  BY <1>1, RowsAreFinite, InOrderIs
<1>3. e.window # "weekly"
  <2> SUFFICES ASSUME e.window = "weekly" PROVE FALSE
    OBVIOUS
  <2>1. PICK at, m : e = Event("weekly", at, m) /\ Given(db.proofs, RowEvents(db), at, m)
    BY DEF Inv, Agrees
  <2>2. m = "observed_refill"
    BY <2>1, EventIs
  <2>3. e \notin RowEvents(db)
    BY RowEventsAre
  <2>4. ~ShownBy(db.proofs, at, m)
    BY <2>2 DEF ShownBy, Inv, Sound, EvidenceOf
  <2> QED BY <2>1, <2>3, <2>4 DEF Given
<1>4. e \in DerivedEvents(R, "5h")
  BY <1>3 DEF Inv, FiveHour
<1> HIDE DEF R
<1>a. PICK i \in DOMAIN R, j \in DOMAIN R : ReadOff(R, e, i, j)
  BY <1>2, <1>4, RefilledOf
<1>5. /\ j < i /\ e.at = R[i].epoch /\ CompleteRow(R[j], "5h") /\ CompleteRow(R[i], "5h")
      /\ OwnedAlike(R[j], R[i]) /\ Near(R[j], R[i])
      /\ \A k \in j + 1..i - 1 : OwnedAlike(R[j], R[k])
  BY <1>a DEF ReadOff
<1> DEFINE p == R[j] c == R[i]
<1>6. p \in S /\ c \in S /\ p.epoch \in Nat /\ c.epoch \in Nat /\ p.epoch < c.epoch
  BY <1>1, <1>2, <1>5 DEF Row
<1>7. migrated /\ S \subseteq inserted /\ inserted \subseteq Row
  BY <1>6 DEF Inv, RowsInv
<1>8. PICK s \in S : \A t \in S : t.epoch <= s.epoch
  BY <1>7 DEF Inv, RowsInv
<1>9. Anchor(db) = s.epoch /\ s.epoch \in Nat
  BY <1>1, <1>8, AnchorIs DEF Row
<1>10. Cutoff(db) \in Int /\ p.epoch >= Cutoff(db)
  BY <1>6, <1>7, <1>9 DEF Inv, RowsInv, Cutoff, ArchiveAssumption
<1>11. c.epoch - p.epoch <= GapLimit /\ GapLimit \in Nat
  BY <1>5, WeeklyResetAssumption DEF Near
<1>12. p.epoch >= Anchor(db) - RecentSpan
  BY <1>5, <1>6, <1>9, <1>11 DEF ArchiveAssumption
<1>13. ASSUME NEW t \in inserted, t.epoch > p.epoch, t.epoch < c.epoch
       PROVE  t.owner = c.owner
  <2>1. t.epoch \in Nat
    BY <1>7 DEF Row
  <2>2. t.epoch >= Anchor(db) - RecentSpan /\ t.epoch >= Cutoff(db)
    BY <1>6, <1>9, <1>10, <1>12, <1>13, <2>1 DEF ArchiveAssumption
  <2>3. t \in S
    BY <1>7, <2>2 DEF Inv, RowsInv, RecentSpared
  <2>4. PICK k \in DOMAIN R : R[k] = t
    BY <1>2, <2>3
  <2>5. i \in Nat /\ j \in Nat /\ k \in Nat
    BY <1>2
  <2>6. ~(k < j) /\ k # j /\ ~(i < k) /\ k # i
    BY <1>2, <1>6, <1>13, <2>1, <2>4
  <2>7. k \in j + 1..i - 1
    BY <2>5, <2>6
  <2>8. OwnedAlike(R[j], R[k]) /\ OwnedAlike(R[j], R[i])
    BY <1>5, <2>7
  <2> QED BY <2>4, <2>8 DEF OwnedAlike
<1>14. p \in inserted /\ c \in inserted
  BY <1>6, <1>7
<1> QED BY <1>5, <1>6, <1>13, <1>14 DEF OfOneOwner

LEMMA InvProves == ASSUME ArchiveAssumption, Inv PROVE ResetsAreProven
<1>1. TypeOK
  <2>1. \A s, t \in db.snapshots : s.epoch = t.epoch => s = t
    BY DEF Inv, RowsInv, OneOfATime
  <2>2. \A e, f \in db.events : e.window = f.window /\ e.at = f.at => e = f
    BY ResetsOnce DEF Inv, Sound
  <2> QED BY <2>1, <2>2 DEF TypeOK, Inv, CycleInv
<1>2. NoSparseReset
  <2> SUFFICES ASSUME db.start # None, NEW e \in db.events, e.window = "weekly", e.at >= db.start
               PROVE  Proven(e)
    BY DEF NoSparseReset
  <2>1. PICK at, m : e = Event("weekly", at, m) /\ Given(db.proofs, RowEvents(db), at, m)
    BY DEF Inv, Agrees
  <2>2. e.at = at
    BY <2>1, EventIs
  <2>3. e \notin RowEvents(db)
    <3>1. db.start \in Nat
      BY DEF Inv, Sound, BaselineOf
    <3>2. e \in RowEvents(db) => e.at \in Int /\ e.at < db.start
      BY RowsBeforeStart DEF Inv, RowsInv
    <3> QED BY <3>1, <3>2
  <2>4. ShownBy(db.proofs, at, m)
    BY <2>1, <2>3 DEF Given
  <2>5. \E p \in db.proofs : p.at = at
    BY <2>4 DEF ShownBy, Full
  <2> QED BY <2>2, <2>5 DEF Proven
<1>3. LiveIsRebuilt
  <2> DEFINE r == rebuild_reset_events(db)
  <2>1. r.proofs = db.proofs /\ r.snapshots = db.snapshots /\ r.start = db.start
    BY RebuildIs DEF Inv, Sound
  <2>2. Agrees(r)
    BY RebuildAgrees DEF Inv, Sound
  <2> HIDE DEF r
  <2>3. RowEvents(r) = RowEvents(db)
    BY <2>1, SameRows
  <2>4. {f \in r.events : f.window = "weekly"} = {f \in db.events : f.window = "weekly"}
    BY <2>1, <2>2, <2>3, AgreedAreSame DEF Inv
  <2> QED BY <2>4 DEF LiveIsRebuilt, r
<1>4. RecentFiveHourOfOneOwner
  BY RecentOfOneOwner DEF RecentFiveHourOfOneOwner
<1> QED BY <1>1, <1>2, <1>3, <1>4 DEF ResetsAreProven

-----------------------------------------------------------------------------
(* It holds at first. *)

LEMMA EmptySound == Sound(EmptyArchive) /\ Agrees(EmptyArchive) /\ FiveHour(EmptyArchive)
<1> DEFINE d == EmptyArchive
<1>1. /\ Whole(d) /\ d.anomalies = {} /\ d.snapshots = {} /\ d.proofs = {} /\ d.events = {}
      /\ d.start = None /\ d.seen = 0 /\ d.baseline = {}
      /\ d.detector = [k \in Ids \X Windows |-> StateDefault]
  BY DEF EmptyArchive, Whole, Tables
<1> HIDE DEF d
<1>2. Detectors(d)
  BY <1>1 DEF Detectors, HasKnown, StateDefault
<1>3. Sound(d)
  BY <1>1, <1>2 DEF Sound, EvidenceOf, BaselineOf
<1>4. RowEvents(d) = {}
  <2>1. Legacy(d) = {}
    BY <1>1 DEF Legacy
  <2>2. Cardinality({}) = 0
    BY FS_EmptySet
  <2>3. DOMAIN InOrder({}) = {}
    BY <2>2 DEF InOrder
  <2> QED BY <2>1, <2>3 DEF RowEvents, DerivedEvents, OrIgnore
<1>5. Agrees(d)
  BY <1>1, <1>4 DEF Agrees, Given, ShownBy, Full
<1>6. FiveHour(d)
  BY <1>1 DEF FiveHour
<1> QED BY <1>3, <1>5, <1>6 DEF d

LEMMA InitInv == ASSUME ArchiveAssumption, Init PROVE Inv
<1>1. /\ db = EmptyArchive /\ db.snapshots = {} /\ db.seen = 0
      /\ db.detector = [k \in Ids \X Windows |-> StateDefault]
  BY DEF Init, EmptyArchive
<1>2. Sound(db) /\ Agrees(db) /\ FiveHour(db)
  BY <1>1, EmptySound
<1>3. RowsInv
  BY <1>1 DEF Init, RowsInv, OneOfATime, StateDefault
<1>4. CycleInv
  BY <1>1 DEF Init, CycleInv, OneOfATime, ArchiveAssumption
<1> QED BY <1>1, <1>2, <1>3, <1>4 DEF Inv, Init

-----------------------------------------------------------------------------
(* The rows that a full cycle adds. *)

WithRow(S, s)    == {t \in S : t.epoch # s.epoch} \cup {s}
WithRows(S, new) == {t \in S : \A h \in new : h.epoch # t.epoch} \cup new

LEMMA ImportedIs ==
    ASSUME NEW d, Whole(d), NEW rows
    PROVE  LET new == {h \in rows : HasPercentage(h)} e == Imported(d, rows) IN
           /\ Whole(e) /\ e.detector = d.detector /\ e.anomalies = d.anomalies
           /\ e.proofs = d.proofs /\ e.events = d.events /\ e.start = d.start /\ e.seen = d.seen
           /\ e.baseline = d.baseline /\ e.active = d.active
           /\ e.snapshots = WithRows(d.snapshots, new)
<1> DEFINE new == {h \in rows : HasPercentage(h)}
           S   == WithRows(d.snapshots, new)
           e   == Imported(d, rows)
<1>1. e = [d EXCEPT !.snapshots = S]
  BY DEF Imported, Whole, Tables, WithRows
<1> HIDE DEF S, e
<1>2. /\ Whole(e) /\ e.detector = d.detector /\ e.anomalies = d.anomalies
      /\ e.proofs = d.proofs /\ e.events = d.events /\ e.start = d.start /\ e.seen = d.seen
      /\ e.baseline = d.baseline /\ e.active = d.active /\ e.snapshots = S
  BY <1>1 DEF Whole, Tables
<1> QED BY <1>2 DEF S, e

LEMMA InsertedIs ==
    ASSUME NEW d, Whole(d), NEW s
    PROVE  LET e == insert_snapshot(d, s) IN
           /\ Whole(e) /\ e.detector = d.detector /\ e.anomalies = d.anomalies
           /\ e.proofs = d.proofs /\ e.events = d.events /\ e.start = d.start /\ e.seen = d.seen
           /\ e.baseline = d.baseline /\ e.active = d.active
           /\ e.snapshots = WithRow(d.snapshots, s)
<1> DEFINE S == WithRow(d.snapshots, s)
           e == insert_snapshot(d, s)
<1>1. e = [d EXCEPT !.snapshots = S]
  BY DEF insert_snapshot, Whole, Tables, WithRow
<1> HIDE DEF S, e
<1>2. /\ Whole(e) /\ e.detector = d.detector /\ e.anomalies = d.anomalies
      /\ e.proofs = d.proofs /\ e.events = d.events /\ e.start = d.start /\ e.seen = d.seen
      /\ e.baseline = d.baseline /\ e.active = d.active /\ e.snapshots = S
  BY <1>1 DEF Whole, Tables
<1> QED BY <1>2 DEF S, e

(* Nothing else of an archive depends on its rows. *)
LEMMA OtherRowsSound ==
    ASSUME NEW d, Sound(d), NEW e, Whole(e), e.detector = d.detector, e.anomalies = d.anomalies,
           e.proofs = d.proofs, e.start = d.start, e.seen = d.seen, e.baseline = d.baseline,
           e.snapshots \subseteq Row
    PROVE  Sound(e)
<1>1. EvidenceOf(e) /\ BaselineOf(e) /\ Detectors(e)
  BY DEF Sound, EvidenceOf, BaselineOf, Detectors
<1> QED BY <1>1 DEF Sound

Filled == insert_snapshot(Imported(db, ToImport), sample)

LEMMA FilledIs ==
    ASSUME Inv, stage = "archive"
    PROVE  /\ Sound(Filled) /\ Filled.seen = db.seen /\ Filled.proofs = db.proofs
           /\ Filled.anomalies = db.anomalies /\ Filled.detector = db.detector
           /\ sample \in Filled.snapshots /\ sample \in Row /\ sample.epoch \in Nat \ {0}
           /\ OneOfATime(Filled.snapshots) /\ \A t \in Filled.snapshots : t.epoch <= sample.epoch
           /\ db.snapshots \subseteq Filled.snapshots \/ ~migrated
           /\ ~migrated => \A h \in history : HasPercentage(h) => h \in Filled.snapshots
<1> DEFINE new == {h \in ToImport : HasPercentage(h)}
           i   == Imported(db, ToImport)
           S   == WithRows(db.snapshots, new)
           f   == insert_snapshot(i, sample)
<1>1. Whole(db)
  BY DEF Inv, Sound
<1>2. /\ Whole(i) /\ i.detector = db.detector /\ i.anomalies = db.anomalies
      /\ i.proofs = db.proofs /\ i.start = db.start /\ i.seen = db.seen
      /\ i.baseline = db.baseline
  BY <1>1, ImportedIs
<1>3. i.snapshots = S
  BY <1>1, ImportedIs
<1> HIDE DEF i
<1>4. /\ Whole(f) /\ f.detector = i.detector /\ f.anomalies = i.anomalies
      /\ f.proofs = i.proofs /\ f.start = i.start /\ f.seen = i.seen
      /\ f.baseline = i.baseline
  BY <1>2, InsertedIs
<1>5. f.snapshots = WithRow(S, sample)
  BY <1>2, <1>3, InsertedIs
<1>6. Filled = f
  BY DEF Filled, i
<1> HIDE DEF f, new, S
<1>7. sample \in Row /\ sample.epoch \in Nat \ {0}
  BY DEF Inv, CycleInv
<1>8. /\ new \subseteq history /\ (migrated => new = {})
      /\ (~migrated => \A h \in history : HasPercentage(h) => h \in new)
  BY DEF new, ToImport
<1>9. \A h \in history : h \in Row /\ h.epoch < sample.epoch
  BY DEF Inv, CycleInv
<1>10. \A t \in db.snapshots : t \in Row /\ t.epoch < sample.epoch
  <2>1. \A t \in db.snapshots : t \in Row /\ t.epoch \in Nat /\ t.epoch <= db.seen
    BY DEF Inv, RowsInv, Sound, Row
  <2>2. db.seen \in Nat /\ db.seen < sample.epoch
    BY DEF Inv, CycleInv, Sound
  <2> QED BY <1>7, <2>1, <2>2
<1>11. S = {t \in db.snapshots : \A h \in new : h.epoch # t.epoch} \cup new
  BY DEF S, WithRows
<1>12. \A t \in S : t \in Row /\ t.epoch < sample.epoch
  BY <1>8, <1>9, <1>10, <1>11
<1>13. OneOfATime(S)
  <2>1. OneOfATime(db.snapshots) /\ OneOfATime(history)
    BY DEF Inv, RowsInv, CycleInv
  <2> QED BY <1>8, <1>11, <2>1 DEF OneOfATime
<1>14. f.snapshots = S \cup {sample}
  BY <1>5, <1>7, <1>12 DEF Row, WithRow
<1>15. OneOfATime(f.snapshots)
  BY <1>7, <1>12, <1>13, <1>14 DEF OneOfATime, Row
<1>16. f.snapshots \subseteq Row /\ \A t \in f.snapshots : t.epoch <= sample.epoch
  BY <1>7, <1>12, <1>14 DEF Row
<1>17. Sound(f)
  BY <1>2, <1>4, <1>16, OtherRowsSound DEF Inv
<1>18. migrated => db.snapshots \subseteq f.snapshots
  BY <1>8, <1>11, <1>14
<1>19. ~migrated => \A h \in history : HasPercentage(h) => h \in f.snapshots
  BY <1>8, <1>11, <1>14
<1> QED BY <1>2, <1>4, <1>6, <1>7, <1>14, <1>15, <1>16, <1>17, <1>18, <1>19

-----------------------------------------------------------------------------
(* What a full cycle makes of the archive. *)

Ingested == rebuild_reset_events(compact(process_snapshot(Filled, sample)))

LEMMA IngestedIs ==
    ASSUME ArchiveAssumption, Inv, stage = "archive"
    PROVE  LET r == Ingested IN
           /\ Sound(r) /\ Agrees(r) /\ FiveHour(r) /\ r.seen = sample.epoch
           /\ sample \in r.snapshots /\ r.snapshots \subseteq Filled.snapshots
           /\ Anchor(r) = sample.epoch /\ Cutoff(r) \in Int
           /\ \A t \in r.snapshots : t.epoch >= Cutoff(r)
           /\ \A t \in Filled.snapshots : t.epoch >= sample.epoch - RecentSpan /\ t.epoch >= Cutoff(r)
                                             => t \in r.snapshots
           /\ \A p \in db.proofs : p.at >= Cutoff(r) => p \in r.proofs
           /\ \A a \in db.anomalies : ~a.journaled => a \in r.anomalies
           /\ \A k \in Ids \X Windows : db.detector[k].known /\ k[1] = r.active => r.detector[k].known
<1> DEFINE f == Filled
           e == process_snapshot(f, sample)
           c == compact(e)
           r == rebuild_reset_events(c)
<1>1. /\ Sound(f) /\ f.seen = db.seen /\ f.proofs = db.proofs
      /\ f.anomalies = db.anomalies /\ f.detector = db.detector
      /\ sample \in f.snapshots /\ sample \in Row /\ sample.epoch \in Nat \ {0}
      /\ \A t \in f.snapshots : t.epoch <= sample.epoch
  BY FilledIs
<1>2. Ingested = r
  BY DEF Ingested
<1> HIDE DEF f
<1>3. f.seen <= sample.epoch /\ (f.seen = 0 => \A k \in Ids \X Windows : ~f.detector[k].known)
  BY <1>1 DEF Inv, CycleInv, RowsInv
<1>4. Sound(e) /\ Grown(f, e) /\ e.seen = sample.epoch
  BY <1>1, <1>3, ProcessGrown
<1> HIDE DEF e
<1>5. Whole(e) /\ e.snapshots = f.snapshots /\ e.snapshots \subseteq Row
  BY <1>4 DEF Sound, Grown
<1>6. /\ c.snapshots \subseteq e.snapshots /\ sample \in c.snapshots
      /\ Anchor(c) = sample.epoch /\ Cutoff(c) = Cutoff(e) /\ Cutoff(e) \in Int
      /\ \A t \in c.snapshots : t.epoch >= Cutoff(e)
      /\ \A t \in e.snapshots : t.epoch >= sample.epoch - RecentSpan /\ t.epoch >= Cutoff(e)
                                    => t \in c.snapshots
  BY <1>1, <1>5, CompactRows
<1>7. /\ c.active = e.active
      /\ \A p \in e.proofs : p.at >= Cutoff(e) => p \in c.proofs
      /\ \A a \in e.anomalies : ~a.journaled => a \in c.anomalies
  BY <1>5, CompactIs
<1>8. c.detector = [k \in DOMAIN e.detector |-> IF IsStale(e, k) THEN StateDefault ELSE e.detector[k]]
  BY <1>5, CompactIs
<1>9. Sound(c) /\ c.seen = e.seen
  BY <1>4, <1>6, CompactSound
<1> HIDE DEF c
<1>10. /\ r.seen = c.seen /\ r.active = c.active /\ r.snapshots = c.snapshots /\ r.proofs = c.proofs
       /\ r.anomalies = c.anomalies /\ r.detector = c.detector
  BY <1>9, RebuildIs DEF Sound
<1>11. Sound(r) /\ Agrees(r) /\ FiveHour(r)
  BY <1>9, RebuildSound, RebuildAgrees DEF Sound
<1> HIDE DEF r
<1>12. Anchor(r) = Anchor(c)
  BY <1>10 DEF Anchor
<1>13. Cutoff(r) = Cutoff(e)
  BY <1>6, <1>12 DEF Cutoff
<1>14. ASSUME NEW k \in Ids \X Windows, db.detector[k].known, k[1] = r.active
       PROVE  r.detector[k].known
  <2>1. ~IsStale(e, k)
    BY <1>7, <1>10, <1>14 DEF IsStale
  <2>2. e.detector[k].known /\ k \in DOMAIN e.detector
    BY <1>1, <1>4, <1>14 DEF Grown, Sound, Detectors
  <2> QED BY <1>8, <1>10, <2>1, <2>2
<1>15. /\ \A p \in db.proofs : p.at >= Cutoff(r) => p \in r.proofs
       /\ \A a \in db.anomalies : ~a.journaled => a \in r.anomalies
  BY <1>1, <1>4, <1>7, <1>10, <1>13 DEF Grown
<1>16. /\ r.snapshots \subseteq f.snapshots /\ Anchor(r) = sample.epoch /\ Cutoff(r) \in Int
       /\ \A t \in r.snapshots : t.epoch >= Cutoff(r)
       /\ \A t \in f.snapshots : t.epoch >= sample.epoch - RecentSpan /\ t.epoch >= Cutoff(r)
                                     => t \in r.snapshots
  BY <1>5, <1>6, <1>10, <1>12, <1>13
<1> QED BY <1>2, <1>4, <1>6, <1>9, <1>10, <1>11, <1>14, <1>15, <1>16 DEF f

LEMMA IngestInv == ASSUME ArchiveAssumption, Inv, ingest PROVE Inv'
<1> DEFINE r == Ingested
<1>1. /\ stage = "archive" /\ db' = r /\ database' = "good" /\ migrated' = TRUE /\ stage' = "store"
      /\ inserted' = inserted \cup Filled.snapshots /\ history' = history /\ sample' = sample
  BY DEF ingest, Ingested, Filled
<1>2. /\ Sound(r) /\ Agrees(r) /\ FiveHour(r) /\ r.seen = sample.epoch
      /\ sample \in r.snapshots /\ r.snapshots \subseteq Filled.snapshots
      /\ Anchor(r) = sample.epoch /\ Cutoff(r) \in Int
      /\ \A t \in r.snapshots : t.epoch >= Cutoff(r)
      /\ \A t \in Filled.snapshots : t.epoch >= sample.epoch - RecentSpan /\ t.epoch >= Cutoff(r)
                                         => t \in r.snapshots
  BY <1>1, IngestedIs
<1>3. /\ Sound(Filled) /\ sample \in Row /\ sample.epoch \in Nat \ {0}
      /\ OneOfATime(Filled.snapshots) /\ \A t \in Filled.snapshots : t.epoch <= sample.epoch
      /\ db.snapshots \subseteq Filled.snapshots \/ ~migrated
  BY <1>1, FilledIs
<1> HIDE DEF r
<1>4. Sound(db)' /\ Agrees(db)' /\ FiveHour(db)'
  BY <1>1, <1>2
<1>5. \A t \in inserted' : t.epoch >= Anchor(r) - RecentSpan /\ t.epoch >= Cutoff(r) => t \in r.snapshots
  <2> SUFFICES ASSUME NEW t \in inserted, t.epoch >= sample.epoch - RecentSpan, t.epoch >= Cutoff(r)
               PROVE  t \in Filled.snapshots
    BY <1>1, <1>2
  <2>1. migrated /\ t.epoch \in Nat
    BY DEF Inv, RowsInv, Row
  <2>2. PICK s \in db.snapshots : \A u \in db.snapshots : u.epoch <= s.epoch
    BY <2>1 DEF Inv, RowsInv
  <2>3. Anchor(db) = s.epoch /\ s.epoch \in Nat /\ s.epoch <= db.seen
    BY <2>2, AnchorIs DEF Inv, RowsInv, Sound, Row
  <2>4. db.seen \in Nat /\ db.seen <= sample.epoch
    BY DEF Inv, Sound, CycleInv
  <2>5. t.epoch >= Anchor(db) - RecentSpan
    BY <1>3, <2>1, <2>3, <2>4 DEF ArchiveAssumption
  <2>6. Cutoff(db) <= Cutoff(r)
    BY <1>2, <1>3, <2>3, <2>4 DEF Cutoff, ArchiveAssumption
  <2>7. t.epoch >= Cutoff(db)
    BY <1>2, <2>1, <2>3, <2>6 DEF Cutoff, ArchiveAssumption
  <2>8. t \in db.snapshots
    BY <2>1, <2>5, <2>7 DEF Inv, RowsInv, RecentSpared
  <2> QED BY <1>3, <2>1, <2>8
<1>6. RowsInv'
  <2>1. OneOfATime(r.snapshots) /\ \A t \in r.snapshots : t.epoch <= r.seen
    BY <1>2, <1>3 DEF OneOfATime
  <2>2. inserted' \subseteq Row /\ r.snapshots \subseteq inserted'
    BY <1>1, <1>2, <1>3 DEF Inv, RowsInv, Sound
  <2>3. \E s \in r.snapshots : \A t \in r.snapshots : t.epoch <= s.epoch
    BY <1>2, <1>3
  <2>4. r.seen # 0
    BY <1>2, <1>3
  <2> QED BY <1>1, <1>2, <1>5, <2>1, <2>2, <2>3, <2>4 DEF RowsInv, RecentSpared
<1>7. CycleInv'
  <2>1. r.seen <= sample.epoch
    BY <1>2, <1>3
  <2> QED BY <1>1, <1>3, <2>1 DEF Inv, CycleInv
<1> QED BY <1>1, <1>4, <1>6, <1>7 DEF Inv

LEMMA IngestKeeps == ASSUME ArchiveAssumption, Inv, ingest PROVE Keeps
<1> DEFINE r == Ingested
<1>1. stage = "archive" /\ db' = r
  BY DEF ingest, Ingested, Filled
<1>2. /\ Sound(r) /\ Agrees(r) /\ sample \in r.snapshots /\ Anchor(r) = sample.epoch
      /\ \A t \in Filled.snapshots : t.epoch >= sample.epoch - RecentSpan /\ t.epoch >= Cutoff(r)
                                         => t \in r.snapshots
      /\ \A p \in db.proofs : p.at >= Cutoff(r) => p \in r.proofs
      /\ \A a \in db.anomalies : ~a.journaled => a \in r.anomalies
      /\ \A k \in Ids \X Windows : db.detector[k].known /\ k[1] = r.active => r.detector[k].known
  BY <1>1, IngestedIs
<1>3. ~migrated => \A h \in history : HasPercentage(h) => h \in Filled.snapshots
  BY <1>1, FilledIs
<1> HIDE DEF r
<1>4. ProvenStay
  <2> SUFFICES ASSUME NEW e \in db.events, Proven(e), e.at >= Cutoff(r)
               PROVE  \E f \in r.events : f.window = "weekly" /\ f.at = e.at
    BY <1>1, <1>2 DEF ProvenStay
  <2>1. PICK p \in r.proofs : p.at = e.at
    BY <1>2 DEF Proven
  <2>2. PICK m : ShownBy(r.proofs, e.at, m)
    BY <1>2, <2>1, ProofSettles DEF Settled, Sound, EvidenceOf
  <2>3. Event("weekly", e.at, m) \in r.events
    BY <1>2, <2>2 DEF Agrees, Given
  <2> QED BY <2>3, EventIs
<1>5. OwedStay
  BY <1>1, <1>2 DEF OwedStay
<1>6. ActiveStays
  <2> SUFFICES ASSUME NEW w \in Windows, db.active \in Ids, db.detector[<<db.active, w>>].known,
                      r.active = db.active
               PROVE  r.detector[<<db.active, w>>].known
    BY <1>1 DEF ActiveStays
  <2>1. <<db.active, w>> \in Ids \X Windows /\ <<db.active, w>>[1] = r.active
    OBVIOUS
  <2> QED BY <1>2, <2>1
<1>7. HistoryComesBack
  BY <1>1, <1>2, <1>3 DEF HistoryComesBack, Inv
<1> QED BY <1>4, <1>5, <1>6, <1>7 DEF Keeps

-----------------------------------------------------------------------------
(* A live observation. *)

LEMMA ObserveSteps == ASSUME Inv, observe PROVE Inv' /\ Grown(db, db')
<1>1. /\ stage = "observe" /\ database # "corrupt" /\ database' = "good" /\ stage' = "idle"
      /\ migrated' = migrated /\ history' = history /\ sample' = sample /\ inserted' = inserted
  BY DEF observe
<1>2. db' = process_snapshot(db, sample)
  BY DEF observe
<1>3. sample \in Row /\ sample.epoch \in Nat \ {0} /\ db.seen <= sample.epoch
  BY <1>1 DEF Inv, CycleInv
<1>4. db.seen = 0 => \A k \in Ids \X Windows : ~db.detector[k].known
  BY DEF Inv, RowsInv
<1> DEFINE e == process_snapshot(db, sample)
<1>5. /\ Sound(e) /\ Grown(db, e) /\ e.seen = sample.epoch /\ Agrees(e)
  BY <1>3, <1>4, ProcessGrown DEF Inv, RowsInv
<1>6. db' = e
  BY <1>2
<1> HIDE DEF e
<1>7. e.snapshots = db.snapshots
  BY <1>5 DEF Grown
<1>8. FiveHour(e)
  BY <1>5, <1>7 DEF Grown, FiveHour, Inv
<1>9. Sound(db)' /\ Agrees(db)' /\ FiveHour(db)'
  BY <1>5, <1>6, <1>8
<1>10. Anchor(e) = Anchor(db) /\ Cutoff(e) = Cutoff(db)
  BY <1>7 DEF Anchor, Cutoff
<1>11. RowsInv'
  <2>1. OneOfATime(e.snapshots) /\ \A t \in e.snapshots : t.epoch <= e.seen
    <3>1. \A t \in db.snapshots : t.epoch \in Nat /\ t.epoch <= db.seen
      BY DEF Inv, RowsInv, Sound, Row
    <3>2. db.seen \in Nat
      BY DEF Inv, Sound
    <3>3. \A t \in db.snapshots : t.epoch <= sample.epoch
      BY <1>3, <3>1, <3>2
    <3> QED BY <1>5, <1>7, <3>3 DEF Inv, RowsInv
  <2>2. e.seen # 0
    BY <1>3, <1>5
  <2>3. RecentSpared => RecentSpared'
    BY <1>1, <1>6, <1>7, <1>10 DEF RecentSpared
  <2>4. \A s \in db.snapshots : s.epoch >= Cutoff(db) => s.epoch >= Cutoff(e)
    BY <1>10
  <2>5. /\ inserted \subseteq Row /\ db.snapshots \subseteq inserted
        /\ IF migrated THEN /\ \E s \in db.snapshots : \A t \in db.snapshots : t.epoch <= s.epoch
                            /\ \A s \in db.snapshots : s.epoch >= Cutoff(db)
                            /\ RecentSpared
           ELSE db.snapshots = {} /\ inserted = {}
    BY DEF Inv, RowsInv
  <2> QED BY <1>1, <1>6, <1>7, <2>1, <2>2, <2>3, <2>4, <2>5 DEF RowsInv
<1>12. CycleInv'
  <2>1. e.seen <= sample.epoch
    BY <1>3, <1>5
  <2> QED BY <1>1, <1>3, <1>6, <2>1 DEF Inv, CycleInv
<1>13. migrated' \in BOOLEAN
  BY <1>1 DEF Inv
<1>14. Inv'
  BY <1>1, <1>9, <1>11, <1>12, <1>13 DEF Inv
<1> QED BY <1>5, <1>6, <1>14

(* Evidence that stays shows its reset. *)
LEMMA GrownKeeps ==
    ASSUME Inv, Sound(db'), Agrees(db'), Grown(db, db'), stage # "archive" \/ database # "absent"
    PROVE  Keeps
<1>1. ProvenStay
  <2> SUFFICES ASSUME NEW e \in db.events, Proven(e)
               PROVE  \E f \in db'.events : f.window = "weekly" /\ f.at = e.at
    BY DEF ProvenStay
  <2>1. PICK p \in db'.proofs : p.at = e.at
    BY DEF Proven, Grown
  <2>2. PICK m : ShownBy(db'.proofs, e.at, m)
    BY <2>1, ProofSettles DEF Settled, Sound, EvidenceOf
  <2>3. Event("weekly", e.at, m) \in db'.events
    BY <2>2 DEF Agrees, Given
  <2> QED BY <2>3, EventIs
<1>2. OwedStay
  BY DEF OwedStay, Grown
<1>3. ActiveStays
  <2> SUFFICES ASSUME NEW w \in Windows, db.active \in Ids, db.detector[<<db.active, w>>].known
               PROVE  db'.detector[<<db.active, w>>].known
    BY DEF ActiveStays
  <2>1. <<db.active, w>> \in Ids \X Windows
    OBVIOUS
  <2> QED BY <2>1 DEF Grown
<1>4. HistoryComesBack
  BY DEF HistoryComesBack
<1> QED BY <1>1, <1>2, <1>3, <1>4 DEF Keeps

(* Neither a step that leaves the archive alone. *)
LEMMA SameKeeps ==
    ASSUME Inv, db' = db, database' = database \/ stage # "archive"
    PROVE  Keeps
<1>1. Grown(db, db')
  BY DEF Grown
<1>2. Sound(db') /\ Agrees(db')
  BY DEF Inv
<1>3. CASE stage # "archive" \/ database # "absent"
  BY <1>1, <1>2, <1>3, GrownKeeps
<1>4. CASE stage = "archive" /\ database = "absent" /\ database' = database
  BY <1>4 DEF Keeps, ProvenStay, OwedStay, ActiveStays, HistoryComesBack
<1> QED BY <1>3, <1>4

LEMMA SameInv ==
    ASSUME Inv, db' = db, migrated' = migrated, inserted' = inserted, CycleInv',
           database' \in {"absent", "good", "corrupt"}, database' = "absent" => database = "absent"
    PROVE  Inv'
<1>1. RowsInv'
  BY DEF Inv, RowsInv, RecentSpared
<1>2. Sound(db)' /\ Agrees(db)' /\ FiveHour(db)'
  BY DEF Inv
<1>3. migrated' \in BOOLEAN /\ (database' = "absent" => db' = EmptyArchive /\ ~migrated')
  BY DEF Inv
<1> QED BY <1>1, <1>2, <1>3 DEF Inv

LEMMA CorruptSteps == ASSUME ArchiveAssumption, Inv, backup_corrupt_database PROVE Inv' /\ Keeps
<1>1. /\ database' = "absent" /\ db' = EmptyArchive /\ migrated' = FALSE /\ inserted' = {}
      /\ stage = "archive" /\ stage' = stage /\ sample' = sample /\ history' = history
      /\ database = "corrupt"
  BY DEF backup_corrupt_database
<1>2. Sound(db)' /\ Agrees(db)' /\ FiveHour(db)'
  BY <1>1, EmptySound
<1>3. /\ EmptyArchive.snapshots = {} /\ EmptyArchive.seen = 0
      /\ EmptyArchive.detector = [k \in Ids \X Windows |-> StateDefault]
  BY DEF EmptyArchive
<1>4. RowsInv'
  BY <1>1, <1>3 DEF RowsInv, OneOfATime, StateDefault
<1>5. CycleInv'
  BY <1>1, <1>3 DEF Inv, CycleInv
<1>6. Inv'
  BY <1>1, <1>2, <1>4, <1>5 DEF Inv
<1>7. Keeps
  BY <1>1 DEF Keeps, ProvenStay, OwedStay, ActiveStays, HistoryComesBack
<1> QED BY <1>6, <1>7

LEMMA JournaledSteps == ASSUME Inv, mark_journaled PROVE Inv' /\ Keeps
<1>1. /\ stage = "idle" /\ database = "good" /\ database' = database /\ migrated' = migrated
      /\ history' = history /\ stage' = stage /\ sample' = sample /\ inserted' = inserted
  BY DEF mark_journaled
<1>2. PICK a \in db.anomalies :
          db' = [db EXCEPT !.anomalies = (@ \ {a}) \cup {[a EXCEPT !.journaled = TRUE]}]
  BY DEF mark_journaled
<1> DEFINE b == [a EXCEPT !.journaled = TRUE]
           A == (db.anomalies \ {a}) \cup {b}
           e == [db EXCEPT !.anomalies = A]
<1>3. /\ WholeAnomaly(b) /\ b.owner = a.owner /\ b.window = a.window /\ b.kind = a.kind
      /\ b.episode = a.episode
  <2>1. WholeAnomaly(a)
    BY DEF Inv, Sound
  <2> QED BY <2>1 DEF WholeAnomaly, AnomalyFields
<1>4. db' = e
  BY <1>2 DEF Inv, Sound, Whole, Tables
<1> HIDE DEF b, A
<1>5. /\ Whole(e) /\ e.detector = db.detector /\ e.anomalies = A
      /\ e.proofs = db.proofs /\ e.events = db.events /\ e.start = db.start /\ e.seen = db.seen
      /\ e.baseline = db.baseline /\ e.active = db.active /\ e.snapshots = db.snapshots
  BY DEF Inv, Sound, Whole, Tables
<1> HIDE DEF e
<1>6. Sound(e)
  <2>1. EvidenceOf(e) /\ BaselineOf(e) /\ Detectors(e)
    BY <1>5 DEF Inv, Sound, EvidenceOf, BaselineOf, Detectors
  <2>2. \A x \in e.anomalies : WholeAnomaly(x)
    BY <1>3, <1>5 DEF Inv, Sound, A
  <2> QED BY <1>5, <2>1, <2>2 DEF Inv, Sound
<1>7. Agrees(e)
  BY <1>5, SameAgrees DEF Inv
<1>8. FiveHour(e)
  BY <1>5 DEF Inv, FiveHour
<1>9. Sound(db)' /\ Agrees(db)' /\ FiveHour(db)'
  BY <1>4, <1>6, <1>7, <1>8
<1>10. Anchor(e) = Anchor(db) /\ Cutoff(e) = Cutoff(db)
  BY <1>5 DEF Anchor, Cutoff
<1>11. RowsInv'
  BY <1>1, <1>4, <1>5, <1>10 DEF Inv, RowsInv, RecentSpared
<1>12. CycleInv'
  BY <1>1, <1>4, <1>5 DEF Inv, CycleInv
<1>13. Inv'
  BY <1>1, <1>9, <1>11, <1>12 DEF Inv
<1>14. ProvenStay
  <2> SUFFICES ASSUME NEW x \in db.events, Proven(x)
               PROVE  \E f \in e.events : f.window = "weekly" /\ f.at = x.at
    BY <1>4 DEF ProvenStay
  <2>1. x.window = "weekly"
    BY DEF Proven
  <2> QED BY <1>5, <2>1
<1>15. OwedStay
  <2> SUFFICES ASSUME NEW x \in db.anomalies
               PROVE  \E y \in A : /\ y.owner = x.owner /\ y.window = x.window
                                    /\ y.kind = x.kind /\ y.episode = x.episode
    BY <1>4, <1>5 DEF OwedStay
  <2> QED BY <1>3 DEF A
<1>16. ActiveStays
  BY <1>4, <1>5 DEF ActiveStays
<1>17. HistoryComesBack
  BY <1>1 DEF HistoryComesBack
<1> QED BY <1>13, <1>14, <1>15, <1>16, <1>17 DEF Keeps

-----------------------------------------------------------------------------
(* The steps of a cycle that leave the archive alone. *)

Aside == db' = db /\ migrated' = migrated /\ inserted' = inserted /\ database' = database

LEMMA AsideSteps == ASSUME Inv, Aside, CycleInv' PROVE Inv' /\ Keeps
<1>1. Inv'
  BY SameInv DEF Aside, Inv
<1>2. Keeps
  BY SameKeeps DEF Aside
<1> QED BY <1>1, <1>2

LEMMA ScrapeSteps == ASSUME ArchiveAssumption, Inv, run_cycle PROVE Inv' /\ Keeps
<1>1. PICK t \in Steps, a \in Alphabet, next \in {"archive", "observe"} :
          Scrape([epoch |-> sample.epoch + t, owner |-> a.owner, pct |-> a.pct, reset |-> a.reset], next)
  BY DEF run_cycle
<1> DEFINE s == [epoch |-> sample.epoch + t, owner |-> a.owner, pct |-> a.pct, reset |-> a.reset]
<1>2. stage' = next /\ sample' = s /\ history' = history /\ Aside
  BY <1>1 DEF Scrape, Aside
<1>3. t \in Nat \ {0} /\ a \in Reading
  BY DEF ArchiveAssumption
<1>4. sample.epoch \in Nat
  BY DEF Inv, CycleInv
<1>5. s \in Row /\ s.epoch = sample.epoch + t
  <2>1. a.owner \in Ids /\ a.pct \in [Windows -> Int] /\ a.reset \in [Windows -> Int]
    BY <1>3 DEF Reading
  <2>2. sample.epoch + t \in Nat
    BY <1>3, <1>4
  <2> QED BY <2>1, <2>2 DEF Row
<1> HIDE DEF s
<1>6. CycleInv'
  <2>1. db.seen \in Nat /\ db.seen <= sample.epoch
    BY DEF Inv, CycleInv, Sound
  <2>2. db.seen < s.epoch /\ s.epoch \in Nat /\ s.epoch # 0
    BY <1>3, <1>4, <1>5, <2>1
  <2>3. \A h \in history : h.epoch \in Nat /\ h.epoch <= sample.epoch
    BY DEF Inv, CycleInv, Row
  <2>4. \A h \in history : h.epoch < s.epoch /\ h.epoch <= s.epoch
    BY <1>3, <1>4, <1>5, <2>3
  <2>5. history \subseteq Row /\ OneOfATime(history)
    BY DEF Inv, CycleInv
  <2>6. db' = db
    BY <1>2 DEF Aside
  <2>7. db.seen <= s.epoch
    BY <2>1, <2>2
  <2> QED BY <1>2, <1>5, <2>2, <2>4, <2>5, <2>6, <2>7 DEF CycleInv
<1> QED BY <1>2, <1>6, AsideSteps

(* A cycle that fails or dies goes on with what it had read. *)
LEMMA StageSteps ==
    ASSUME Inv, Aside, history' = history, sample' = sample,
           stage' \in {"idle", "store", "observe"}, stage' = "store" => stage = "archive",
           stage' # "idle" => stage # "idle"
    PROVE  Inv' /\ Keeps
<1>1. CycleInv'
  BY DEF Inv, CycleInv, Aside
<1> QED BY <1>1, AsideSteps

LEMMA HistorySteps == ASSUME ArchiveAssumption, Inv, update_history PROVE Inv' /\ Keeps
<1> DEFINE S == {h \in history \cup {sample} : h.epoch >= sample.epoch - HistorySpan}
<1>1. /\ stage = "store" /\ stage' = "observe" /\ sample' = sample /\ history' = S /\ Aside
  BY DEF update_history, Aside
<1>2. sample \in Row /\ sample.epoch # 0 /\ sample.epoch \in Nat
  BY <1>1 DEF Inv, CycleInv
<1>3. history \subseteq Row /\ OneOfATime(history) /\ \A h \in history : h.epoch < sample.epoch
  BY <1>1 DEF Inv, CycleInv
<1>4. S \subseteq Row /\ S \subseteq history \cup {sample}
  BY <1>2, <1>3
<1> HIDE DEF S
<1>5. OneOfATime(S)
  <2> SUFFICES ASSUME NEW g \in S, NEW h \in S, g.epoch = h.epoch PROVE g = h
    BY DEF OneOfATime
  <2>1. \A x \in history : x.epoch # sample.epoch
    BY <1>2, <1>3 DEF Row
  <2> QED BY <1>3, <1>4, <2>1 DEF OneOfATime
<1>6. \A h \in S : h.epoch <= sample.epoch
  <2> SUFFICES ASSUME NEW h \in S PROVE h.epoch <= sample.epoch
    OBVIOUS
  <2>1. CASE h = sample
    BY <1>2, <2>1
  <2>2. CASE h \in history
    <3>1. h.epoch \in Nat /\ h.epoch < sample.epoch
      BY <1>3, <2>2 DEF Row
    <3> QED BY <1>2, <3>1
  <2> QED BY <1>4, <2>1, <2>2
<1>7. db' = db /\ db.seen <= sample.epoch
  BY <1>1 DEF Aside, Inv, CycleInv
<1>8. CycleInv'
  BY <1>1, <1>2, <1>4, <1>5, <1>6, <1>7 DEF CycleInv
<1> QED BY <1>1, <1>8, AsideSteps

(* A damaged archive still has the content that is read no more. *)
LEMMA DamageSteps == ASSUME Inv, Corrupts PROVE Inv' /\ Keeps
<1>1. /\ stage = "idle" /\ stage' = "idle" /\ db' = db /\ migrated' = migrated
      /\ inserted' = inserted /\ history' = history /\ sample' = sample
      /\ database = "good" /\ database' = "corrupt"
  BY DEF Corrupts
<1>2. CycleInv'
  BY <1>1 DEF Inv, CycleInv
<1>3. Inv'
  BY <1>1, <1>2, SameInv
<1>4. Keeps
  BY <1>1, SameKeeps
<1> QED BY <1>3, <1>4

-----------------------------------------------------------------------------
(* Every step keeps the invariant, and what is needed. *)

LEMMA NextSteps == ASSUME ArchiveAssumption, Inv, Next PROVE Inv' /\ Keeps
<1>1. CASE run_cycle
  BY <1>1, ScrapeSteps
<1>2. CASE ingest
  BY <1>2, IngestInv, IngestKeeps
<1>3. CASE backup_corrupt_database
  BY <1>3, CorruptSteps
<1>4. CASE ArchiveFails
  <2>1. /\ Aside /\ history' = history /\ sample' = sample
        /\ stage = "archive" /\ stage' = "store"
    BY <1>4 DEF ArchiveFails, Aside
  <2> QED BY <2>1, StageSteps
<1>5. CASE update_history
  BY <1>5, HistorySteps
<1>6. CASE HistoryFails
  <2>1. /\ Aside /\ history' = history /\ sample' = sample
        /\ stage = "store" /\ stage' = "observe"
    BY <1>6 DEF HistoryFails, Aside
  <2> QED BY <2>1, StageSteps
<1>7. CASE observe
  <2>1. Inv' /\ Grown(db, db')
    BY <1>7, ObserveSteps
  <2>2. stage = "observe"
    BY <1>7 DEF observe
  <2>3. Sound(db') /\ Agrees(db')
    BY <2>1 DEF Inv
  <2>4. Keeps
    BY <2>1, <2>2, <2>3, GrownKeeps
  <2> QED BY <2>1, <2>4
<1>8. CASE ObserveFails
  <2>1. /\ Aside /\ history' = history /\ sample' = sample
        /\ stage = "observe" /\ stage' = "idle"
    BY <1>8 DEF ObserveFails, Aside
  <2> QED BY <2>1, StageSteps
<1>9. CASE Dies
  <2>1. Aside /\ history' = history /\ sample' = sample /\ stage' = "idle"
    BY <1>9 DEF Dies, Aside
  <2> QED BY <2>1, StageSteps
<1>10. CASE Corrupts
  BY <1>10, DamageSteps
<1>11. CASE mark_journaled
  BY <1>11, JournaledSteps
<1> QED BY <1>1, <1>2, <1>3, <1>4, <1>5, <1>6, <1>7, <1>8, <1>9, <1>10, <1>11
        DEF Next, Rest, archive_snapshot

LEMMA Stutters == ASSUME Inv, UNCHANGED <<scene, vars>> PROVE Inv'
<1>1. /\ Aside /\ history' = history /\ sample' = sample /\ stage' = stage
  BY DEF vars, Aside
<1>2. CycleInv'
  BY <1>1 DEF Aside, Inv, CycleInv
<1> QED BY <1>1, <1>2, AsideSteps

LEMMA InvAlways == MCSpec => []Inv
<1>1. MCInit => Inv
  BY InitInv, ArchiveAssumption DEF MCInit
<1>2. Inv /\ [MCNext]_<<scene, vars>> => Inv'
  <2>1. ASSUME Inv, MCNext PROVE Inv'
    <3>1. Next
      BY <2>1 DEF MCNext, Cycling, Next
    <3> QED BY <2>1, <3>1, NextSteps, ArchiveAssumption
  <2> QED BY <2>1, Stutters
<1> QED BY <1>1, <1>2, PTL DEF MCSpec

(* The resets the archive shows are what the samples prove: thinning rows    *)
(* never makes a weekly reset once the detector has a baseline, a 5-hour    *)
(* refill is never read across two owners, and rebuild_reset_events after a *)
(* compaction gives the weekly resets that the live cycles recorded.        *)
THEOREM ResetsProven == MCSpec => []ResetsAreProven
<1>1. Inv => ResetsAreProven
  BY InvProves, ArchiveAssumption
<1> QED BY <1>1, InvAlways, PTL

(* No step loses what is still needed: not the compaction a proven reset or  *)
(* an anomaly the alert journal has not taken, not the pruning of states    *)
(* the active detector's, and a lost archive gets back from the rolling     *)
(* history every row that no retention forgets.                             *)
THEOREM NeededKept == MCSpec => NeededIsKept
<1>1. Inv /\ [MCNext]_<<scene, vars>> => [Keeps]_<<scene, vars>>
  <2>1. ASSUME Inv, MCNext PROVE Keeps
    <3>1. Next
      BY <2>1 DEF MCNext, Cycling, Next
    <3> QED BY <2>1, <3>1, NextSteps, ArchiveAssumption
  <2> QED BY <2>1
<1> QED BY <1>1, InvAlways, PTL DEF MCSpec, NeededIsKept
=============================================================================
