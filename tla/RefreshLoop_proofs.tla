------------------------- MODULE RefreshLoop_proofs -------------------------
(***************************************************************************)
(* Proofs about RefreshLoop, for all windows, limit groups, reset times    *)
(* and waits: types, and that a refresh or a reset check reported as done  *)
(* rests on a sample that is young enough.                                 *)
(***************************************************************************)
EXTENDS RefreshLoop, WellFoundedInduction, TLAPS

-----------------------------------------------------------------------------
(* The schedule. *)

(* Reset times are bounded, so there is a latest one in a set of them. *)
LEMMA MaxExists ==
    ASSUME NEW S \in SUBSET (1..MaxTime), S # {}
    PROVE  \E m \in S : \A r \in S : r <= m
<1> DEFINE T    == {MaxTime - r : r \in S}
           Less == OpToRel(<, Nat)
<1>1. MaxTime \in Nat
  BY RefreshAssumption
<1>2. \A r \in S : r \in Nat /\ r <= MaxTime /\ MaxTime - r \in Nat
  BY <1>1
<1>3. T \subseteq Nat /\ T # {}
  BY <1>2
<1>4. IsWellFoundedOn(Less, Nat)
  BY NatLessThanWellFounded
<1>5. PICK x \in T : \A y \in T : ~ (<<y, x>> \in Less)
  BY <1>3, <1>4, WFMin
<1>6. \A y \in Nat : y < x => <<y, x>> \in Less
  BY <1>3 DEF OpToRel
<1>7. PICK m \in S : x = MaxTime - m
  OBVIOUS
<1>8. \A r \in S : r <= m
  <2> SUFFICES ASSUME NEW r \in S, ~(r <= m) PROVE FALSE
    OBVIOUS
  <2>1. MaxTime - r \in T /\ MaxTime - r < x
    BY <1>1, <1>2, <1>7
  <2> QED BY <2>1, <1>3, <1>5, <1>6
<1> QED BY <1>8

(* Latest picks one of the checks that are done. *)
LEMMA LatestIsDone ==
    ASSUME NEW done \in SUBSET Checks, NEW w \in Windows,
           \E c \in done : c[1] = w
    PROVE  Latest(done, w) \in Resets /\ <<w, Latest(done, w)>> \in done
<1> DEFINE S == {r \in Resets : <<w, r>> \in done}
<1>1. \A c \in done : c = <<c[1], c[2]>> /\ c[1] \in Windows /\ c[2] \in Resets
  BY DEF Checks
<1>2. S \in SUBSET (1..MaxTime)
  BY RefreshAssumption
<1>3. S # {}
  BY <1>1
<1>4. PICK m \in S : \A r \in S : r <= m
  BY <1>2, <1>3, MaxExists
<1>5. \A c \in done : c[1] = w => c[2] \in S
  BY <1>1
<1>6. m \in Resets /\ <<w, m>> \in done /\ \A c \in done : c[1] = w => c[2] <= m
  BY <1>4, <1>5
<1> QED BY <1>6 DEF Latest, LatestOf

(* Completing checks keeps a schedule one, and notes no reset but theirs. *)
LEMMA CompletedSchedule ==
    ASSUME NEW s \in Schedules, NEW done \in SUBSET Checks
    PROVE  /\ Completed(s, done) \in Schedules
           /\ Completed(s, done).limit = s.limit
           /\ Completed(s, done).pending = s.pending \ done
           /\ \A w \in Windows :
                 \/ Completed(s, done).completed[w] = s.completed[w]
                 \/ <<w, Completed(s, done).completed[w]>> \in done
<1> DEFINE C   == [w \in Windows |-> IF \E c \in done : c[1] = w /\ c[2] > s.completed[w]
                                     THEN Latest(done, w) ELSE s.completed[w]]
           new == Completed(s, done)
<1>1. ASSUME NEW w \in Windows
      PROVE  C[w] \in Resets \cup {0} /\ (C[w] = s.completed[w] \/ <<w, C[w]>> \in done)
  <2>1. CASE \E c \in done : c[1] = w /\ c[2] > s.completed[w]
    BY <2>1, LatestIsDone
  <2>2. CASE ~ \E c \in done : c[1] = w /\ c[2] > s.completed[w]
    BY <2>2 DEF Schedules
  <2> QED BY <2>1, <2>2
<1>2. C \in [Windows -> Resets \cup {0}]
  BY <1>1
<1>3. new = [s EXCEPT !.pending = s.pending \ done, !.completed = C]
  BY DEF Completed
<1> HIDE DEF C, new
<1>4. s.pending \ done \in SUBSET Checks
  BY DEF Schedules
<1>5. /\ new \in Schedules
      /\ new.limit = s.limit /\ new.pending = s.pending \ done /\ new.completed = C
  BY <1>2, <1>3, <1>4 DEF Schedules
<1> QED BY <1>1, <1>5 DEF new

(* What a schedule calls completed has been sampled after its grace time. *)
Checked(s, d) == \A w \in Windows : s.completed[w] # 0
                                      => d.sampled >= s.completed[w] + Grace

LEMMA CompletedIsChecked ==
    ASSUME NEW s \in Schedules, NEW d \in Snapshots, NEW done \in SUBSET Checks,
           Checked(s, d), \A c \in done : d.sampled >= DueAt(c)
    PROVE  Checked(Completed(s, done), d)
<1> SUFFICES ASSUME NEW w \in Windows, Completed(s, done).completed[w] # 0
             PROVE  d.sampled >= Completed(s, done).completed[w] + Grace
  BY DEF Checked
<1>1. CASE Completed(s, done).completed[w] = s.completed[w]
  BY <1>1 DEF Checked
<1>2. CASE <<w, Completed(s, done).completed[w]>> \in done
  BY <1>2 DEF DueAt
<1> QED BY <1>1, <1>2, CompletedSchedule

(* plan: the new schedule, and which checks it no longer holds. *)
LEMMA PlannedSchedule ==
    ASSUME NEW s \in Schedules, NEW d \in Snapshots
    PROVE  /\ Planned(s, d) \in Schedules
           /\ Checked(s, d) => Checked(Planned(s, d), d)
           /\ \A c \in s.pending \ Planned(s, d).pending :
                 d.sampled >= DueAt(c) \/ Planned(s, d).limit # s.limit \/ c[2] > clock
<1> DEFINE s1   == ForLimit(s, d)
           s2   == [s1 EXCEPT !.pending = (@ \ Replaced(s1, d)) \cup New(s1, d)]
           done == {c \in s2.pending : d.sampled >= DueAt(c)}
<1>1. /\ s1 \in Schedules
      /\ Checked(s, d) => Checked(s1, d)
      /\ s1 = s \/ s1.limit # s.limit
  <2>1. CASE s1 = s
    BY <2>1
  <2>2. CASE d.limit # NoLimit /\ s.limit # d.limit /\ s1 = FreshSchedule(d.limit)
    BY <2>2, RefreshAssumption
    DEF FreshSchedule, Schedules, Snapshots, Checked, Times
  <2> QED BY <2>1, <2>2 DEF ForLimit
<1>2. New(s1, d) \subseteq Checks
  BY DEF New, Announced
<1>3. /\ s2 \in Schedules
      /\ s2.completed = s1.completed /\ s2.limit = s1.limit
      /\ s2.pending = (s1.pending \ Replaced(s1, d)) \cup New(s1, d)
  <2>1. s2.pending = (s1.pending \ Replaced(s1, d)) \cup New(s1, d)
    BY <1>1 DEF Schedules
  <2>2. s2.pending \in SUBSET Checks
    BY <1>1, <1>2, <2>1 DEF Schedules
  <2> QED BY <1>1, <2>1, <2>2 DEF Schedules
<1>4. done \in SUBSET Checks /\ \A c \in done : d.sampled >= DueAt(c)
  BY <1>3 DEF Schedules
<1>5. Planned(s, d) = Completed(s2, done)
  BY DEF Planned
<1>6. Checked(s, d) => Checked(s2, d)
  BY <1>1, <1>3 DEF Checked
<1>7. Completed(s2, done) \in Schedules
  BY <1>3, <1>4, CompletedSchedule
<1>8. Checked(s2, d) => Checked(Completed(s2, done), d)
  BY <1>3, <1>4, CompletedIsChecked
<1>9. \A c \in Replaced(s1, d) : c[2] > clock
  BY DEF Replaced
<1> HIDE DEF s1, s2, done
<1>10. ASSUME NEW c \in s.pending \ Planned(s, d).pending,
             Planned(s, d).limit = s.limit
      PROVE  d.sampled >= DueAt(c) \/ c[2] > clock
  <2>1. Planned(s, d).limit = s2.limit /\ Planned(s, d).pending = s2.pending \ done
    BY <1>3, <1>4, <1>5, CompletedSchedule
  <2>2. s1 = s
    BY <1>1, <1>3, <1>10, <2>1
  <2>3. c \in done \/ c \in Replaced(s1, d)
    BY <1>3, <1>10, <2>1, <2>2
  <2> QED BY <1>4, <1>9, <2>3
<1> QED BY <1>1, <1>5, <1>6, <1>7, <1>8, <1>10

-----------------------------------------------------------------------------
(* The inductive invariant. *)

(* Who holds the lock, and that a collection counts once it was made. *)
Control ==
    /\ lock = "loop" <=> loop.at \in {"collect", "acknowledge", "work"}
    /\ loop.at \notin {"acknowledge", "work", "complete"} => loop.quota = 1
    /\ loop.at # "complete" => loop.cycle # 75

(* A sample is as young as the cycle that published it. *)
Timing ==
    /\ data.sampled <= clock /\ held <= clock /\ loop.now <= clock
    /\ \A i \in Ids : asked[i] <= clock
    /\ lock = "other" \/ loop.at = "collect" => data.sampled <= held
    /\ loop.at = "collect" => loop.now <= held
    /\ loop.quota = 0 => loop.now <= data.sampled

(* A request is known to the loop only after it was made. *)
Naming ==
    /\ request.id <= issued /\ result.id <= issued /\ loop.id <= issued
    /\ loop.id # 0 => asked[loop.id] <= loop.now

(* A request that is being served has not been answered otherwise. *)
Answers ==
    loop.id # 0 /\ result.id = loop.id =>
        /\ loop.at \in {"work", "complete"}
        /\ loop.cycle # 75
        /\ result.success <=> loop.quota = 0

Inv == /\ TypeOK /\ Control /\ Timing /\ Naming /\ Answers
       /\ FreshAnswer /\ CheckedAfterGrace

LEMMA InitInv == Init => Inv
<1> SUFFICES ASSUME Init PROVE Inv
  OBVIOUS
<1>1. /\ MaxTime \in Nat /\ 1 \in Times /\ 0 \in Times /\ 0 \in Ids
      /\ 0 \in 0..MaxManual /\ 0 \in 0..MaxCrashes
  BY RefreshAssumption DEF Times, Ids
<1>2. TypeOK
  BY <1>1 DEF Init, TypeOK, Snapshots, NoData, Schedules, FreshSchedule, LoopStates,
              Started, Iteration
<1>3. Control /\ Naming /\ Answers
  BY <1>1 DEF Init, Control, Naming, Answers, Started, Iteration
<1>4. Timing
  BY DEF Init, Timing, Started, Iteration, NoData
<1>5. FreshAnswer /\ CheckedAfterGrace
  BY DEF Init, FreshAnswer, CheckedAfterGrace, FreshSchedule
<1> QED BY <1>2, <1>3, <1>4, <1>5 DEF Inv

-----------------------------------------------------------------------------
(* Each action preserves the invariant. *)

LEMMA Numbers ==
    /\ MaxTime \in Nat /\ MaxRequests \in Nat /\ Grace \in Nat /\ Timeout \in Nat
    /\ 0 \in Times /\ 0 \in Ids
    /\ \A t \in Times : t \in Nat /\ t <= MaxTime
    /\ \A i \in Ids : i \in Nat /\ i <= MaxRequests
    /\ \A r \in Resets : r \in Nat
BY RefreshAssumption DEF Times, Ids

LEMMA HorizonIsTime == ASSUME NEW t \in Nat PROVE Horizon(t) \in Times
BY RefreshAssumption DEF Horizon, Times

LEMMA NextRegularType ==
    ASSUME TypeOK
    PROVE  NextRegular(loop) \in Times \cup {MaxTime + 1}
<1>1. clock \in Nat /\ Interval \in Nat \ {0} /\ MaxTime \in Nat
  BY RefreshAssumption DEF TypeOK, Times
<1>2. clock % Interval \in 0..(Interval - 1)
  BY <1>1
<1>3. clock + Interval - (clock % Interval) \in Nat
  BY <1>1, <1>2
<1> QED BY <1>1, <1>3 DEF NextRegular, TypeOK, LoopStates, Times

(* The two forms in which an iteration leaves the loop. *)
LEMMA IterationType ==
    ASSUME TypeOK, NEW t \in Times
    PROVE  /\ NextIteration \in LoopStates
           /\ NextIteration.at = "plan" /\ NextIteration.now = 0
           /\ NextIteration.id = 0 /\ NextIteration.quota = 1
           /\ NextIteration.cycle = 0
           /\ Sleeping(t) \in LoopStates
           /\ Sleeping(t).at = "sleep" /\ Sleeping(t).now = 0
           /\ Sleeping(t).id = 0 /\ Sleeping(t).quota = 1
           /\ Sleeping(t).cycle = 0
           /\ Started(t) \in LoopStates
           /\ Started(t).at = "plan" /\ Started(t).now = 0
           /\ Started(t).id = 0 /\ Started(t).quota = 1
           /\ Started(t).cycle = 0
BY Numbers DEF NextIteration, Sleeping, Started, Iteration, TypeOK, LoopStates

LEMMA TickInv == ASSUME Inv, Tick PROVE Inv'
<1> USE DEF Tick, files, locked, asks
<1>1. TypeOK'
  BY RefreshAssumption DEF Inv, TypeOK, Times
<1>2. Control' /\ Naming' /\ Answers' /\ FreshAnswer' /\ CheckedAfterGrace'
  BY DEF Inv, Control, Naming, Answers, FreshAnswer, CheckedAfterGrace
<1>3. Timing'
  BY Numbers DEF Inv, TypeOK, Timing, Snapshots, LoopStates
<1> QED BY <1>1, <1>2, <1>3 DEF Inv

LEMMA PlanInv == ASSUME Inv, Plan PROVE Inv'
<1> USE DEF Plan, locked, asks
<1>1. /\ sched' \in Schedules
      /\ Checked(sched, data) => Checked(sched', data)
  BY PlannedSchedule DEF Inv, TypeOK
<1>2. Requested \in Ids /\ Requested <= issued
      /\ (Requested # 0 => Requested = request.id /\ result.id # Requested)
  BY Numbers DEF Inv, TypeOK, Naming, Requested, ValidRequest
<1>3. CASE loop' = [loop EXCEPT !.at = "lock", !.now = clock, !.id = Requested,
                                !.full = Regular, !.last = clock]
           /\ loop.at = "plan"
  <2>0. Regular \in BOOLEAN
    BY DEF Regular
  <2>1. loop' \in LoopStates
    BY <1>2, <1>3, <2>0 DEF Inv, TypeOK, LoopStates
  <2>2. /\ loop'.at = "lock" /\ loop'.now = clock /\ loop'.id = Requested
        /\ loop'.quota = loop.quota /\ loop'.cycle = loop.cycle
    BY <1>3 DEF Inv, TypeOK, LoopStates
  <2>3. TypeOK'
    BY <1>1, <2>1 DEF Inv, TypeOK
  <2>4. Control'
    BY <1>3, <2>2 DEF Inv, Control
  <2>5. Timing'
    BY <1>3, <2>2, Numbers DEF Inv, Control, Timing, TypeOK
  <2>6. Naming' /\ Answers'
    BY <1>2, <1>3, <2>2 DEF Inv, Naming, Answers, Timing, TypeOK
  <2>7. FreshAnswer' /\ CheckedAfterGrace'
    BY <1>1 DEF Inv, FreshAnswer, CheckedAfterGrace, Checked
  <2> QED BY <2>3, <2>4, <2>5, <2>6, <2>7 DEF Inv
<1>4. CASE loop' = Sleeping(Horizon(clock + 1)) /\ loop.at = "plan"
  <2>1. /\ loop' \in LoopStates /\ loop'.at = "sleep" /\ loop'.now = 0
        /\ loop'.id = 0 /\ loop'.quota = 1 /\ loop'.cycle = 0
    BY <1>4, IterationType, HorizonIsTime, Numbers DEF Inv, TypeOK
  <2>2. TypeOK'
    BY <1>1, <2>1 DEF Inv, TypeOK
  <2>3. Control'
    BY <1>4, <2>1 DEF Inv, Control
  <2>4. Timing'
    BY <1>4, <2>1, Numbers DEF Inv, Timing, TypeOK
  <2>5. Naming' /\ Answers'
    BY <2>1, Numbers DEF Inv, Naming, Answers, TypeOK
  <2>6. FreshAnswer' /\ CheckedAfterGrace'
    BY <1>1 DEF Inv, FreshAnswer, CheckedAfterGrace, Checked
  <2> QED BY <2>2, <2>3, <2>4, <2>5, <2>6 DEF Inv
<1> QED BY <1>3, <1>4

LEMMA LockInv == ASSUME Inv, TakeLock \/ LockIsBusy PROVE Inv'
<1>1. CASE TakeLock
  <2> USE DEF TakeLock, files, locked, asks
  <2>1. /\ loop' \in LoopStates /\ loop'.at = "collect" /\ loop'.now = loop.now
        /\ loop'.id = loop.id /\ loop'.quota = loop.quota
        /\ loop'.cycle = loop.cycle
    BY <1>1 DEF Inv, TypeOK, LoopStates
  <2>2. TypeOK' /\ Control'
    BY <1>1, <2>1 DEF Inv, TypeOK, Control
  <2>3. Timing'
    BY <1>1, <2>1, Numbers DEF Inv, Timing, TypeOK, Control
  <2>4. Naming' /\ Answers' /\ FreshAnswer' /\ CheckedAfterGrace'
    BY <1>1, <2>1 DEF Inv, Naming, Answers, FreshAnswer, CheckedAfterGrace
  <2> QED BY <2>2, <2>3, <2>4 DEF Inv
<1>2. CASE LockIsBusy
  <2> USE DEF LockIsBusy, files, locked, asks
  <2>1. /\ loop' \in LoopStates /\ loop'.at = "complete" /\ loop'.now = loop.now
        /\ loop'.id = loop.id /\ loop'.quota = loop.quota
    BY <1>2, NextRegularType DEF Inv, TypeOK, LoopStates
  <2>2. TypeOK' /\ Control'
    BY <1>2, <2>1 DEF Inv, TypeOK, Control
  <2>3. Timing'
    BY <1>2, <2>1 DEF Inv, Timing, Control
  <2>4. Naming' /\ Answers' /\ FreshAnswer' /\ CheckedAfterGrace'
    BY <1>2, <2>1 DEF Inv, Naming, Answers, FreshAnswer, CheckedAfterGrace
  <2> QED BY <2>2, <2>3, <2>4 DEF Inv
<1> QED BY <1>1, <1>2

(* A sample taken under the lock is younger than the published one. *)
LEMMA YoungerIsChecked ==
    ASSUME Inv, data' \in Snapshots, data'.sampled >= data.sampled, UNCHANGED sched
    PROVE  CheckedAfterGrace'
<1> SUFFICES ASSUME NEW w \in Windows, sched.completed[w] # 0
             PROVE  data'.sampled >= sched.completed[w] + Grace
  BY DEF CheckedAfterGrace
<1>1. /\ data'.sampled \in Nat /\ data.sampled \in Nat
      /\ sched.completed[w] + Grace \in Nat
  BY Numbers DEF Inv, TypeOK, Snapshots, Schedules
<1>2. data.sampled >= sched.completed[w] + Grace
  BY DEF Inv, CheckedAfterGrace
<1> QED BY <1>1, <1>2

LEMMA SamplesAreYounger ==
    ASSUME Inv, lock # "free", lock = "other" \/ loop.at = "collect",
           NEW d \in Samples(held)
    PROVE  /\ d \in Snapshots /\ d.sampled >= held /\ d.sampled <= clock
           /\ d.sampled >= data.sampled
<1>1. /\ held \in Nat /\ clock \in Nat /\ clock <= MaxTime /\ MaxTime \in Nat
      /\ data.sampled \in Nat
  BY Numbers DEF Inv, TypeOK, Snapshots
<1>2. /\ d.sampled \in held..clock
      /\ d = [limit |-> d.limit, reset |-> d.reset, sampled |-> d.sampled]
      /\ d.limit \in Limits /\ d.reset \in [Windows -> Resets \cup {0}]
  BY DEF Samples
<1>3. d.sampled \in Times
  BY <1>1, <1>2 DEF Times
<1>4. d \in Snapshots
  BY <1>2, <1>3 DEF Snapshots
<1> QED BY <1>1, <1>2, <1>4 DEF Inv, Timing

LEMMA CollectInv == ASSUME Inv, Collect \/ CollectFails PROVE Inv'
<1>1. CASE Collect
  <2> USE DEF Collect, locked, asks
  <2>1. /\ loop' \in LoopStates /\ loop'.at = "acknowledge" /\ loop'.now = loop.now
        /\ loop'.id = loop.id /\ loop'.quota = 0 /\ loop'.cycle = loop.cycle
    BY <1>1 DEF Inv, TypeOK, LoopStates
  <2>2. /\ data' \in Snapshots /\ data'.sampled >= held /\ data'.sampled <= clock
        /\ data'.sampled >= data.sampled
    BY <1>1, SamplesAreYounger DEF Inv, Control
  <2>3. TypeOK' /\ Control'
    BY <1>1, <2>1, <2>2 DEF Inv, TypeOK, Control
  <2>4. /\ held \in Nat /\ loop.now \in Nat /\ data'.sampled \in Nat
        /\ data.sampled \in Nat /\ clock \in Nat
        /\ \A i \in Ids : asked[i] \in Nat
    BY <2>2, Numbers DEF Inv, TypeOK, LoopStates, Snapshots
  <2>5. Timing'
    BY <1>1, <2>1, <2>2, <2>4 DEF Inv, Timing, Control
  <2>6. Naming' /\ Answers'
    BY <1>1, <2>1 DEF Inv, Naming, Answers
  <2>7. FreshAnswer'
    BY <1>1, <2>2, <2>4 DEF Inv, FreshAnswer, TypeOK
  <2>8. CheckedAfterGrace'
    BY <1>1, <2>2, YoungerIsChecked
  <2> QED BY <2>3, <2>5, <2>6, <2>7, <2>8 DEF Inv
<1>2. CASE CollectFails
  <2> USE DEF CollectFails, files, locked, asks
  <2>1. /\ loop' \in LoopStates /\ loop'.at = "acknowledge" /\ loop'.now = loop.now
        /\ loop'.id = loop.id /\ loop'.quota = 1 /\ loop'.cycle = 1
    BY <1>2 DEF Inv, TypeOK, LoopStates
  <2>2. TypeOK' /\ Control' /\ Timing'
    BY <1>2, <2>1 DEF Inv, TypeOK, Control, Timing
  <2>3. Naming' /\ Answers' /\ FreshAnswer' /\ CheckedAfterGrace'
    BY <1>2, <2>1 DEF Inv, Naming, Answers, FreshAnswer, CheckedAfterGrace
  <2> QED BY <2>2, <2>3 DEF Inv
<1> QED BY <1>1, <1>2

(* An answer that is published: it is the request's own, and earned. *)
LEMMA AcknowledgedIsFresh ==
    ASSUME Inv, NEW status \in {0, 1, 75}, status = 0 => loop.quota = 0
    PROVE  LET r == Acknowledged(status) IN
             /\ r \in [id : Ids, success : BOOLEAN]
             /\ r.id <= issued
             /\ r.id # 0 /\ r.success => data.sampled >= asked[r.id]
             /\ r = result \/ (r.id = loop.id /\ (r.success <=> status = 0))
<1> DEFINE r == Acknowledged(status)
<1>1. CASE r = result
  BY <1>1 DEF Inv, TypeOK, Naming, FreshAnswer
<1>2. CASE loop.id # 0 /\ r = [id |-> loop.id, success |-> status = 0]
  <2> DEFINE ok == status = 0
  <2> r = [id |-> loop.id, success |-> ok] /\ ok \in BOOLEAN
    BY <1>2
  <2> HIDE DEF ok, r
  <2> r.id = loop.id /\ r.success = ok
    OBVIOUS
  <2> USE DEF ok
  <2>1. r.id = loop.id /\ (r.success <=> status = 0) /\ (status = 0) \in BOOLEAN
    OBVIOUS
  <2>2. r \in [id : Ids, success : BOOLEAN]
    BY <1>2, <2>1 DEF Inv, TypeOK, LoopStates
  <2>3. /\ data.sampled \in Nat /\ loop.now \in Nat /\ asked[loop.id] \in Nat
    BY Numbers DEF Inv, TypeOK, LoopStates, Snapshots
  <2>4. r.success => data.sampled >= asked[r.id]
    BY <1>2, <2>1, <2>3 DEF Inv, Timing, Naming
  <2>5. r.id <= issued
    BY <2>1 DEF Inv, Naming
  <2> QED BY <2>1, <2>2, <2>4, <2>5 DEF r
<1> QED BY <1>1, <1>2 DEF Acknowledged, Answered

LEMMA AcknowledgeInv == ASSUME Inv, Acknowledge PROVE Inv'
<1>0. loop \in LoopStates /\ loop.cycle # 75 /\ loop.quota \in {0, 1}
  BY DEF Inv, TypeOK, LoopStates, Control, Acknowledge
<1>1. /\ loop' \in LoopStates /\ loop'.at = "work" /\ loop'.now = loop.now
      /\ loop'.id = loop.id /\ loop'.quota = loop.quota
      /\ loop'.cycle # 75 /\ loop.quota \in {0, 1}
  <2>1. CASE loop' = [loop EXCEPT !.at = "work"]
    BY <1>0, <2>1 DEF LoopStates
  <2>2. CASE loop' = [loop EXCEPT !.at = "work", !.cycle = 1]
    <3>1. /\ loop' \in LoopStates /\ loop'.at = "work" /\ loop'.now = loop.now
          /\ loop'.id = loop.id /\ loop'.quota = loop.quota /\ loop'.cycle = 1
      BY <1>0, <2>2 DEF LoopStates
    <3> QED BY <1>0, <3>1
  <2> QED BY <2>1, <2>2 DEF Acknowledge
<1> USE DEF Acknowledge, locked, asks
<1>2. result' = result \/ result' = Acknowledged(loop.quota)
  OBVIOUS
<1>3. /\ result' \in [id : Ids, success : BOOLEAN]
      /\ result'.id <= issued
      /\ result'.id # 0 /\ result'.success => data.sampled >= asked[result'.id]
      /\ result' = result \/ (result'.id = loop.id
                              /\ (result'.success <=> loop.quota = 0))
  <2>1. CASE result' = result
    BY <2>1 DEF Inv, TypeOK, Naming, FreshAnswer
  <2>2. CASE result' = Acknowledged(loop.quota)
    BY <1>1, <2>2, AcknowledgedIsFresh
  <2> QED BY <1>2, <2>1, <2>2
<1>4. TypeOK' /\ Control' /\ Timing'
  BY <1>1, <1>3 DEF Inv, TypeOK, Control, Timing
<1>5. Naming' /\ FreshAnswer' /\ CheckedAfterGrace'
  BY <1>1, <1>3 DEF Inv, Naming, FreshAnswer, CheckedAfterGrace
<1>6. Answers'
  BY <1>1, <1>3 DEF Inv, Answers
<1> QED BY <1>4, <1>5, <1>6 DEF Inv

LEMMA WorkInv == ASSUME Inv, Work PROVE Inv'
<1> USE DEF Work, files, asks
<1>1. /\ loop' \in LoopStates /\ loop'.at = "complete" /\ loop'.now = loop.now
      /\ loop'.id = loop.id /\ loop'.quota = loop.quota /\ loop'.cycle # 75
  <2>1. PICK cycle \in {loop.cycle, 1} :
               loop' = [loop EXCEPT !.at = "complete", !.cycle = cycle,
                                    !.regular = NextRegular(loop)]
    OBVIOUS
  <2>2. cycle \in {0, 1}
    BY DEF Inv, TypeOK, LoopStates, Control
  <2>3. /\ loop' \in LoopStates /\ loop'.at = "complete" /\ loop'.now = loop.now
        /\ loop'.id = loop.id /\ loop'.quota = loop.quota /\ loop'.cycle = cycle
    BY <2>1, <2>2, NextRegularType DEF Inv, TypeOK, LoopStates
  <2> QED BY <2>2, <2>3
<1>2. TypeOK' /\ Control'
  BY <1>1, Numbers DEF Inv, TypeOK, Control
<1>3. Timing'
  BY <1>1, Numbers DEF Inv, Timing, TypeOK
<1>4. Naming' /\ Answers' /\ FreshAnswer' /\ CheckedAfterGrace'
  BY <1>1 DEF Inv, Naming, Answers, FreshAnswer, CheckedAfterGrace
<1> QED BY <1>2, <1>3, <1>4 DEF Inv

(* complete: the checks that count as done are those the sample satisfies. *)
LEMMA FinishedSchedule ==
    ASSUME Inv, loop.at = "complete"
    PROVE  /\ Finished(sched, CollectionStatus) \in Schedules
           /\ Checked(Finished(sched, CollectionStatus), data)
           /\ \A c \in sched.pending \ Finished(sched, CollectionStatus).pending :
                 data.sampled >= DueAt(c)
<1> DEFINE s == Finished(sched, CollectionStatus)
           C == Completed(sched, Satisfied(sched))
<1>1. sched \in Schedules /\ data \in Snapshots /\ Checked(sched, data)
  BY DEF Inv, TypeOK, CheckedAfterGrace, Checked
<1>2. CASE CollectionStatus = 0
  <2>1. loop.quota = 0
    BY <1>2 DEF CollectionStatus
  <2>2. Satisfied(sched) \in SUBSET Checks
    BY <1>1 DEF Satisfied, Schedules
  <2>3. ASSUME NEW c \in Satisfied(sched)
        PROVE  data.sampled >= DueAt(c)
    <3>1. /\ data.sampled \in Nat /\ loop.now \in Nat /\ c[2] \in Nat /\ Grace \in Nat
      BY <2>2, Numbers DEF Inv, TypeOK, Snapshots, LoopStates, Checks
    <3>2. loop.now <= data.sampled
      BY <2>1 DEF Inv, Timing
    <3>3. c[2] + Grace <= loop.now
      BY DEF Satisfied, DueAt
    <3> QED BY <3>1, <3>2, <3>3 DEF DueAt
  <2>4. /\ C \in Schedules /\ Checked(C, data)
        /\ C.pending = sched.pending \ Satisfied(sched)
    BY <1>1, <2>2, <2>3, CompletedSchedule, CompletedIsChecked
  <2> HIDE DEF C
  <2>5. s = [C EXCEPT !.retry = 0]
    BY <1>2 DEF Finished, C
  <2> HIDE DEF s
  <2>6. s \in Schedules /\ s.completed = C.completed /\ s.pending = C.pending
    BY <2>4, <2>5, Numbers DEF Schedules
  <2> QED BY <2>3, <2>4, <2>6 DEF s, Checked
<1>3. CASE CollectionStatus # 0
  <2>1. PICK t \in Times : s = [sched EXCEPT !.retry = t]
    <3>1. clock + BusyWait \in Nat /\ clock + FailWait \in Nat
      BY RefreshAssumption, Numbers DEF Inv, TypeOK
    <3> QED BY <1>3, <3>1, HorizonIsTime DEF Finished
  <2> HIDE DEF s
  <2>2. s \in Schedules /\ s.completed = sched.completed /\ s.pending = sched.pending
    BY <1>1, <2>1 DEF Schedules
  <2> QED BY <1>1, <2>2 DEF s, Checked
<1> QED BY <1>2, <1>3

LEMMA CompleteInv == ASSUME Inv, Complete PROVE Inv'
<1> DEFINE r == Acknowledged(CollectionStatus)
<1>1. /\ CollectionStatus \in {0, 1, 75}
      /\ CollectionStatus = 0 => loop.quota = 0
  BY DEF CollectionStatus, Inv, TypeOK, LoopStates
<1>2. /\ r \in [id : Ids, success : BOOLEAN]
      /\ r.id <= issued
      /\ r.id # 0 /\ r.success => data.sampled >= asked[r.id]
  BY <1>1, AcknowledgedIsFresh
<1>3. result' = r
  BY DEF Complete
<1> HIDE DEF r
<1>4. sched' \in Schedules /\ Checked(sched', data)
  BY FinishedSchedule DEF Complete
<1>5. /\ loop' \in LoopStates /\ loop'.at \in {"plan", "sleep"} /\ loop'.now = 0
      /\ loop'.id = 0 /\ loop'.quota = 1 /\ loop'.cycle = 0
  BY IterationType, HorizonIsTime, Numbers DEF Inv, TypeOK, Complete
<1> USE DEF Complete, locked, asks
<1>6. TypeOK'
  BY <1>2, <1>3, <1>4, <1>5 DEF Inv, TypeOK
<1>7. Control'
  BY <1>5 DEF Inv, Control
<1>8. Timing'
  BY <1>5, Numbers DEF Inv, Timing, TypeOK
<1>9. Naming' /\ Answers' /\ FreshAnswer' /\ CheckedAfterGrace'
  BY <1>2, <1>3, <1>4, <1>5, Numbers
  DEF Inv, Naming, Answers, FreshAnswer, CheckedAfterGrace, Checked, TypeOK
<1> QED BY <1>6, <1>7, <1>8, <1>9 DEF Inv

LEMMA WakeCrashInv == ASSUME Inv, Wake \/ Crash PROVE Inv'
<1>1. /\ loop' \in LoopStates /\ loop'.at = "plan" /\ loop'.now = 0
      /\ loop'.id = 0 /\ loop'.quota = 1 /\ loop'.cycle = 0
  BY IterationType, Numbers DEF Inv, TypeOK, Wake, Crash
<1>2. /\ UNCHANGED <<clock, files, manual, asks>>
      /\ crashes' \in 0..MaxCrashes
      /\ \/ lock # "loop" /\ lock' = lock /\ held' = held
         \/ lock' = "free" /\ held' = 0
  <2>1. CASE Wake
    BY <2>1 DEF Wake, locked, Inv, TypeOK, Control
  <2>2. CASE Crash
    BY <2>2, RefreshAssumption DEF Crash, locked, Inv, TypeOK
  <2> QED BY <2>1, <2>2
<1> USE DEF files, asks
<1>3. TypeOK'
  BY <1>1, <1>2, Numbers DEF Inv, TypeOK
<1>4. Control'
  BY <1>1, <1>2 DEF Control
<1>5. Timing'
  BY <1>1, <1>2, Numbers DEF Inv, Timing, TypeOK
<1>6. Naming' /\ Answers' /\ FreshAnswer' /\ CheckedAfterGrace'
  BY <1>1, <1>2, Numbers
  DEF Inv, Naming, Answers, FreshAnswer, CheckedAfterGrace, TypeOK
<1> QED BY <1>3, <1>4, <1>5, <1>6 DEF Inv

LEMMA OtherInv == ASSUME Inv, OtherStarts \/ OtherEnds PROVE Inv'
<1>1. CASE OtherStarts
  <2> USE DEF OtherStarts, files, asks
  <2>1. TypeOK'
    BY <1>1, RefreshAssumption DEF Inv, TypeOK
  <2>2. Control' /\ Timing'
    BY <1>1, Numbers DEF Inv, Control, Timing, TypeOK
  <2>3. Naming' /\ Answers' /\ FreshAnswer' /\ CheckedAfterGrace'
    BY <1>1 DEF Inv, Naming, Answers, FreshAnswer, CheckedAfterGrace
  <2> QED BY <2>1, <2>2, <2>3 DEF Inv
<1>2. CASE OtherEnds
  <2> USE DEF OtherEnds, asks
  <2>1. data \in Snapshots /\ data.sampled \in Nat /\ data.sampled <= clock
    BY Numbers DEF Inv, TypeOK, Snapshots, Timing
  <2>2. /\ data' \in Snapshots /\ data'.sampled <= clock
        /\ data'.sampled >= data.sampled
    <3>1. CASE data' \in Samples(held)
      BY <1>2, <3>1, SamplesAreYounger
    <3>2. CASE data' = data
      BY <2>1, <3>2
    <3> QED BY <1>2, <3>1, <3>2
  <2>3. /\ loop.now \in Nat /\ data'.sampled \in Nat /\ clock \in Nat
        /\ \A i \in Ids : asked[i] \in Nat
    BY <2>2, Numbers DEF Inv, TypeOK, LoopStates, Snapshots
  <2>4. TypeOK' /\ Control'
    BY <1>2, <2>2, Numbers DEF Inv, TypeOK, Control
  <2>5. loop.at # "collect"
    BY <1>2 DEF Inv, Control
  <2>6. Timing'
    BY <1>2, <2>1, <2>2, <2>3, <2>5 DEF Inv, Timing
  <2>7. Naming' /\ Answers'
    BY <1>2 DEF Inv, Naming, Answers
  <2>8. FreshAnswer'
    BY <1>2, <2>1, <2>2, <2>3 DEF Inv, FreshAnswer, TypeOK
  <2>9. CheckedAfterGrace'
    BY <1>2, <2>2, YoungerIsChecked
  <2> QED BY <2>4, <2>6, <2>7, <2>8, <2>9 DEF Inv
<1> QED BY <1>1, <1>2

LEMMA AskInv == ASSUME Inv, Ask PROVE Inv'
<1> USE DEF Ask, locked
<1>1. /\ issued' = issued + 1 /\ issued' \in Ids /\ issued \in Nat
      /\ clock \in Times /\ clock \in Nat /\ clock + Timeout \in Nat
  BY Numbers DEF Inv, TypeOK, Ids
<1>2. /\ asked' \in [Ids -> Times] /\ asked'[issued'] = clock
      /\ \A i \in Ids : i # issued' => asked'[i] = asked[i]
  BY <1>1 DEF Inv, TypeOK
<1>3. /\ request.id \in Ids /\ result.id \in Ids /\ loop.id \in Ids
      /\ request'.id = issued'
  BY DEF Inv, TypeOK, LoopStates
<1>4. result.id # issued' /\ loop.id # issued'
  BY <1>1, <1>3, Numbers DEF Inv, Naming
<1>5. TypeOK'
  BY <1>1, <1>2 DEF Inv, TypeOK
<1>6. Control' /\ Answers' /\ CheckedAfterGrace'
  BY DEF Inv, Control, Answers, CheckedAfterGrace
<1>7. Timing'
  <2>1. \A i \in Ids : asked'[i] <= clock
    BY <1>1, <1>2 DEF Inv, Timing
  <2> QED BY <2>1 DEF Inv, Timing
<1>8. Naming'
  <2>1. issued' \in Nat /\ result.id \in Nat /\ loop.id \in Nat
    BY <1>1, <1>3, Numbers
  <2>2. result.id <= issued /\ loop.id <= issued
    BY DEF Inv, Naming
  <2>3. request'.id <= issued' /\ result.id <= issued' /\ loop.id <= issued'
    BY <1>1, <1>3, <2>1, <2>2
  <2>4. loop.id # 0 => asked'[loop.id] <= loop.now
    BY <1>2, <1>3, <1>4 DEF Inv, Naming
  <2> QED BY <2>3, <2>4 DEF Naming
<1>9. FreshAnswer'
  BY <1>2, <1>3, <1>4 DEF Inv, FreshAnswer
<1> QED BY <1>5, <1>6, <1>7, <1>8, <1>9 DEF Inv

LEMMA HearInv == ASSUME Inv, Hear \/ GiveUp \/ UNCHANGED vars PROVE Inv'
<1>1. /\ UNCHANGED <<clock, files, locked, loop, manual, issued, asked, crashes>>
      /\ http' \in Ids
  BY Numbers DEF Hear, GiveUp, vars, files, locked, Inv, TypeOK
<1>2. TypeOK' /\ Control' /\ Timing'
  BY <1>1 DEF Inv, TypeOK, Control, Timing, files, locked
<1>3. Naming' /\ Answers' /\ FreshAnswer' /\ CheckedAfterGrace'
  BY <1>1 DEF Inv, Naming, Answers, FreshAnswer, CheckedAfterGrace, files
<1> QED BY <1>2, <1>3 DEF Inv

LEMMA NextInv == Inv /\ [Next]_vars => Inv'
<1> SUFFICES ASSUME Inv, [Next]_vars PROVE Inv'
  OBVIOUS
<1> QED BY TickInv, PlanInv, LockInv, CollectInv, AcknowledgeInv, WorkInv, CompleteInv,
           WakeCrashInv, OtherInv, AskInv, HearInv
        DEF Next, LoopStep

LEMMA InvIsInvariant == Spec => []Inv
BY InitInv, NextInv, PTL DEF Spec

-----------------------------------------------------------------------------
(* The theorems. *)

(* Every value stays in its range: no reset but an announced one is noted,
   and a retry lies within the time modelled. *)
THEOREM RefreshTypeCorrect == Spec => []TypeOK
<1>1. Inv => TypeOK
  BY DEF Inv
<1> QED BY <1>1, InvIsInvariant, PTL

(* A refresh that the dashboard hears has been done rests on a sample taken
   after it was asked for, however the requests, the busy lock, the restarts
   and the monitors started by hand interleave. *)
THEOREM RefreshIsFresh == Spec => []FreshAnswer
<1>1. Inv => FreshAnswer
  BY DEF Inv
<1> QED BY <1>1, InvIsInvariant, PTL

(* A reset noted as checked has been sampled after its grace time. *)
THEOREM ChecksComeAfterGrace == Spec => []CheckedAfterGrace
<1>1. Inv => CheckedAfterGrace
  BY DEF Inv
<1> QED BY <1>1, InvIsInvariant, PTL

(* An answer does not change once it is given: the second acknowledgement of
   a cycle repeats the first one. *)
THEOREM AnswersAreFinal == Spec => AnswerIsFinal
<1>1. ASSUME Inv, [Next]_vars, result.id # 0, result'.id = result.id
      PROVE  result' = result
  <2>1. CASE Acknowledge
    <3>1. result' = result \/ result' = Acknowledged(loop.quota)
      BY <2>1 DEF Acknowledge
    <3>2. loop.id # 0 => result.id # loop.id
      BY <1>1, <2>1 DEF Inv, Answers, Acknowledge
    <3>3. \/ Acknowledged(loop.quota) = result
          \/ loop.id # 0 /\ Acknowledged(loop.quota).id = loop.id
      BY DEF Acknowledged, Answered
    <3> QED BY <1>1, <3>1, <3>2, <3>3
  <2>2. CASE Complete
    <3> DEFINE status == CollectionStatus
               r      == Acknowledged(status)
    <3>1. /\ status \in {0, 1, 75} /\ (status = 0 => loop.quota = 0)
          /\ (loop.cycle # 75 => status = loop.quota)
      BY <1>1 DEF CollectionStatus, Inv, TypeOK, LoopStates
    <3>2. r = result \/ (r.id = loop.id /\ (r.success <=> status = 0))
      BY <1>1, <3>1, AcknowledgedIsFresh
    <3>3. r \in [id : Ids, success : BOOLEAN] /\ result \in [id : Ids, success : BOOLEAN]
      BY <1>1, <3>1, AcknowledgedIsFresh DEF Inv, TypeOK
    <3>4. result' = r
      BY <2>2 DEF Complete
    <3> HIDE DEF status, r
    <3>5. CASE r.id = loop.id /\ (r.success <=> status = 0)
      <4>1. loop.id # 0 /\ result.id = loop.id
        BY <1>1, <3>4, <3>5
      <4>2. loop.cycle # 75 /\ (result.success <=> loop.quota = 0)
        BY <1>1, <4>1 DEF Inv, Answers
      <4>3. r.success <=> result.success
        BY <3>1, <3>5, <4>2
      <4>4. r.success = result.success
        BY <3>3, <4>3
      <4> QED BY <1>1, <3>3, <3>4, <4>4
    <3> QED BY <3>2, <3>4, <3>5
  <2>3. CASE ~Acknowledge /\ ~Complete
    BY <1>1, <2>3
    DEF Next, LoopStep, Tick, Plan, TakeLock, LockIsBusy, Collect, CollectFails, Work, Wake,
        Crash, OtherStarts, OtherEnds, Ask, Hear, GiveUp, vars, files
  <2> QED BY <2>1, <2>2, <2>3
<1>2. Inv /\ [Next]_vars
        => [result.id # 0 /\ result'.id = result.id => result' = result]_vars
  BY <1>1
<1> QED BY <1>2, InvIsInvariant, PTL DEF Spec, AnswerIsFinal

(* A check of a reset that has happened is dropped only for a sample after its
   grace time, or with its limit group. *)
THEOREM ChecksAreNotLost == Spec => ChecksAreKept
<1>1. ASSUME Inv, [Next]_vars, NEW c \in sched.pending \ sched'.pending
      PROVE  data.sampled >= DueAt(c) \/ sched'.limit # sched.limit \/ c[2] > clock
  <2>1. CASE Plan
    BY <1>1, <2>1, PlannedSchedule DEF Inv, TypeOK, Plan
  <2>2. CASE Complete
    BY <1>1, <2>2, FinishedSchedule DEF Complete
  <2>3. CASE ~Plan /\ ~Complete
    BY <1>1, <2>3
    DEF Next, LoopStep, Tick, TakeLock, LockIsBusy, Collect, CollectFails, Acknowledge, Work,
        Wake, Crash, OtherStarts, OtherEnds, Ask, Hear, GiveUp, vars, files
  <2> QED BY <2>1, <2>2, <2>3
<1>2. Inv /\ [Next]_vars
        => [\A c \in sched.pending \ sched'.pending :
               \/ data.sampled >= DueAt(c)
               \/ sched'.limit # sched.limit
               \/ c[2] > clock]_vars
  BY <1>1
<1> QED BY <1>2, InvIsInvariant, PTL DEF Spec, ChecksAreKept
=============================================================================
