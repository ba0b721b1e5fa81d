-------------------------- MODULE MCSources_proofs --------------------------
(***************************************************************************)
(* Proofs about what is read from other programs, for all constants.       *)
(***************************************************************************)
EXTENDS MCSources, FiniteSetTheorems, SequenceTheorems, WellFoundedInduction, TLAPS

LEMMA SmallestExists ==
    ASSUME NEW T \in SUBSET Nat, T # {} PROVE \E x \in T : \A y \in T : x <= y
<1>1. PICK x \in T : \A y \in T : ~ (<<y, x>> \in OpToRel(<, Nat))
  BY NatLessThanWellFounded, WFMin, Zenon
<1>2. \A y \in T : ~ (y < x)
  BY <1>1 DEF OpToRel
<1> QED BY <1>2

-----------------------------------------------------------------------------
(* Sums: the tokens of a function with natural numbers as values. *)

Some(s) == CHOOSE x \in s : TRUE

SumStep(f, g, s) == IF s = {} THEN 0 ELSE f[Some(s)] + g[s \ {Some(s)}]

Sums(f) == CHOOSE g : g = [s \in SUBSET DOMAIN f |-> SumStep(f, g, s)]

Countable(f) == IsFiniteSet(DOMAIN f) /\ \A x \in DOMAIN f : f[x] \in Nat

LEMMA SummedIs == ASSUME NEW f PROVE Summed(f) = Sums(f)[DOMAIN f]
BY DEF Summed, FoldFunction, FoldFunctionOnSet, MapThenFoldSet, Sums, SumStep, Some

LEMMA SomeIsIn == ASSUME NEW s, s # {} PROVE Some(s) \in s
BY DEF Some

(* A property of the finite sets holds if the smallest that lacks it has it. *)
LEMMA SmallestSet ==
    ASSUME NEW B, B # {}, \A s \in B : IsFiniteSet(s)
    PROVE  \E s \in B : \A t \in B : Cardinality(s) <= Cardinality(t)
<1> DEFINE T == {Cardinality(s) : s \in B}
<1>1. T \in SUBSET Nat /\ T # {}
  BY FS_CardinalityType
<1>2. PICK x \in T : \A y \in T : x <= y
  BY <1>1, SmallestExists
<1> QED BY <1>2

LEMMA SmallerSet ==
    ASSUME NEW s, IsFiniteSet(s), NEW x \in s
    PROVE  /\ IsFiniteSet(s \ {x}) /\ Cardinality(s \ {x}) \in Nat /\ Cardinality(s) \in Nat
           /\ Cardinality(s \ {x}) = Cardinality(s) - 1
BY FS_RemoveElement, FS_CardinalityType

LEMMA SumsExist ==
    ASSUME NEW f, Countable(f)
    PROVE  \E g : g = [s \in SUBSET DOMAIN f |-> SumStep(f, g, s)]
<1> DEFINE D      == DOMAIN f
           Upto(n) == {s \in SUBSET D : Cardinality(s) <= n}
           Good(n) == \E g : g = [s \in Upto(n) |-> SumStep(f, g, s)]
<1>1. \A s \in SUBSET D : IsFiniteSet(s) /\ Cardinality(s) \in Nat
  BY FS_Subset, FS_CardinalityType DEF Countable
<1>2. Good(0)
  <2> DEFINE g == [s \in Upto(0) |-> 0]
  <2>1. \A s \in Upto(0) : s = {}
    BY <1>1, FS_EmptySet
  <2>2. g = [s \in Upto(0) |-> SumStep(f, g, s)]
    BY <2>1 DEF SumStep
  <2> QED BY <2>2
<1>3. ASSUME NEW n \in Nat, Good(n) PROVE Good(n + 1)
  <2>1. PICK g : g = [s \in Upto(n) |-> SumStep(f, g, s)]
    BY <1>3
  <2> DEFINE h == [s \in Upto(n + 1) |-> SumStep(f, g, s)]
  <2>2. \A s \in Upto(n + 1) : s # {} => s \ {Some(s)} \in Upto(n)
    <3> SUFFICES ASSUME NEW s \in Upto(n + 1), s # {} PROVE s \ {Some(s)} \in Upto(n)
      OBVIOUS
    <3>1. IsFiniteSet(s) /\ Some(s) \in s
      BY <1>1, SomeIsIn
    <3> QED BY <3>1, SmallerSet
  <2>3. \A s \in Upto(n) : h[s] = g[s]
    <3>1. \A s \in Upto(n) : s \in Upto(n + 1)
      BY <1>1
    <3>2. \A s \in Upto(n) : g[s] = SumStep(f, g, s)
      BY <2>1
    <3> QED BY <3>1, <3>2
  <2>4. ASSUME NEW s \in Upto(n + 1) PROVE SumStep(f, h, s) = SumStep(f, g, s)
    <3>1. CASE s = {}
      BY <3>1 DEF SumStep
    <3>2. CASE s # {}
      <4>1. h[s \ {Some(s)}] = g[s \ {Some(s)}]
        BY <2>2, <2>3, <3>2
      <4> HIDE DEF h
      <4> QED BY <3>2, <4>1 DEF SumStep
    <3> QED BY <3>1, <3>2
  <2>5. h = [s \in Upto(n + 1) |-> SumStep(f, h, s)]
    BY <2>4, Zenon
  <2> QED BY <2>5
<1>4. \A n \in Nat : Good(n)
  <2> DEFINE T == {n \in Nat : ~Good(n)}
  <2> HIDE DEF Good
  <2> SUFFICES ASSUME T # {} PROVE FALSE
    OBVIOUS
  <2>1. PICK n \in T : \A m \in T : n <= m
    BY SmallestExists
  <2>2. n # 0 /\ n - 1 \in Nat /\ ~(n - 1 \in T)
    BY <1>2, <2>1
  <2> QED BY <1>3, <2>1, <2>2
<1>5. Cardinality(D) \in Nat /\ Upto(Cardinality(D)) = SUBSET D
  BY <1>1, FS_Subset DEF Countable
<1>6. Good(Cardinality(D))
  BY <1>4, <1>5
<1> QED BY <1>5, <1>6

LEMMA SumsAre ==
    ASSUME NEW f, Countable(f), NEW s \in SUBSET DOMAIN f
    PROVE  Sums(f)[s] = SumStep(f, Sums(f), s) /\ IsFiniteSet(s)
<1>1. Sums(f) = [t \in SUBSET DOMAIN f |-> SumStep(f, Sums(f), t)]
  BY SumsExist, Zenon DEF Sums
<1>2. IsFiniteSet(s)
  BY FS_Subset DEF Countable
<1> HIDE DEF Sums
<1> QED BY <1>1, <1>2

LEMMA SumsAreNat ==
    ASSUME NEW f, Countable(f) PROVE \A s \in SUBSET DOMAIN f : Sums(f)[s] \in Nat
<1> DEFINE B == {s \in SUBSET DOMAIN f : Sums(f)[s] \notin Nat}
<1> SUFFICES ASSUME B # {} PROVE FALSE
  OBVIOUS
<1>1. PICK s \in B : \A t \in B : Cardinality(s) <= Cardinality(t)
  BY SumsAre, SmallestSet
<1>2. Sums(f)[s] = SumStep(f, Sums(f), s) /\ IsFiniteSet(s)
  BY SumsAre
<1>3. CASE s = {}
  BY <1>2, <1>3 DEF SumStep
<1>4. CASE s # {}
  <2>1. Some(s) \in s
    BY <1>4, SomeIsIn
  <2>2. s \ {Some(s)} \in SUBSET DOMAIN f /\ s \ {Some(s)} \notin B
    BY <1>1, <1>2, <2>1, SmallerSet
  <2>3. f[Some(s)] \in Nat /\ Sums(f)[s \ {Some(s)}] \in Nat
    BY <2>1, <2>2 DEF Countable
  <2> QED BY <1>2, <1>4, <2>3 DEF SumStep
<1> QED BY <1>3, <1>4

(* It does not matter which element comes first. *)
LEMMA SumsWithout ==
    ASSUME NEW f, Countable(f)
    PROVE  \A s \in SUBSET DOMAIN f : \A x \in s : Sums(f)[s] = f[x] + Sums(f)[s \ {x}]
<1> DEFINE Splits(s) == \A x \in s : Sums(f)[s] = f[x] + Sums(f)[s \ {x}]
           B == {s \in SUBSET DOMAIN f : ~Splits(s)}
<1> SUFFICES ASSUME B # {} PROVE FALSE
  OBVIOUS
<1>1. PICK s \in B : \A t \in B : Cardinality(s) <= Cardinality(t)
  BY SumsAre, SmallestSet
<1>2. Sums(f)[s] = SumStep(f, Sums(f), s) /\ IsFiniteSet(s)
  BY SumsAre
<1>3. PICK x \in s : Sums(f)[s] # f[x] + Sums(f)[s \ {x}]
  BY <1>1
<1> DEFINE y == Some(s)
<1>4. y \in s /\ y # x /\ Sums(f)[s] = f[y] + Sums(f)[s \ {y}]
  BY <1>2, <1>3, SomeIsIn DEF SumStep
<1> HIDE DEF y
<1>5. ASSUME NEW z \in s PROVE s \ {z} \in SUBSET DOMAIN f /\ Splits(s \ {z})
  <2>1. s \ {z} \in SUBSET DOMAIN f /\ s \ {z} \notin B
    <3>1. ~ (Cardinality(s) <= Cardinality(s \ {z}))
      BY <1>2, SmallerSet
    <3> HIDE DEF Splits
    <3> QED BY <1>1, <3>1
  <2> QED BY <2>1
<1>6. Sums(f)[s \ {y}] = f[x] + Sums(f)[(s \ {y}) \ {x}]
  BY <1>4, <1>5
<1>7. Sums(f)[s \ {x}] = f[y] + Sums(f)[(s \ {x}) \ {y}]
  BY <1>3, <1>4, <1>5
<1>8. (s \ {y}) \ {x} = (s \ {x}) \ {y} /\ (s \ {x}) \ {y} \in SUBSET DOMAIN f
  OBVIOUS
<1>9. f[x] \in Nat /\ f[y] \in Nat /\ Sums(f)[(s \ {x}) \ {y}] \in Nat
  <2>1. Sums(f)[(s \ {x}) \ {y}] \in Nat
    BY <1>8, SumsAreNat
  <2> QED BY <1>1, <1>3, <1>4, <2>1 DEF Countable
<1>10. Sums(f)[s \ {y}] = f[x] + Sums(f)[(s \ {x}) \ {y}]
  BY <1>6, <1>8
<1> HIDE DEF B, Splits
<1> QED BY <1>3, <1>4, <1>7, <1>9, <1>10

(* One sum is at most another whose elements cover those of the first. *)
LEMMA SumAtMost ==
    ASSUME NEW f, Countable(f), NEW g, Countable(g), NEW m,
           \A x, y \in DOMAIN f : m[x] = m[y] => x = y,
           \A x \in DOMAIN f : f[x] # 0 => m[x] \in DOMAIN g /\ f[x] <= g[m[x]]
    PROVE  Summed(f) <= Summed(g)
<1> DEFINE Covers(s, t) == \A x \in s : f[x] # 0 => m[x] \in t
           Less(s) == \A t \in SUBSET DOMAIN g : Covers(s, t) => Sums(f)[s] <= Sums(g)[t]
           B == {s \in SUBSET DOMAIN f : ~Less(s)}
<1>1. ASSUME B # {} PROVE FALSE
  <2>1. PICK s \in B : \A t \in B : Cardinality(s) <= Cardinality(t)
    BY <1>1, SumsAre, SmallestSet
  <2>2. PICK t \in SUBSET DOMAIN g : Covers(s, t) /\ ~(Sums(f)[s] <= Sums(g)[t])
    BY <2>1
  <2>3. Sums(f)[s] = SumStep(f, Sums(f), s) /\ IsFiniteSet(s) /\ Sums(g)[t] \in Nat
    BY SumsAre, SumsAreNat
  <2>4. s # {}
    BY <2>2, <2>3 DEF SumStep
  <2>5. PICK x \in s : TRUE
    BY <2>4
  <2>6. s \ {x} \in SUBSET DOMAIN f /\ Less(s \ {x})
    <3>1. ~ (Cardinality(s) <= Cardinality(s \ {x}))
      BY <2>3, SmallerSet
    <3> HIDE DEF Less
    <3> QED BY <2>1, <3>1
  <2>7. Sums(f)[s] = f[x] + Sums(f)[s \ {x}] /\ f[x] \in Nat /\ Sums(f)[s \ {x}] \in Nat
    <3>1. s \in SUBSET DOMAIN f
      BY <2>1
    <3>2. Sums(f)[s] = f[x] + Sums(f)[s \ {x}] /\ Sums(f)[s \ {x}] \in Nat
      BY <2>6, <3>1, SumsWithout, SumsAreNat
    <3>3. f[x] \in Nat
      BY <3>1 DEF Countable
    <3> QED BY <3>2, <3>3
  <2>8. CASE f[x] = 0
    <3>1. Covers(s \ {x}, t)
      BY <2>2
    <3>2. Sums(f)[s \ {x}] <= Sums(g)[t]
      BY <2>6, <3>1
    <3> QED BY <2>2, <2>7, <2>8, <3>2
  <2>9. CASE f[x] # 0
    <3>1. m[x] \in t /\ f[x] <= g[m[x]] /\ t \ {m[x]} \in SUBSET DOMAIN g
      BY <2>2, <2>9
    <3>2. /\ Sums(g)[t] = g[m[x]] + Sums(g)[t \ {m[x]}]
          /\ g[m[x]] \in Nat /\ Sums(g)[t \ {m[x]}] \in Nat
      <4>1. \A z \in t : Sums(g)[t] = g[z] + Sums(g)[t \ {z}]
        BY SumsWithout
      <4>2. Sums(g)[t \ {m[x]}] \in Nat
        BY <3>1, SumsAreNat
      <4>3. g[m[x]] \in Nat
        BY <3>1 DEF Countable
      <4> QED BY <3>1, <4>1, <4>2, <4>3
    <3>3. Covers(s \ {x}, t \ {m[x]})
      <4>1. \A y \in s \ {x} : y \in DOMAIN f /\ m[y] # m[x]
        BY <2>1
      <4> QED BY <2>2, <4>1
    <3>4. Sums(f)[s \ {x}] <= Sums(g)[t \ {m[x]}]
      BY <2>6, <3>1, <3>3
    <3> QED BY <2>2, <2>7, <3>1, <3>2, <3>4
  <2> QED BY <2>8, <2>9
<1>2. Less(DOMAIN f)
  BY <1>1
<1>3. Covers(DOMAIN f, DOMAIN g)
  OBVIOUS
<1> QED BY <1>2, <1>3, SummedIs

-----------------------------------------------------------------------------
(* Hermes: what a counter shows beyond its last reading is what was used    *)
(* since, or less once the counter has started again.                       *)

Before(c) == IF state[c] = Absent THEN 0 ELSE state[c]

Level(c) == IF counter[c] = Absent THEN 0 ELSE counter[c]

CounterTypes ==
    /\ counter \in [Counters -> Nat \cup {Absent}]
    /\ state \in [Counters -> Nat \cup {Absent}]
    /\ polled \in [Counters -> Nat] /\ fresh \in [Counters -> Nat]
    /\ initialized \in BOOLEAN /\ restarted \subseteq Counters

HermesInv ==
    /\ CounterTypes
    /\ \A c \in Counters :
           IF Baseline(c) THEN fresh[c] = 0
           ELSE /\ Level(c) - Before(c) <= fresh[c]
                /\ c \notin restarted => Level(c) - Before(c) = fresh[c]
    /\ \A c \in Counters : counter[c] = Absent => state[c] = Absent /\ fresh[c] = 0

LEMMA HermesStarts == Init => HermesInv
<1> SUFFICES ASSUME Init PROVE HermesInv
  OBVIOUS
<1>1. /\ counter \in [Counters -> {Absent, 1}] /\ state = [c \in Counters |-> Absent]
      /\ initialized = FALSE /\ polled = [c \in Counters |-> 0]
      /\ fresh = [c \in Counters |-> 0] /\ restarted = {}
  BY DEF Init
<1>2. CounterTypes
  <2>1. {Absent, 1} \subseteq Nat \cup {Absent}
    OBVIOUS
  <2>2. counter \in [Counters -> Nat \cup {Absent}]
    BY <1>1, <2>1
  <2> QED BY <1>1, <2>2 DEF CounterTypes
<1>3. \A c \in Counters : Baseline(c) /\ fresh[c] = 0 /\ state[c] = Absent
  BY <1>1 DEF Baseline
<1> QED BY <1>2, <1>3 DEF HermesInv

LEMMA UseKept == ASSUME HermesInv, NEW c \in Counters, Use(c) PROVE HermesInv'
BY DEF HermesInv, CounterTypes, Use, Baseline, Level, Before, Absent

LEMMA StartAgainKept == ASSUME HermesInv, NEW c \in Counters, StartAgain(c) PROVE HermesInv'
BY DEF HermesInv, CounterTypes, StartAgain, Baseline, Level, Before, Absent

LEMMA CollectHermesKept ==
    ASSUME HermesInv, NEW read \in SUBSET Rows, CollectHermes(read) PROVE HermesInv'
BY DEF HermesInv, CounterTypes, CollectHermes, Baseline, Level, Before, Absent, Rows, Known,
       Initialized, Delta

(* What each step counts of a counter. *)
CountsFresh(c) ==
    LET new == polled'[c] - polled[c] IN
    IF fresh'[c] >= fresh[c] THEN new = 0
    ELSE new \in 0..fresh[c] /\ (c \notin restarted => new = fresh[c])

LEMMA HermesCounts ==
    ASSUME HermesInv, [Next]_vars PROVE HermesInv' /\ \A c \in Counters : CountsFresh(c)
<1>1. ASSUME UNCHANGED hermesVars
      PROVE  HermesInv' /\ \A c \in Counters : CountsFresh(c)
  BY <1>1 DEF HermesInv, CounterTypes, hermesVars, Baseline, Level, Before, CountsFresh
<1>2. CASE CodexNext \/ OpencodeNext \/ UNCHANGED vars
  <2>1. UNCHANGED hermesVars
    BY <1>2 DEF CodexNext, OpencodeNext, Record, Complete, Move, Copy, CollectCodex, Tick,
                Answer, CollectOpencode, vars
  <2> QED BY <1>1, <2>1
<1>3. ASSUME NEW c \in Counters, Use(c)
      PROVE  HermesInv' /\ \A d \in Counters : CountsFresh(d)
  <2>1. \A d \in Counters : CountsFresh(d)
    BY <1>3 DEF HermesInv, CounterTypes, Use, CountsFresh
  <2> QED BY <1>3, <2>1, UseKept
<1>4. ASSUME NEW c \in Counters, StartAgain(c)
      PROVE  HermesInv' /\ \A d \in Counters : CountsFresh(d)
  <2>1. \A d \in Counters : CountsFresh(d)
    BY <1>4 DEF HermesInv, CounterTypes, StartAgain, CountsFresh
  <2> QED BY <1>4, <2>1, StartAgainKept
<1>5. ASSUME NEW read \in SUBSET Rows, CollectHermes(read)
      PROVE  HermesInv' /\ \A d \in Counters : CountsFresh(d)
  <2>1. ASSUME NEW d \in Counters PROVE CountsFresh(d)
    BY <1>5 DEF HermesInv, CounterTypes, CollectHermes, CountsFresh, Delta, Baseline, Level,
                Before, Rows, Absent
  <2> QED BY <1>5, <2>1, CollectHermesKept
<1> QED BY <1>2, <1>3, <1>4, <1>5 DEF Next, HermesNext

(* A step of one source is a step of its module, and the others stay. *)
LEMMA StepOfTokens == [MCNext]_<<source, vars, limits, files>> => [Next]_vars
BY Zenon DEF MCNext, Next

(* A reading of Hermes counts what was used since the last reading of the   *)
(* counter, no more and no less unless the counter has started again, also  *)
(* when the first reading was cut short (_collect_hermes).                  *)
THEOREM HermesCountsExactly == MCSpec => HermesExact
<1>1. MCInit => HermesInv
  BY HermesStarts DEF MCInit
<1>2. HermesInv /\ [MCNext]_<<source, vars, limits, files>> => HermesInv'
  BY StepOfTokens, HermesCounts
<1>3. HermesInv /\ [MCNext]_<<source, vars, limits, files>>
          => [\A c \in Counters : CountsFresh(c)]_vars
  BY StepOfTokens, HermesCounts
<1>4. [\A c \in Counters : CountsFresh(c)]_vars <=>
      [\A c \in Counters :
        LET new == polled'[c] - polled[c] IN
        IF fresh'[c] >= fresh[c] THEN new = 0
        ELSE new \in 0..fresh[c] /\ (c \notin restarted => new = fresh[c])]_vars
  BY DEF CountsFresh
<1> QED BY <1>1, <1>2, <1>3, <1>4, PTL DEF MCSpec, HermesExact

-----------------------------------------------------------------------------
(* Codex: every event is one line's own tokens, and the position in a       *)
(* rollout has every line before it counted.                                *)

Event(i) == <<i, log[i]>>

Logged == log \in Seq(0..MaxTotal) /\ Len(log) >= 1 /\ log[1] = 0 /\ hermes \in BOOLEAN

RolloutIs(f) ==
    /\ f \in [inode : 0..MaxInode, length : 0..Len(log), shift : {0, 1}, partial : BOOLEAN]
    /\ f.inode = 0 => f = NoFile
    /\ f.inode # 0 => f.inode <= inodes /\ f.length >= 1 /\ (f.partial => f.length >= 2)

FoundFiles ==
    /\ inodes \in 1..MaxInode
    /\ file \in [Paths -> [inode : 0..MaxInode, length : 0..Len(log), shift : {0, 1},
                           partial : BOOLEAN]]
    /\ \A p \in Paths : RolloutIs(file[p])
    /\ file[1].inode # 0 => file[1].inode # file[2].inode

EventsAre(ev) ==
    /\ ev = [e \in DOMAIN ev |-> ev[e]]
    /\ \A e \in DOMAIN ev : \E i \in 1..Len(log) : e = Event(i) /\ ev[e] = Gain(log, i) /\ ev[e] > 0
    /\ hermes => DOMAIN ev = {}

Counted(ev, k) == hermes \/ \A i \in 1..k : Gain(log, i) # 0 => Event(i) \in DOMAIN ev

CursorIs(c) ==
    /\ c = [inode |-> c.inode, offset |-> c.offset, total |-> c.total, skip |-> c.skip]
    /\ c.inode \in 0..inodes /\ c.offset \in 0..Len(log) + 1 /\ c.total \in 0..MaxTotal
    /\ c.skip \in BOOLEAN
    /\ c.inode = 0 => c = NoCursor
    /\ c.inode # 0 => c.offset # 0 /\ c.skip = hermes

(* A position within f: the total of its line, and what comes before counted. *)
PositionIn(c, f, ev) ==
    c.inode # 0 /\ c.inode = f.inode =>
        LET k == c.offset - f.shift IN
        k \in 1..Whole(f) /\ c.total = log[k] /\ Counted(ev, k)

LEMMA ElementOf == ASSUME NEW S, NEW q \in Seq(S), NEW i \in 1..Len(q) PROVE q[i] \in S
OBVIOUS

LEMMA GainIs ==
    ASSUME Logged, NEW i \in 1..Len(log)
    PROVE  /\ Gain(log, i) \in 0..MaxTotal
           /\ Gain(log, i) = IF i > 1 /\ log[i] > log[i - 1] THEN log[i] - log[i - 1] ELSE 0
           /\ log[i] \in 0..MaxTotal
           /\ i > 1 => log[i - 1] \in 0..MaxTotal
<1>1. \A j \in 1..Len(log) : log[j] \in 0..MaxTotal
  BY ElementOf DEF Logged
<1>2. log[i] \in 0..MaxTotal /\ (i > 1 => log[i - 1] \in 0..MaxTotal)
  <2>1. i > 1 => i - 1 \in 1..Len(log)
    BY DEF Logged
  <2> QED BY <1>1, <2>1
<1> QED BY <1>2, TokenAssumption DEF Gain, TokenAssumption

LEMMA MinOfTwo ==
    ASSUME NEW a \in Int, NEW b \in Int PROVE Min({a, b}) = IF a <= b THEN a ELSE b
<1> DEFINE m == IF a <= b THEN a ELSE b
<1>1. m \in {a, b} /\ \A y \in {a, b} : m <= y
  OBVIOUS
<1>2. \A x \in {a, b} : (\A y \in {a, b} : x <= y) => x = m
  OBVIOUS
<1> HIDE DEF m
<1>3. Min({a, b}) = m
  BY <1>1, <1>2 DEF Min
<1> QED BY <1>3 DEF m

LEMMA MaxOfTwo ==
    ASSUME NEW a \in Int, NEW b \in Int PROVE Max({a, b}) = IF a >= b THEN a ELSE b
<1> DEFINE m == IF a >= b THEN a ELSE b
<1>1. m \in {a, b} /\ \A y \in {a, b} : m >= y
  OBVIOUS
<1>2. \A x \in {a, b} : (\A y \in {a, b} : x >= y) => x = m
  OBVIOUS
<1> HIDE DEF m
<1>3. Max({a, b}) = m
  BY <1>1, <1>2 DEF Max
<1> QED BY <1>3 DEF m

LEMMA WholeIs ==
    ASSUME Logged, NEW f, RolloutIs(f)
    PROVE  /\ Whole(f) \in 0..Len(log) /\ Whole(f) <= f.length
           /\ f.inode = 0 <=> f = NoFile
           /\ f.inode # 0 => Whole(f) >= 1
           /\ f.inode = 0 => Whole(f) = 0
BY DEF Logged, RolloutIs, Whole, NoFile

(* What a reading of f from the position c finds, n lines before an error. *)
LEMMA ReadIs ==
    ASSUME Logged, inodes \in 1..MaxInode, NEW f, RolloutIs(f), f # NoFile,
           NEW r, CursorIs(r.cursor), EventsAre(r.codex), PositionIn(r.cursor, f, r.codex),
           NEW n \in Nat
    PROVE  LET s == Read(r, f, n)
               ev == Upserted(r.codex, s.events)
           IN /\ EventsAre(ev) /\ DOMAIN r.codex \subseteq DOMAIN ev
              /\ s.whole \in BOOLEAN
              /\ s.whole => /\ CursorIs(s.next) /\ PositionIn(s.next, f, ev)
                            /\ s.next.inode = f.inode /\ Counted(ev, Whole(f))
<1> DEFINE c == r.cursor
           t == Resumed(c, f)
           first == IF t.offset > f.shift THEN t.offset - f.shift + 1 ELSE 1
           last == Min({first - 1 + n, Consumed(f)})
           Earlier(i) == IF i = first THEN t.total ELSE log[i - 1]
           counted == {i \in first .. Min({last, Whole(f)}) :
                           Counts(Earlier(i), log[i]) /\ ~Skipped(t)}
           found == [e \in {<<i, log[i]>> : i \in counted} |-> log[e[1]] - Earlier(e[1])]
           next == [inode |-> f.inode, offset |-> last + f.shift, skip |-> Skipped(t),
                    total |-> IF last < first THEN t.total ELSE log[last]]
           ev == Upserted(r.codex, found)
<1>1. Read(r, f, n) = [events |-> found, next |-> next, whole |-> last = Consumed(f)]
  BY DEF Read
<1>2. /\ Whole(f) \in 1..Len(log) /\ f.shift \in {0, 1} /\ f.inode \in 1..inodes
      /\ Whole(f) <= f.length /\ f.length \in 0..Len(log)
  BY WholeIs DEF RolloutIs
<1>3. /\ first \in 1..Whole(f) + 1 /\ t.total \in 0..MaxTotal
      /\ first = 1 => t.total = 0
      /\ first # 1 => t.total = log[first - 1]
      /\ Skipped(t) = hermes
      /\ Counted(r.codex, first - 1)
  <2>1. CASE c.inode = f.inode
    <3>1. /\ c.offset \in Nat /\ c.inode # 0 /\ c.skip = hermes
          /\ c.total \in 0..MaxTotal
      BY <1>2, <2>1 DEF CursorIs
    <3>2. /\ c.offset - f.shift \in 1..Whole(f)
          /\ c.total = log[c.offset - f.shift] /\ Counted(r.codex, c.offset - f.shift)
      BY <2>1, <3>1 DEF PositionIn
    <3>3. Size(f) \in Nat /\ c.offset <= Size(f)
      <4>1. f.shift \in Nat /\ f.length \in Nat /\ Whole(f) \in Nat /\ Whole(f) <= f.length
        BY <1>2
      <4>2. c.offset - f.shift <= Whole(f)
        BY <1>2, <3>2
      <4> QED BY <3>1, <4>1, <4>2 DEF Size
    <3>4. t = c
      BY <2>1, <3>1, <3>3 DEF Resumed
    <3> HIDE DEF t
    <3>5. first = c.offset - f.shift + 1
      <4>1. c.offset - f.shift >= 1 /\ f.shift \in Nat
        BY <1>2, <3>2
      <4> QED BY <3>1, <3>4, <4>1
    <3>6. Skipped(t) = hermes
      BY <3>1, <3>4 DEF Skipped
    <3> HIDE DEF first
    <3>7. first \in 1..Whole(f) + 1 /\ first # 1 /\ first - 1 = c.offset - f.shift
      <4>1. c.offset - f.shift \in Int /\ first = (c.offset - f.shift) + 1
        <5>1. f.shift \in Int
          BY <1>2
        <5> QED BY <3>1, <3>5, <5>1
      <4>2. Whole(f) \in Nat
        BY <1>2
      <4>3. \A k \in Int, w \in Nat : k \in 1..w => /\ k + 1 \in 1..w + 1 /\ k + 1 # 1
                                                    /\ (k + 1) - 1 = k
        OBVIOUS
      <4> QED BY <3>2, <4>1, <4>2, <4>3
    <3> QED BY <3>1, <3>2, <3>4, <3>6, <3>7
  <2>2. CASE c.inode # f.inode
    <3>1. t = NoCursor
      BY <2>2 DEF Resumed
    <3>2. first = 1 /\ t.total = 0 /\ Skipped(t) = hermes
      BY <1>2, <3>1 DEF NoCursor, Skipped
    <3>3. Counted(r.codex, 0)
      BY DEF Counted
    <3> HIDE DEF first, t
    <3> QED BY <1>2, <3>2, <3>3, TokenAssumption DEF TokenAssumption
  <2> QED BY <2>1, <2>2
<1> HIDE DEF t, first
<1>4. /\ last \in first - 1 .. Whole(f) /\ Min({last, Whole(f)}) = last
  <2>1. last = IF first - 1 + n <= Whole(f) THEN first - 1 + n ELSE Whole(f)
    BY <1>2, <1>3, MinOfTwo DEF Consumed
  <2>2. last \in first - 1 .. Whole(f)
    BY <1>2, <1>3, <2>1
  <2> HIDE DEF last
  <2> QED BY <1>2, <1>3, <2>2, MinOfTwo
<1> HIDE DEF last
<1>5. \A i \in first..last : i \in 1..Len(log) /\ Earlier(i) \in 0..MaxTotal
                             /\ Gain(log, i) = IF log[i] > Earlier(i) THEN log[i] - Earlier(i) ELSE 0
  <2> SUFFICES ASSUME NEW i \in first..last
               PROVE  i \in 1..Len(log) /\ Earlier(i) \in 0..MaxTotal
                      /\ Gain(log, i) = IF log[i] > Earlier(i) THEN log[i] - Earlier(i) ELSE 0
    OBVIOUS
  <2>1. i \in 1..Len(log)
    BY <1>2, <1>3, <1>4
  <2>2. CASE i = 1
    <3>1. Earlier(i) = 0 /\ log[i] = 0
      BY <1>2, <1>3, <2>2 DEF Logged
    <3> QED BY <2>1, <2>2, <3>1, GainIs, TokenAssumption DEF TokenAssumption
  <2>3. CASE i > 1
    <3>1. Earlier(i) = log[i - 1]
      BY <1>3, <2>3
    <3> HIDE DEF Earlier
    <3> QED BY <2>1, <2>3, <3>1, GainIs
  <2> QED BY <2>1, <2>2, <2>3
<1> HIDE DEF Earlier
<1>6. \A i : i \in counted <=> i \in first..last /\ Gain(log, i) # 0 /\ ~hermes
  BY <1>3, <1>4, <1>5, GainIs DEF Counts
<1>7. \A i \in counted : /\ Event(i) \in DOMAIN found
                         /\ found[Event(i)] = Gain(log, i) /\ Gain(log, i) > 0
  <2> SUFFICES ASSUME NEW i \in counted
               PROVE  /\ Event(i) \in DOMAIN found
                      /\ found[Event(i)] = Gain(log, i) /\ Gain(log, i) > 0
    OBVIOUS
  <2>1. i \in first..last /\ Gain(log, i) # 0 /\ i \in 1..Len(log)
    BY <1>5, <1>6
  <2> HIDE DEF counted
  <2>2. Event(i) \in DOMAIN found /\ found[Event(i)] = log[i] - Earlier(i)
    BY DEF Event
  <2>3. Gain(log, i) = log[i] - Earlier(i) /\ Gain(log, i) > 0
    BY <1>5, <2>1, GainIs
  <2> QED BY <2>2, <2>3
<1>8. \A e \in DOMAIN found : \E i \in counted : e = Event(i)
  BY DEF Event
<1> HIDE DEF counted, found
<1>9. /\ DOMAIN ev = DOMAIN r.codex \cup DOMAIN found
      /\ ev = [e \in DOMAIN ev |-> ev[e]]
      /\ \A e \in DOMAIN ev : ev[e] = IF e \in DOMAIN found THEN found[e] ELSE r.codex[e]
  BY DEF Upserted
<1> HIDE DEF ev
<1>10. EventsAre(ev)
  <2>1. ASSUME NEW e \in DOMAIN ev
        PROVE  \E i \in 1..Len(log) : e = Event(i) /\ ev[e] = Gain(log, i) /\ ev[e] > 0
    <3>1. CASE e \in DOMAIN found
      BY <1>5, <1>6, <1>7, <1>8, <1>9, <3>1
    <3>2. CASE e \notin DOMAIN found
      BY <1>9, <3>2 DEF EventsAre
    <3> QED BY <3>1, <3>2
  <2>2. hermes => DOMAIN ev = {}
    BY <1>6, <1>8, <1>9 DEF EventsAre
  <2> QED BY <1>9, <2>1, <2>2 DEF EventsAre
<1>11. ASSUME last = Whole(f) PROVE Counted(ev, Whole(f))
  <2> SUFFICES ASSUME ~hermes, NEW i \in 1..Whole(f), Gain(log, i) # 0
               PROVE  Event(i) \in DOMAIN ev
    BY DEF Counted
  <2>1. CASE i < first
    BY <1>2, <1>3, <1>9, <2>1 DEF Counted
  <2>2. CASE i >= first
    BY <1>2, <1>3, <1>6, <1>7, <1>9, <1>11, <2>2
  <2> QED BY <1>2, <1>3, <2>1, <2>2
<1>12. ASSUME last = Whole(f) PROVE CursorIs(next) /\ PositionIn(next, f, ev)
  <2>1. next.total = log[Whole(f)] /\ next.total \in 0..MaxTotal
    <3>1. CASE last < first
      BY <1>2, <1>3, <1>4, <1>12, <3>1
    <3>2. CASE ~(last < first)
      BY <1>2, <1>12, <3>2, GainIs
    <3> QED BY <3>1, <3>2
  <2>2. /\ next.inode = f.inode /\ next.offset = Whole(f) + f.shift /\ next.skip = hermes
        /\ next = [inode |-> next.inode, offset |-> next.offset, total |-> next.total,
                   skip |-> next.skip]
    BY <1>3, <1>12
  <2> HIDE DEF next
  <2>3. CursorIs(next)
    <3>1. next.inode \in 0..inodes /\ next.inode # 0
      BY <1>2, <2>2 DEF Logged
    <3>2. next.offset \in 0..Len(log) + 1 /\ next.offset # 0
      <4>1. Len(log) \in Nat /\ Whole(f) \in Nat /\ 1 <= Whole(f) /\ Whole(f) <= Len(log)
        BY <1>2 DEF Logged
      <4>2. \A l, w \in Nat, h \in {0, 1} :
                1 <= w /\ w <= l => w + h \in 0..l + 1 /\ w + h # 0
        OBVIOUS
      <4> QED BY <1>2, <2>2, <4>1, <4>2
    <3>3. next.skip \in BOOLEAN
      BY <2>2 DEF Logged
    <3> QED BY <2>1, <2>2, <3>1, <3>2, <3>3 DEF CursorIs
  <2>4. next.offset - f.shift = Whole(f)
    BY <1>2, <2>2
  <2> QED BY <1>2, <1>11, <1>12, <2>1, <2>3, <2>4 DEF PositionIn
<1>13. next.inode = f.inode
  OBVIOUS
<1> HIDE DEF next
<1>14. /\ Upserted(r.codex, Read(r, f, n).events) = ev /\ Read(r, f, n).next = next
       /\ Read(r, f, n).whole = (last = Whole(f))
  <2>1. Read(r, f, n).events = found /\ Read(r, f, n).next = next
    BY <1>1
  <2>2. Read(r, f, n).whole = (last = Whole(f))
    BY <1>1 DEF Consumed
  <2> QED BY <2>1, <2>2, Zenon DEF ev
<1> QED BY <1>9, <1>10, <1>11, <1>12, <1>13, <1>14

LEMMA CountedMore ==
    ASSUME NEW ev, NEW more, DOMAIN ev \subseteq DOMAIN more, NEW k, Counted(ev, k)
    PROVE  Counted(more, k)
BY DEF Counted

LEMMA PositionMore ==
    ASSUME NEW ev, NEW more, DOMAIN ev \subseteq DOMAIN more, NEW c, NEW f, PositionIn(c, f, ev)
    PROVE  PositionIn(c, f, more)
BY CountedMore DEF PositionIn

(* What a collection has found so far. *)
Collected(r) ==
    /\ CursorIs(r.cursor) /\ EventsAre(r.codex) /\ r.failed \in BOOLEAN
    /\ \A p \in Paths : PositionIn(r.cursor, file[p], r.codex)

LEMMA VisitedIs ==
    ASSUME Logged, FoundFiles, NEW r, Collected(r), NEW p \in Paths, NEW n \in Nat
    PROVE  LET v == Visited(r, p, n) IN
           /\ Collected(v) /\ DOMAIN r.codex \subseteq DOMAIN v.codex
           /\ r.failed => v.failed
           /\ ~v.failed => Counted(v.codex, Whole(file[p]))
<1> DEFINE v == Visited(r, p, n)
           f == file[p]
           s == Read(r, f, n)
           ev == Upserted(r.codex, s.events)
<1>1. CASE f = NoFile
  <2>1. v = r
    BY <1>1 DEF Visited
  <2>2. Counted(r.codex, Whole(f))
    BY <1>1 DEF Counted, Whole, NoFile
  <2> HIDE DEF v, f
  <2> QED BY <2>1, <2>2 DEF v, f
<1>2. CASE f # NoFile
  <2>1. /\ EventsAre(ev) /\ DOMAIN r.codex \subseteq DOMAIN ev
        /\ s.whole \in BOOLEAN
        /\ s.whole => /\ CursorIs(s.next) /\ PositionIn(s.next, f, ev)
                      /\ s.next.inode = f.inode /\ Counted(ev, Whole(f))
    <3>1. RolloutIs(f) /\ inodes \in 1..MaxInode
      BY DEF FoundFiles
    <3>2. CursorIs(r.cursor) /\ EventsAre(r.codex) /\ PositionIn(r.cursor, f, r.codex)
      BY DEF Collected
    <3> HIDE DEF f
    <3> QED BY <1>2, <3>1, <3>2, ReadIs
  <2>2. v = [cursor |-> IF s.whole THEN s.next ELSE r.cursor, codex |-> ev,
             failed |-> r.failed \/ ~s.whole]
    BY <1>2 DEF Visited
  <2>3. /\ v.cursor = IF s.whole THEN s.next ELSE r.cursor
        /\ v.codex = ev /\ v.failed = (r.failed \/ ~s.whole)
    BY <2>2
  <2>4. f.inode # 0 /\ \A q \in Paths : q # p => file[q].inode # f.inode
    BY <1>2, WholeIs DEF FoundFiles, Paths
  <2> HIDE DEF v, s, ev
  <2>5. ASSUME NEW q \in Paths PROVE PositionIn(v.cursor, file[q], ev)
    <3>1. CASE ~s.whole
      BY <2>1, <2>3, <3>1, PositionMore DEF Collected
    <3>2. CASE s.whole /\ q = p
      BY <2>1, <2>3, <3>2
    <3>3. CASE s.whole /\ q # p
      BY <2>1, <2>3, <2>4, <3>3 DEF PositionIn
    <3> QED BY <2>1, <3>1, <3>2, <3>3
  <2>6. CursorIs(v.cursor)
    BY <2>1, <2>3 DEF Collected
  <2>7. r.failed \in BOOLEAN
    BY DEF Collected
  <2>8. Collected(v)
    BY <2>1, <2>3, <2>5, <2>6, <2>7 DEF Collected
  <2> HIDE DEF f
  <2> QED BY <2>1, <2>3, <2>7, <2>8 DEF v, f
<1> QED BY <1>1, <1>2

LEMMA WholesAre == Max({Whole(file[p]) : p \in Paths}) = Max({Whole(file[1]), Whole(file[2])})
<1>1. {Whole(file[p]) : p \in Paths} = {Whole(file[1]), Whole(file[2])}
  BY DEF Paths
<1> QED BY <1>1

(* What the last complete collections owe is counted. *)
DueIs ==
    /\ due = [codex |-> due.codex, opencode |-> due.opencode]
    /\ IF hermes THEN due.codex = 0
       ELSE \E n \in 0..Len(log) : due.codex = Used(log, n) /\ Counted(codex, n)

CodexInv ==
    /\ Logged /\ FoundFiles /\ CursorIs(cursor) /\ EventsAre(codex)
    /\ \A p \in Paths : PositionIn(cursor, file[p], codex)
    /\ DueIs

(* The tokens of the first n lines. *)
LEMMA UsedIs == \A t, n : Used(t, n) = Summed([i \in 1..n |-> Gain(t, i)])
BY DEF Used, Summed

LEMMA GainsCount ==
    ASSUME Logged, NEW n \in 0..Len(log) PROVE Countable([i \in 1..n |-> Gain(log, i)])
<1>1. IsFiniteSet(1..n)
  BY FS_Interval
<1>2. \A i \in 1..n : i \in 1..Len(log) /\ Gain(log, i) \in Nat
  BY GainIs, TokenAssumption DEF Logged, TokenAssumption
<1> QED BY <1>1, <1>2 DEF Countable

LEMMA UsedIsNat == ASSUME Logged, NEW n \in 0..Len(log) PROVE Used(log, n) \in Nat
<1> DEFINE g == [i \in 1..n |-> Gain(log, i)]
<1>1. Countable(g) /\ Used(log, n) = Summed(g)
  BY GainsCount, UsedIs
<1> HIDE DEF g
<1> QED BY <1>1, SummedIs, SumsAreNat

LEMMA EventsCount == ASSUME Logged, NEW ev, EventsAre(ev) PROVE Countable(ev)
<1> DEFINE f == [i \in 1..Len(log) |-> Event(i)]
           T == {Event(i) : i \in 1..Len(log)}
<1>1. f \in Surjection(1..Len(log), T)
  BY DEF Surjection
<1>2. IsFiniteSet(1..Len(log))
  BY FS_Interval DEF Logged
<1>3. IsFiniteSet(T)
  BY <1>1, <1>2, FS_Surjection
<1>4. DOMAIN ev \in SUBSET T
  BY DEF EventsAre
<1>5. IsFiniteSet(DOMAIN ev)
  BY <1>3, <1>4, FS_Subset
<1>6. \A e \in DOMAIN ev : ev[e] \in Nat
  BY GainIs, TokenAssumption DEF EventsAre, TokenAssumption
<1> QED BY <1>5, <1>6 DEF Countable

LEMMA FirstRollout ==
    [NoFile EXCEPT !.inode = 1, !.length = 1]
        = [inode |-> 1, length |-> 1, shift |-> 0, partial |-> FALSE]
<1> DEFINE x == [NoFile EXCEPT !.inode = 1, !.length = 1]
<1>1. x.inode = 1 /\ x.length = 1 /\ x.shift = 0 /\ x.partial = FALSE
  BY DEF NoFile
<1>2. x \in [inode : {0, 1}, length : {0, 1}, shift : {0}, partial : BOOLEAN]
  BY DEF NoFile
<1> HIDE DEF x
<1>3. x = [inode |-> 1, length |-> 1, shift |-> 0, partial |-> FALSE]
  BY <1>1, <1>2
<1> QED BY <1>3 DEF x

LEMMA CodexStarts == Init => CodexInv
<1> SUFFICES ASSUME Init PROVE CodexInv
  OBVIOUS
<1>1. /\ log = <<0>> /\ hermes \in BOOLEAN
      /\ file = [p \in Paths |-> IF p = 2 THEN [NoFile EXCEPT !.inode = 1, !.length = 1]
                                 ELSE NoFile]
      /\ cursor = NoCursor /\ codex = <<>> /\ inodes = 1
      /\ due = [codex |-> 0, opencode |-> opencode]
  BY DEF Init
<1>2. Logged
  BY <1>1, TokenAssumption DEF Logged, TokenAssumption
<1>3. FoundFiles
  <2> DEFINE one == [inode |-> 1, length |-> 1, shift |-> 0, partial |-> FALSE]
             none == [inode |-> 0, length |-> 0, shift |-> 0, partial |-> FALSE]
             R == [inode : 0..MaxInode, length : 0..Len(log), shift : {0, 1}, partial : BOOLEAN]
  <2>1. [NoFile EXCEPT !.inode = 1, !.length = 1] = one /\ NoFile = none
    BY FirstRollout DEF NoFile
  <2>2. file = [p \in Paths |-> IF p = 2 THEN one ELSE none]
    BY <1>1, <2>1
  <2>3. Len(log) = 1 /\ MaxInode >= 1 /\ MaxInode \in Nat
    BY <1>1, TokenAssumption DEF TokenAssumption
  <2>4. one \in R /\ none \in R
    <3>1. {0, 1} \subseteq 0..MaxInode /\ {0, 1} \subseteq 0..Len(log)
      BY <2>3
    <3> QED BY <3>1, Zenon
  <2>5. RolloutIs(one) /\ RolloutIs(none)
    <3>1. one.inode = 1 /\ one.length = 1 /\ one.partial = FALSE /\ none.inode = 0
      OBVIOUS
    <3> HIDE DEF one, none
    <3> QED BY <1>1, <2>1, <2>4, <3>1 DEF RolloutIs
  <2>6. one.inode = 1 /\ none.inode = 0
    OBVIOUS
  <2> HIDE DEF one, none
  <2>7. file \in [Paths -> R]
    BY <2>2, <2>4
  <2>8. file[1] = none /\ file[2] = one /\ \A p \in Paths : file[p] \in {one, none}
    BY <2>2 DEF Paths
  <2> QED BY <1>1, <2>3, <2>5, <2>6, <2>7, <2>8 DEF FoundFiles
<1>4. CursorIs(cursor) /\ cursor.inode = 0
  BY <1>1, <1>2, TokenAssumption DEF CursorIs, NoCursor, Logged, TokenAssumption
<1>5. EventsAre(codex)
  <2>1. codex = [e \in DOMAIN codex |-> codex[e]] /\ DOMAIN codex = {}
    BY <1>1
  <2> QED BY <2>1 DEF EventsAre
<1>6. DueIs
  <2> DEFINE g == [i \in 1..0 |-> Gain(log, i)]
  <2>1. Countable(g) /\ Used(log, 0) = Summed(g)
    <3>1. 0 \in 0..Len(log)
      BY <1>2 DEF Logged
    <3> QED BY <1>2, <3>1, GainsCount, UsedIs
  <2>2. DOMAIN g = {}
    OBVIOUS
  <2>3. Used(log, 0) = 0
    <3> HIDE DEF g
    <3> QED BY <2>1, <2>2, SummedIs, SumsAre DEF SumStep
  <2>4. Counted(codex, 0)
    BY DEF Counted
  <2> QED BY <1>1, <1>2, <2>3, <2>4 DEF DueIs, Logged
<1> QED BY <1>2, <1>3, <1>4, <1>5, <1>6 DEF CodexInv, PositionIn

LEMMA CodexStays ==
    ASSUME CodexInv, UNCHANGED codexVars, due' = due \/ \E o : due' = [due EXCEPT !.opencode = o]
    PROVE  CodexInv'
<1>1. due' = [codex |-> due.codex, opencode |-> due'.opencode]
  BY DEF CodexInv, DueIs
<1>2. DueIs'
  BY <1>1 DEF CodexInv, DueIs, codexVars, Counted, Event
<1>3. Logged' /\ FoundFiles' /\ CursorIs(cursor)' /\ EventsAre(codex)'
  BY DEF CodexInv, Logged, FoundFiles, RolloutIs, CursorIs, EventsAre, codexVars, Event
<1>4. \A p \in Paths : PositionIn(cursor, file[p], codex)'
  BY DEF CodexInv, PositionIn, codexVars, Counted, Event
<1> QED BY <1>2, <1>3, <1>4 DEF CodexInv

(* A rollout as it is found after another process has written it. *)
LEMMA FilesChange ==
    ASSUME CodexInv, UNCHANGED <<log, hermes, cursor, codex, due>>, FoundFiles',
           inodes' \in inodes..MaxInode,
           \A p \in Paths : file'[p].inode = cursor.inode =>
               \E q \in Paths : /\ file[q].inode = cursor.inode /\ file'[p].shift = file[q].shift
                                /\ Whole(file'[p]) >= Whole(file[q])
    PROVE  CodexInv'
<1>1. Logged' /\ EventsAre(codex)' /\ DueIs'
  BY DEF CodexInv, Logged, EventsAre, Event, DueIs, Counted
<1>2. CursorIs(cursor)'
  BY DEF CodexInv, CursorIs, FoundFiles
<1>3. ASSUME NEW p \in Paths, cursor.inode # 0, file'[p].inode = cursor.inode
      PROVE  LET k == cursor.offset - file'[p].shift IN
             k \in 1..Whole(file'[p]) /\ cursor.total = log[k] /\ Counted(codex, k)
  <2>1. PICK q \in Paths : /\ file[q].inode = cursor.inode /\ file'[p].shift = file[q].shift
                           /\ Whole(file'[p]) >= Whole(file[q])
    BY <1>3
  <2>2. LET k == cursor.offset - file[q].shift IN
        k \in 1..Whole(file[q]) /\ cursor.total = log[k] /\ Counted(codex, k)
    BY <1>3, <2>1 DEF CodexInv, PositionIn
  <2>3. Whole(file[q]) \in Nat
    BY WholeIs DEF CodexInv, FoundFiles, Logged
  <2>4. Whole(file'[p]) \in Int
    <3>1. file'[p].length \in Int
      BY DEF FoundFiles
    <3> QED BY <3>1 DEF Whole
  <2> QED BY <2>1, <2>2, <2>3, <2>4
<1>4. \A p \in Paths : PositionIn(cursor, file[p], codex)'
  BY <1>3 DEF PositionIn, Whole, Counted, Event
<1> QED BY <1>1, <1>2, <1>4 DEF CodexInv

LEMMA CompleteKept == ASSUME CodexInv, Complete PROVE CodexInv'
<1>1. /\ file[2].partial /\ file' = [file EXCEPT ![2].partial = FALSE]
      /\ UNCHANGED <<log, hermes, cursor, codex, due, inodes>>
  BY DEF Complete
<1>2. FoundFiles /\ Logged
  BY DEF CodexInv
<1>3. /\ file'[2] = [file[2] EXCEPT !.partial = FALSE] /\ file'[1] = file[1]
      /\ 1 \in Paths /\ 2 \in Paths /\ \A p \in Paths : p = 1 \/ p = 2
  BY <1>1, <1>2 DEF FoundFiles, Paths
<1>4. /\ file'[2].inode = file[2].inode /\ file'[2].shift = file[2].shift
      /\ file'[2].length = file[2].length /\ file'[2].partial = FALSE
  BY <1>2, <1>3 DEF FoundFiles
<1>5. file[2].inode # 0
  BY <1>1, <1>2, <1>3 DEF FoundFiles, RolloutIs, NoFile
<1>6. FoundFiles'
  <2>1. file' \in [Paths -> [inode : 0..MaxInode, length : 0..Len(log), shift : {0, 1},
                             partial : BOOLEAN]]
    BY <1>1, <1>2 DEF FoundFiles
  <2>2. RolloutIs(file[2])'
    BY <1>1, <1>2, <1>3, <1>4, <1>5, <2>1 DEF FoundFiles, RolloutIs
  <2>3. RolloutIs(file[1])'
    BY <1>1, <1>2, <1>3 DEF FoundFiles, RolloutIs
  <2> QED BY <1>1, <1>2, <1>3, <1>4, <2>1, <2>2, <2>3 DEF FoundFiles
<1>7. \A p \in Paths : /\ file'[p].inode = file[p].inode /\ file'[p].shift = file[p].shift
                         /\ Whole(file'[p]) >= Whole(file[p])
  <2>1. file[1].length \in Int /\ file[2].length \in Int
    BY <1>2, <1>3 DEF FoundFiles
  <2>2. Whole(file'[2]) = file[2].length /\ Whole(file[2]) = file[2].length - 1
    BY <1>1, <1>4 DEF Whole
  <2>3. Whole(file'[1]) = Whole(file[1]) /\ Whole(file[1]) \in Int
    BY <1>3, <2>1 DEF Whole
  <2>4. ASSUME NEW p \in Paths
        PROVE  /\ file'[p].inode = file[p].inode /\ file'[p].shift = file[p].shift
               /\ Whole(file'[p]) >= Whole(file[p])
    <3>1. CASE p = 1
      BY <1>3, <2>3, <3>1
    <3>2. CASE p = 2
      BY <1>4, <2>1, <2>2, <3>2
    <3> QED BY <1>3, <3>1, <3>2
  <2> QED BY <2>4
<1>8. inodes' \in inodes..MaxInode
  BY <1>1, <1>2 DEF FoundFiles
<1> QED BY <1>1, <1>6, <1>7, <1>8, FilesChange

LEMMA CopyKept ==
    ASSUME CodexInv, NEW from \in Paths, NEW to \in Paths, NEW shift \in {0, 1},
           Copy(from, to, shift)
    PROVE  CodexInv'
<1> DEFINE new == [file[from] EXCEPT !.inode = inodes', !.shift = shift]
<1>1. /\ file[from] # NoFile /\ ~file[from].partial /\ inodes < MaxInode /\ inodes' = inodes + 1
      /\ file' = [file EXCEPT ![to] = new]
      /\ UNCHANGED <<log, hermes, cursor, codex, due>>
  BY DEF Copy
<1>2. FoundFiles /\ Logged /\ CursorIs(cursor)
  BY DEF CodexInv
<1>3. inodes' \in inodes..MaxInode /\ inodes' \in 1..MaxInode /\ cursor.inode < inodes'
      /\ \A p \in Paths : file[p].inode < inodes'
  <2>1. /\ MaxInode \in Nat /\ inodes \in 1..MaxInode /\ cursor.inode \in 0..inodes
        /\ \A p \in Paths : file[p].inode = 0 \/ file[p].inode <= inodes
    BY <1>2, TokenAssumption DEF FoundFiles, CursorIs, RolloutIs, TokenAssumption
  <2>2. \A p \in Paths : file[p].inode \in Int
    BY <1>2 DEF FoundFiles
  <2> QED BY <1>1, <2>1, <2>2
<1>4. /\ new \in [inode : 0..MaxInode, length : 0..Len(log), shift : {0, 1}, partial : BOOLEAN]
      /\ new.inode = inodes' /\ new.length = file[from].length /\ new.partial = file[from].partial
  <2>1. file[from] \in [inode : 0..MaxInode, length : 0..Len(log), shift : {0, 1},
                         partial : BOOLEAN]
    BY <1>2 DEF FoundFiles
  <2>2. inodes' \in 0..MaxInode
    BY <1>3
  <2> QED BY <2>1, <2>2
<1>5. file[from].inode # 0 /\ file[from].length >= 1
  BY <1>1, <1>2 DEF FoundFiles, RolloutIs
<1> HIDE DEF new
<1>6. FoundFiles'
  <2>1. file' \in [Paths -> [inode : 0..MaxInode, length : 0..Len(log), shift : {0, 1},
                             partial : BOOLEAN]]
    BY <1>1, <1>2, <1>4 DEF FoundFiles
  <2>2. ASSUME NEW p \in Paths PROVE RolloutIs(file[p])'
    <3>1. CASE p = to
      BY <1>1, <1>2, <1>3, <1>4, <1>5, <3>1 DEF FoundFiles, RolloutIs
    <3>2. CASE p # to
      BY <1>1, <1>2, <1>3, <3>2 DEF FoundFiles, RolloutIs
    <3> QED BY <3>1, <3>2
  <2>3. file'[1].inode # 0 => file'[1].inode # file'[2].inode
    BY <1>1, <1>2, <1>3, <1>4 DEF FoundFiles, Paths
  <2> QED BY <1>1, <1>3, <2>1, <2>2, <2>3 DEF FoundFiles
<1>7. \A p \in Paths : file'[p].inode = cursor.inode => p # to /\ file'[p] = file[p]
  BY <1>1, <1>2, <1>3, <1>4 DEF FoundFiles
<1>8. \A p \in Paths : Whole(file[p]) >= Whole(file[p])
  BY <1>2 DEF FoundFiles, Whole
<1> QED BY <1>1, <1>3, <1>6, <1>7, <1>8, FilesChange

LEMMA MoveKept == ASSUME CodexInv, Move PROVE CodexInv'
<1>1. /\ file[2] # NoFile /\ file' = [file EXCEPT ![1] = file[2], ![2] = NoFile]
      /\ UNCHANGED <<log, hermes, cursor, codex, due, inodes>>
  BY DEF Move
<1>2. FoundFiles /\ Logged
  BY DEF CodexInv
<1>3. /\ file'[1] = file[2] /\ file'[2] = NoFile
      /\ 1 \in Paths /\ 2 \in Paths /\ \A p \in Paths : p = 1 \/ p = 2
  BY <1>1, <1>2 DEF FoundFiles, Paths
<1>4. FoundFiles'
  <2>1. file' \in [Paths -> [inode : 0..MaxInode, length : 0..Len(log), shift : {0, 1},
                             partial : BOOLEAN]]
    <3>1. {0} \subseteq 0..MaxInode /\ {0} \subseteq 0..Len(log)
      BY <1>2, TokenAssumption DEF Logged, TokenAssumption
    <3>2. NoFile \in [inode : 0..MaxInode, length : 0..Len(log), shift : {0, 1}, partial : BOOLEAN]
      BY <3>1 DEF NoFile
    <3> QED BY <1>1, <1>2, <1>3, <3>2 DEF FoundFiles
  <2>2. RolloutIs(file[1])' /\ RolloutIs(file[2])'
    BY <1>1, <1>2, <1>3, <2>1 DEF FoundFiles, RolloutIs, NoFile
  <2>3. file[2].inode # 0 /\ NoFile.inode = 0
    BY <1>1, <1>2, <1>3 DEF FoundFiles, RolloutIs, NoFile
  <2> QED BY <1>1, <1>2, <1>3, <2>1, <2>2, <2>3 DEF FoundFiles
<1>5. Whole(file[2]) >= Whole(file[2]) /\ \A q \in Paths : Whole(file[q]) >= Whole(file[q])
  BY <1>2, <1>3 DEF FoundFiles, Whole
<1>6. inodes' \in inodes..MaxInode
  BY <1>1, <1>2 DEF FoundFiles
<1>7. cursor.inode = 0 => CodexInv'
  <2>1. ASSUME cursor.inode = 0 PROVE CodexInv'
    <3>1. Logged' /\ EventsAre(codex)' /\ DueIs'
      BY <1>1 DEF CodexInv, Logged, EventsAre, Event, DueIs, Counted
    <3>2. CursorIs(cursor)'
      BY <1>1 DEF CodexInv, CursorIs
    <3> QED BY <1>1, <1>4, <2>1, <3>1, <3>2 DEF CodexInv, PositionIn
  <2> QED BY <2>1
<1>8. NoFile.inode = 0
  BY DEF NoFile
<1> QED BY <1>1, <1>3, <1>4, <1>5, <1>6, <1>7, <1>8, FilesChange

LEMMA RecordKept ==
    ASSUME CodexInv, NEW v \in 1..MaxTotal, NEW partial \in BOOLEAN, Record(v, partial)
    PROVE  CodexInv'
<1>1. /\ file[2] # NoFile /\ ~file[2].partial /\ file[2].length = Len(log)
      /\ log' = Append(log, v)
      /\ file' = [file EXCEPT ![2].length = @ + 1, ![2].partial = partial]
      /\ UNCHANGED <<hermes, cursor, codex, due, inodes>>
  BY DEF Record
<1>2. FoundFiles /\ Logged /\ CursorIs(cursor) /\ EventsAre(codex) /\ DueIs
  BY DEF CodexInv
<1>3. /\ Logged' /\ Len(log') = Len(log) + 1 /\ Len(log) \in Nat
      /\ \A i \in 1..Len(log) : log'[i] = log[i]
  <2>1. log \in Seq(0..MaxTotal) /\ v \in 0..MaxTotal
    BY <1>2 DEF Logged
  <2>2. log' \in Seq(0..MaxTotal)
    BY <1>1, <2>1
  <2>3. /\ Len(log') = Len(log) + 1 /\ Len(log) \in Nat
        /\ \A i \in 1..Len(log) : log'[i] = log[i]
    BY <1>1, <2>1
  <2> QED BY <1>1, <1>2, <2>2, <2>3 DEF Logged
<1>4. \A i \in 1..Len(log) : Gain(log', i) = Gain(log, i) /\ Event(i)' = Event(i)
  BY <1>3 DEF Gain, Event
<1>5. \A n \in 0..Len(log) : Used(log', n) = Used(log, n)
  <2> SUFFICES ASSUME NEW n \in 0..Len(log) PROVE Used(log', n) = Used(log, n)
    OBVIOUS
  <2>1. \A i \in 1..n : Gain(log', i) = Gain(log, i)
    BY <1>3, <1>4
  <2>2. [i \in 1..n |-> Gain(log', i)] = [i \in 1..n |-> Gain(log, i)]
    BY <2>1
  <2> QED BY <2>2, UsedIs
<1>6. ASSUME NEW k \in 0..Len(log), Counted(codex, k) PROVE Counted(codex, k)'
  BY <1>1, <1>3, <1>4, <1>6 DEF Counted
<1>7. EventsAre(codex)'
  <2>1. ASSUME NEW e \in DOMAIN codex
        PROVE  \E i \in 1..Len(log') :
                   e = Event(i)' /\ codex[e] = Gain(log', i) /\ codex[e] > 0
    <3>1. PICK i \in 1..Len(log) : e = Event(i) /\ codex[e] = Gain(log, i) /\ codex[e] > 0
      BY <1>2 DEF EventsAre
    <3> QED BY <1>3, <1>4, <3>1
  <2> QED BY <1>1, <1>2, <2>1 DEF EventsAre
<1>8. DueIs'
  <2>1. CASE hermes
    BY <1>1, <1>2, <2>1 DEF DueIs
  <2>2. CASE ~hermes
    <3>1. PICK n \in 0..Len(log) : due.codex = Used(log, n) /\ Counted(codex, n)
      BY <1>2, <2>2 DEF DueIs
    <3>2. n \in 0..Len(log') /\ due'.codex = Used(log', n) /\ Counted(codex, n)'
      BY <1>1, <1>3, <1>5, <1>6, <3>1
    <3> QED BY <1>1, <1>2, <2>2, <3>2 DEF DueIs
  <2> QED BY <2>1, <2>2
<1>9. /\ file'[1] = file[1] /\ file'[2].inode = file[2].inode /\ file'[2].shift = file[2].shift
      /\ file'[2].length = Len(log) + 1 /\ file'[2].partial = partial
      /\ file' \in [Paths -> [inode : 0..MaxInode, length : 0..Len(log'), shift : {0, 1},
                              partial : BOOLEAN]]
  <2> DEFINE R == [inode : 0..MaxInode, length : 0..Len(log'), shift : {0, 1}, partial : BOOLEAN]
  <2>1. \A p \in Paths : file[p] \in [inode : 0..MaxInode, length : 0..Len(log), shift : {0, 1},
                                      partial : BOOLEAN]
    BY <1>2 DEF FoundFiles
  <2>2. 0..Len(log) \subseteq 0..Len(log') /\ Len(log) + 1 \in 0..Len(log')
    BY <1>3
  <2>3. \A p \in Paths : file[p] \in R
    BY <2>1, <2>2
  <2>4. file'[1] = file[1] /\ file'[2] = [file[2] EXCEPT !.length = @ + 1, !.partial = partial]
    BY <1>1, <1>2 DEF FoundFiles, Paths
  <2>5. [file[2] EXCEPT !.length = @ + 1, !.partial = partial] \in R
    BY <1>1, <2>2, <2>3 DEF Paths
  <2>6. DOMAIN file' = Paths /\ file' = [p \in Paths |-> file'[p]]
    BY <1>1, <1>2 DEF FoundFiles
  <2>7. file' \in [Paths -> R]
    BY <2>3, <2>4, <2>5, <2>6 DEF Paths
  <2> QED BY <1>1, <2>1, <2>4, <2>7 DEF Paths
<1>10. file[2].inode # 0 /\ Whole(file[2]) = Len(log) /\ Whole(file'[2]) >= Len(log)
  BY <1>1, <1>2, <1>3, <1>9 DEF FoundFiles, RolloutIs, Whole, Paths
<1>11. FoundFiles'
  <2>1. RolloutIs(file[2])'
    BY <1>1, <1>2, <1>3, <1>9, <1>10 DEF FoundFiles, RolloutIs, Logged, Paths
  <2>2. RolloutIs(file[1])'
    BY <1>1, <1>2, <1>9 DEF FoundFiles, RolloutIs, Paths
  <2> QED BY <1>1, <1>2, <1>9, <2>1, <2>2 DEF FoundFiles, Paths
<1>12. CursorIs(cursor)'
  BY <1>1, <1>2, <1>3 DEF CursorIs
<1>13. ASSUME NEW p \in Paths, cursor.inode # 0, cursor.inode = file'[p].inode
       PROVE  PositionIn(cursor, file[p], codex)'
  <2>1. file'[p].inode = file[p].inode /\ file'[p].shift = file[p].shift
    BY <1>9 DEF Paths
  <2>2. PICK k \in Int : k = cursor.offset - file[p].shift
    BY <1>2 DEF CursorIs, FoundFiles
  <2>3. k \in 1..Whole(file[p]) /\ cursor.total = log[k] /\ Counted(codex, k)
    BY <1>13, <2>1, <2>2 DEF CodexInv, PositionIn
  <2>4. Whole(file[p]) \in 0..Len(log)
    BY <1>2, WholeIs DEF FoundFiles
  <2>5. Whole(file'[p]) >= Whole(file[p]) /\ Whole(file'[p]) \in Int
    <3>1. file'[p].length \in Int
      BY <1>9
    <3> QED BY <1>9, <1>10, <2>4, <3>1 DEF Paths, Whole
  <2>6. k \in 1..Len(log) /\ k \in 1..Whole(file'[p])
    BY <1>3, <2>3, <2>4, <2>5
  <2>7. cursor.total = log'[k] /\ Counted(codex, k)'
    BY <1>3, <1>6, <2>3, <2>6
  <2>8. cursor'.offset - file'[p].shift = k
    BY <1>1, <2>1, <2>2
  <2> QED BY <1>1, <2>6, <2>7, <2>8 DEF PositionIn, Whole, Counted, Event
<1>14. \A p \in Paths : PositionIn(cursor, file[p], codex)'
  BY <1>1, <1>13 DEF PositionIn
<1> QED BY <1>3, <1>7, <1>8, <1>11, <1>12, <1>14 DEF CodexInv

LEMMA CollectCodexKept ==
    ASSUME CodexInv, NEW n \in Nat, NEW m \in Nat, CollectCodex(n, m) PROVE CodexInv'
<1> DEFINE q == [cursor |-> cursor, codex |-> codex, failed |-> FALSE]
           s == Visited(q, 1, n)
           r == Visited(s, 2, m)
           longest == Max({Whole(file[p]) : p \in Paths})
<1>1. /\ cursor' = r.cursor /\ codex' = r.codex
      /\ due' = IF r.failed \/ hermes THEN due
                ELSE [due EXCEPT !.codex = Max({@, Used(log, longest)})]
      /\ UNCHANGED <<log, hermes, file, inodes>>
  BY DEF CollectCodex
<1>2. Logged /\ FoundFiles /\ Collected(q) /\ DueIs
  <2>1. q.cursor = cursor /\ q.codex = codex /\ q.failed = FALSE
    OBVIOUS
  <2> HIDE DEF q
  <2> QED BY <2>1 DEF CodexInv, Collected
<1>3. 1 \in Paths /\ 2 \in Paths /\ q.codex = codex /\ q.failed = FALSE
  BY DEF Paths
<1> HIDE DEF q
<1>4. /\ Collected(s) /\ DOMAIN codex \subseteq DOMAIN s.codex
      /\ ~s.failed => Counted(s.codex, Whole(file[1]))
  BY <1>2, <1>3, VisitedIs
<1> HIDE DEF s
<1>5. /\ Collected(r) /\ DOMAIN s.codex \subseteq DOMAIN r.codex
      /\ s.failed => r.failed
      /\ ~r.failed => Counted(r.codex, Whole(file[2]))
  BY <1>2, <1>3, <1>4, VisitedIs
<1> HIDE DEF r
<1>6. DOMAIN codex \subseteq DOMAIN r.codex /\ (~r.failed => Counted(r.codex, Whole(file[1])))
  BY <1>4, <1>5, CountedMore
<1>7. \A ev, k : Counted(ev, k)' <=> Counted(ev', k)
  BY <1>1 DEF Counted, Event
<1>8. Logged' /\ FoundFiles' /\ CursorIs(cursor)' /\ EventsAre(codex)'
  BY <1>1, <1>2, <1>5 DEF Logged, FoundFiles, RolloutIs, CursorIs, EventsAre, Event, Collected
<1>9. \A p \in Paths : PositionIn(cursor, file[p], codex)'
  BY <1>1, <1>5 DEF Collected, PositionIn, Counted, Event
<1>10. DueIs'
  <2>1. CASE hermes
    BY <1>1, <1>2, <2>1 DEF DueIs
  <2>2. CASE ~hermes /\ r.failed
    <3>1. PICK k \in 0..Len(log) : due.codex = Used(log, k) /\ Counted(codex, k)
      BY <1>2, <2>2 DEF DueIs
    <3>2. Counted(r.codex, k)
      BY <1>6, <3>1, CountedMore
    <3> QED BY <1>1, <1>2, <2>2, <3>1, <3>2 DEF DueIs, Counted, Event
  <2>3. CASE ~hermes /\ ~r.failed
    <3>1. PICK k \in 0..Len(log) : due.codex = Used(log, k) /\ Counted(codex, k)
      BY <1>2, <2>3 DEF DueIs
    <3>2. /\ longest \in 0..Len(log) /\ Counted(r.codex, longest)
      <4>1. Whole(file[1]) \in 0..Len(log) /\ Whole(file[2]) \in 0..Len(log)
        BY <1>2, <1>3, WholeIs DEF FoundFiles
      <4>2. longest = IF Whole(file[1]) >= Whole(file[2]) THEN Whole(file[1]) ELSE Whole(file[2])
        BY <4>1, WholesAre, MaxOfTwo
      <4> HIDE DEF longest
      <4> QED BY <1>5, <1>6, <2>3, <4>1, <4>2
    <3> HIDE DEF longest
    <3>3. Counted(r.codex, k)
      BY <1>6, <3>1, CountedMore
    <3>4. Used(log, longest) \in Nat /\ Used(log, k) \in Nat
      BY <1>2, <3>2, UsedIsNat
    <3>5. due' = [due EXCEPT !.codex = Max({due.codex, Used(log, longest)})]
      BY <1>1, <2>3 DEF longest
    <3>6. due'.codex = Used(log, longest) \/ due'.codex = Used(log, k)
      <4>1. Max({due.codex, Used(log, longest)}) \in {due.codex, Used(log, longest)}
        BY <3>1, <3>4, MaxOfTwo
      <4>2. due'.codex = Max({due.codex, Used(log, longest)})
        BY <1>2, <3>5 DEF DueIs
      <4> QED BY <3>1, <4>1, <4>2
    <3>7. due' = [codex |-> due'.codex, opencode |-> due'.opencode]
      BY <1>2, <3>5 DEF DueIs
    <3>8. \E j \in 0..Len(log) : due'.codex = Used(log, j) /\ Counted(r.codex, j)
      BY <3>1, <3>2, <3>3, <3>6
    <3> QED BY <1>1, <2>3, <3>7, <3>8 DEF DueIs, Counted, Event
  <2> QED BY <2>1, <2>2, <2>3
<1> QED BY <1>8, <1>9, <1>10 DEF CodexInv

LEMMA CodexKept == CodexInv /\ [Next]_vars => CodexInv'
<1> SUFFICES ASSUME CodexInv, [Next]_vars PROVE CodexInv'
  OBVIOUS
<1>1. ASSUME UNCHANGED codexVars, due' = due \/ \E o : due' = [due EXCEPT !.opencode = o]
      PROVE  CodexInv'
  BY <1>1, CodexStays
<1>2. CASE UNCHANGED vars
  BY <1>1, <1>2 DEF vars
<1>3. CASE HermesNext
  BY <1>1, <1>3 DEF HermesNext, Use, StartAgain, CollectHermes
<1>4. CASE OpencodeNext
  <2>1. CASE \E until \in 0..MaxTime + 1 : CollectOpencode(until)
    BY <1>1, <2>1 DEF CollectOpencode
  <2>2. CASE Tick \/ \E i \in Messages, t \in 1..MaxTime, done \in BOOLEAN : Answer(i, t, done)
    BY <1>1, <2>2 DEF Tick, Answer
  <2> QED BY <1>4, <2>1, <2>2 DEF OpencodeNext
<1>5. CASE CodexNext
  <2>1. CASE \E n, m \in 0..Len(log) : CollectCodex(n, m)
    BY <2>1, CollectCodexKept DEF CodexInv, Logged
  <2> QED BY <1>5, <2>1, RecordKept, CompleteKept, MoveKept, CopyKept DEF CodexNext
<1> QED BY <1>2, <1>3, <1>4, <1>5 DEF Next

LEMMA CodexCounts == ASSUME CodexInv PROVE CodexCountedOnce /\ HermesLeftOut
<1> DEFINE g(n) == [i \in 1..n |-> Gain(log, i)]
           all == g(Len(log))
<1>1. /\ Logged /\ EventsAre(codex) /\ DueIs /\ Len(log) \in Nat
      /\ Countable(codex)
  BY EventsCount DEF CodexInv, Logged
<1>2. Countable(all) /\ Used(log, Len(log)) = Summed(all)
  BY <1>1, GainsCount, UsedIs
<1>3. Summed(codex) <= Summed(all)
  <2> DEFINE line == [e \in DOMAIN codex |-> e[1]]
  <2>1. \A e \in DOMAIN codex : /\ line[e] \in 1..Len(log) /\ e = Event(line[e])
                                /\ codex[e] = Gain(log, line[e])
    BY <1>1 DEF EventsAre, Event
  <2> HIDE DEF line
  <2>2. \A x, y \in DOMAIN codex : line[x] = line[y] => x = y
    BY <2>1
  <2>3. \A x \in DOMAIN codex : line[x] \in DOMAIN all /\ all[line[x]] = codex[x]
    BY <2>1
  <2> HIDE DEF all
  <2>4. \A x \in DOMAIN codex : codex[x] <= all[line[x]]
    <3>1. \A x \in DOMAIN codex : codex[x] \in Nat
      BY <1>1 DEF Countable
    <3> QED BY <2>3, <3>1
  <2> QED BY <1>1, <1>2, <2>2, <2>3, <2>4, SumAtMost
<1>4. Summed(codex) \in Nat /\ Summed(all) \in Nat
  <2> HIDE DEF all
  <2> QED BY <1>1, <1>2, SummedIs, SumsAreNat
<1>5. due.codex \in Nat /\ due.codex <= Summed(codex)
  <2>1. CASE hermes
    BY <1>1, <1>4, <2>1 DEF DueIs
  <2>2. CASE ~hermes
    <3>1. PICK n \in 0..Len(log) : due.codex = Used(log, n) /\ Counted(codex, n)
      BY <1>1, <2>2 DEF DueIs
    <3> DEFINE some == g(n)
               event == [i \in 1..n |-> Event(i)]
    <3>2. Countable(some) /\ Used(log, n) = Summed(some) /\ Used(log, n) \in Nat
      BY <1>1, GainsCount, UsedIs, UsedIsNat
    <3>3. \A i \in DOMAIN some : i \in 1..n /\ some[i] = Gain(log, i) /\ event[i] = Event(i)
      OBVIOUS
    <3>4. \A x, y \in DOMAIN some : event[x] = event[y] => x = y
      BY DEF Event
    <3> HIDE DEF some, event
    <3>5. ASSUME NEW x \in DOMAIN some, some[x] # 0
          PROVE  event[x] \in DOMAIN codex /\ some[x] <= codex[event[x]]
      <4>1. Event(x) \in DOMAIN codex
        BY <2>2, <3>1, <3>3, <3>5 DEF Counted
      <4>2. codex[Event(x)] = Gain(log, x)
        BY <1>1, <4>1 DEF EventsAre, Event
      <4>3. some[x] \in Nat
        BY <3>2 DEF Countable
      <4> QED BY <3>3, <4>1, <4>2, <4>3
    <3>6. Summed(some) <= Summed(codex)
      BY <1>1, <3>2, <3>4, <3>5, SumAtMost
    <3> QED BY <3>1, <3>2, <3>6
  <2> QED BY <2>1, <2>2
<1>6. CodexCountedOnce
  <2> HIDE DEF all
  <2> QED BY <1>2, <1>3, <1>4, <1>5 DEF CodexCountedOnce
<1>7. hermes => codex = <<>>
  <2>1. hermes => DOMAIN codex = {} /\ codex = [e \in DOMAIN codex |-> codex[e]]
    BY <1>1 DEF EventsAre
  <2> QED BY <2>1
<1> QED BY <1>6, <1>7 DEF HermesLeftOut

-----------------------------------------------------------------------------
(* OpenCode: an answer older than the next reading's start has been read.   *)

LEMMA LargestExists ==
    ASSUME NEW T \in SUBSET Int, T # {}, NEW K \in Int, \A x \in T : x <= K
    PROVE  /\ Max(T) \in T /\ \A x \in T : x <= Max(T)
<1> DEFINE S == {K - x : x \in T}
<1>1. S \in SUBSET Nat /\ S # {}
  <2>1. \A x \in T : K - x \in Nat
    OBVIOUS
  <2> QED BY <2>1
<1>2. PICK y \in S : \A z \in S : y <= z
  BY <1>1, SmallestExists
<1>3. PICK x \in T : y = K - x
  OBVIOUS
<1>4. \A z \in T : x >= z
  <2>1. \A z \in T : K - z \in S
    OBVIOUS
  <2> HIDE DEF S
  <2> QED BY <1>2, <1>3, <2>1
<1>5. \E m \in T : \A z \in T : m >= z
  BY <1>4
<1>6. Max(T) \in T /\ \A z \in T : Max(T) >= z
  BY <1>5 DEF Max
<1> QED BY <1>6

OpenInv ==
    /\ message \in [Messages -> [updated : 0..MaxTime, done : BOOLEAN]]
    /\ clock \in Nat /\ \A m \in Messages : message[m].updated <= clock
    /\ watermark \in 0..MaxTime /\ watermark <= clock
    /\ opencode \in [Messages -> 0..MaxTime]
    /\ due = [codex |-> due.codex, opencode |-> due.opencode]
    /\ due.opencode \in [Messages -> 0..MaxTime]
    /\ \A m \in Messages :
           /\ due.opencode[m] <= opencode[m] /\ opencode[m] <= message[m].updated
           /\ message[m].done /\ message[m].updated < Since => opencode[m] = message[m].updated

LEMMA OpenStarts == Init => OpenInv
<1> SUFFICES ASSUME Init PROVE OpenInv
  OBVIOUS
<1>1. /\ message = [m \in Messages |-> Unread] /\ watermark = 0
      /\ opencode = [m \in Messages |-> 0] /\ clock = 1
      /\ due = [codex |-> 0, opencode |-> opencode]
  BY DEF Init
<1>2. Unread \in [updated : 0..MaxTime, done : BOOLEAN] /\ Unread.updated = 0 /\ 0 \in 0..MaxTime
  BY TokenAssumption DEF Unread, TokenAssumption
<1>3. Since = 0
  BY <1>1, TokenAssumption DEF Since, TokenAssumption
<1> QED BY <1>1, <1>2, <1>3 DEF OpenInv

LEMMA OpenStays ==
    ASSUME OpenInv, UNCHANGED openVars, due' = due \/ \E c : due' = [due EXCEPT !.codex = c]
    PROVE  OpenInv'
<1>1. due' = [codex |-> due'.codex, opencode |-> due.opencode]
  BY DEF OpenInv
<1> QED BY <1>1 DEF OpenInv, openVars, Since

LEMMA TickKept == ASSUME OpenInv, Tick PROVE OpenInv'
BY DEF OpenInv, Tick, Since

LEMMA AnswerKept ==
    ASSUME OpenInv, NEW m \in Messages, NEW t \in 1..MaxTime, NEW done \in BOOLEAN,
           Answer(m, t, done)
    PROVE  OpenInv'
<1> DEFINE new == [updated |-> t, done |-> done]
<1>1. /\ clock <= t + Overlap /\ t <= clock /\ t > message[m].updated
      /\ message' = [message EXCEPT ![m] = new]
      /\ UNCHANGED <<watermark, opencode, clock, due>>
  BY DEF Answer
<1>2. /\ Overlap \in Nat /\ MaxTime \in Nat /\ watermark \in Nat /\ clock \in Nat
      /\ watermark <= clock
  BY TokenAssumption DEF OpenInv, TokenAssumption
<1>3. ~(t < Since) /\ Since' = Since
  BY <1>1, <1>2 DEF Since
<1>4. new \in [updated : 0..MaxTime, done : BOOLEAN] /\ new.updated = t
  BY <1>2
<1> HIDE DEF new
<1>5. \A i \in Messages : message'[i] = IF i = m THEN new ELSE message[i]
  BY <1>1 DEF OpenInv
<1>6. message' \in [Messages -> [updated : 0..MaxTime, done : BOOLEAN]]
  BY <1>1, <1>4 DEF OpenInv
<1>7. \A i \in Messages : opencode[i] \in Int /\ message[i].updated \in Int
  BY DEF OpenInv
<1>8. ASSUME NEW i \in Messages
      PROVE  /\ message'[i].updated <= clock /\ opencode[i] <= message'[i].updated
             /\ message'[i].done /\ message'[i].updated < Since
                    => opencode[i] = message'[i].updated
  <2>1. CASE i = m
    BY <1>1, <1>3, <1>4, <1>5, <1>7, <2>1 DEF OpenInv
  <2>2. CASE i # m
    BY <1>5, <2>2 DEF OpenInv
  <2> QED BY <2>1, <2>2
<1> QED BY <1>1, <1>3, <1>6, <1>8 DEF OpenInv

LEMMA CollectOpencodeKept ==
    ASSUME OpenInv, NEW until \in 0..MaxTime + 1, CollectOpencode(until) PROVE OpenInv'
<1> DEFINE rows == {m \in Messages : message[m].updated \in Since .. until - 1}
           times == {Since} \cup {message[m].updated : m \in rows}
<1>1. /\ opencode' = [m \in Messages |-> IF m \in rows /\ message[m].done
                                         THEN message[m].updated ELSE opencode[m]]
      /\ watermark' = IF until > MaxTime THEN Max(times) ELSE watermark
      /\ due' = IF until > MaxTime THEN [due EXCEPT !.opencode = [m \in Messages |->
                    IF message[m].done THEN message[m].updated ELSE @[m]]] ELSE due
      /\ UNCHANGED <<message, clock>>
  BY DEF CollectOpencode
<1>2. /\ Overlap \in Nat /\ MaxTime \in Nat /\ watermark \in 0..MaxTime /\ clock \in Nat
      /\ watermark <= clock
      /\ \A m \in Messages : /\ message[m].updated \in 0..MaxTime /\ message[m].updated <= clock
                             /\ message[m].done \in BOOLEAN
                             /\ opencode[m] \in 0..MaxTime /\ due.opencode[m] \in 0..MaxTime
  BY TokenAssumption DEF OpenInv, TokenAssumption
<1>3. Since \in 0..watermark
  BY <1>2 DEF Since
<1>4. watermark' \in 0..MaxTime /\ watermark' <= clock
  <2>1. CASE until > MaxTime
    <3>1. times \in SUBSET Int /\ times # {} /\ \A x \in times : x \in 0..MaxTime /\ x <= clock
      BY <1>2, <1>3
    <3> HIDE DEF times
    <3>2. Max(times) \in times
      BY <1>2, <3>1, LargestExists
    <3> QED BY <1>1, <2>1, <3>1, <3>2
  <2>2. CASE ~(until > MaxTime)
    BY <1>1, <1>2, <2>2
  <2> QED BY <2>1, <2>2
<1>5. ASSUME NEW m \in Messages
      PROVE  /\ opencode'[m] \in 0..MaxTime /\ opencode[m] <= opencode'[m]
             /\ opencode'[m] <= message[m].updated
             /\ message[m].done /\ message[m].updated < Since => opencode'[m] = message[m].updated
             /\ until > MaxTime /\ message[m].done => opencode'[m] = message[m].updated
  <2>1. opencode'[m] = IF m \in rows /\ message[m].done THEN message[m].updated ELSE opencode[m]
    BY <1>1
  <2>2. m \in rows <=> message[m].updated \in Since .. until - 1
    OBVIOUS
  <2>3. /\ opencode[m] <= message[m].updated
        /\ message[m].done /\ message[m].updated < Since => opencode[m] = message[m].updated
    BY DEF OpenInv
  <2> HIDE DEF rows
  <2> QED BY <1>2, <1>3, <2>1, <2>2, <2>3
<1> HIDE DEF rows, times
<1>6. opencode' \in [Messages -> 0..MaxTime]
  BY <1>1, <1>5
<1>7. ASSUME NEW m \in Messages
      PROVE  message[m].done /\ message[m].updated < Since' => opencode'[m] = message[m].updated
  <2>1. CASE until > MaxTime
    BY <1>5, <2>1
  <2>2. CASE ~(until > MaxTime)
    <3>1. Since' = Since
      BY <1>1, <2>2 DEF Since
    <3> QED BY <1>5, <3>1
  <2> QED BY <2>1, <2>2
<1>8. /\ due' = [codex |-> due.codex, opencode |-> due'.opencode]
      /\ due'.opencode \in [Messages -> 0..MaxTime]
      /\ \A m \in Messages : due'.opencode[m] <= opencode'[m]
  <2>1. CASE until > MaxTime
    <3> DEFINE owed == [m \in Messages |-> IF message[m].done THEN message[m].updated
                                           ELSE due.opencode[m]]
    <3>1. due' = [due EXCEPT !.opencode = owed]
      BY <1>1, <2>1
    <3>2. owed \in [Messages -> 0..MaxTime]
      BY <1>2
    <3>3. ASSUME NEW m \in Messages PROVE owed[m] <= opencode'[m]
      <4>1. due.opencode[m] <= opencode[m] /\ opencode[m] <= opencode'[m]
        BY <1>5 DEF OpenInv
      <4> QED BY <1>2, <1>5, <2>1, <4>1
    <3> HIDE DEF owed
    <3>4. due' = [codex |-> due.codex, opencode |-> owed]
      BY <3>1 DEF OpenInv
    <3> QED BY <3>2, <3>3, <3>4
  <2>2. CASE ~(until > MaxTime)
    <3>1. due' = due
      BY <1>1, <2>2
    <3>2. ASSUME NEW m \in Messages PROVE due.opencode[m] <= opencode'[m]
      <4>1. due.opencode[m] <= opencode[m] /\ opencode[m] <= opencode'[m]
        BY <1>5 DEF OpenInv
      <4> QED BY <1>2, <1>5, <4>1
    <3> QED BY <3>1, <3>2 DEF OpenInv
  <2> QED BY <2>1, <2>2
<1> QED BY <1>1, <1>4, <1>5, <1>6, <1>7, <1>8 DEF OpenInv

LEMMA OpenKept == OpenInv /\ [Next]_vars => OpenInv'
<1> SUFFICES ASSUME OpenInv, [Next]_vars PROVE OpenInv'
  OBVIOUS
<1>1. ASSUME UNCHANGED openVars, due' = due \/ \E c : due' = [due EXCEPT !.codex = c]
      PROVE  OpenInv'
  BY <1>1, OpenStays
<1>2. CASE UNCHANGED vars
  BY <1>1, <1>2 DEF vars
<1>3. CASE HermesNext
  BY <1>1, <1>3 DEF HermesNext, Use, StartAgain, CollectHermes
<1>4. CASE CodexNext
  <2>1. CASE \E n, m \in 0..Len(log) : CollectCodex(n, m)
    BY <1>1, <2>1 DEF CollectCodex
  <2> QED BY <1>1, <1>4, <2>1 DEF CodexNext, Record, Complete, Move, Copy
<1>5. CASE OpencodeNext
  BY <1>5, TickKept, AnswerKept, CollectOpencodeKept DEF OpencodeNext
<1> QED BY <1>2, <1>3, <1>4, <1>5 DEF Next

-----------------------------------------------------------------------------
CountersBound ==
    /\ counter \in [Counters -> Absent..MaxCount] /\ state \in [Counters -> Absent..MaxCount]

LEMMA CountersStayBound == CountersBound /\ [Next]_vars => CountersBound'
<1> SUFFICES ASSUME CountersBound, [Next]_vars PROVE CountersBound'
  OBVIOUS
<1>1. MaxCount \in Nat /\ MaxCount >= 1 /\ Absent = -1
  BY TokenAssumption DEF TokenAssumption, Absent
<1>2. ASSUME UNCHANGED hermesVars PROVE CountersBound'
  BY <1>2 DEF CountersBound, hermesVars
<1>3. CASE CodexNext \/ OpencodeNext \/ UNCHANGED vars
  BY <1>2, <1>3 DEF CodexNext, OpencodeNext, Record, Complete, Move, Copy, CollectCodex, Tick,
                    Answer, CollectOpencode, vars
<1>4. ASSUME NEW c \in Counters, Use(c) PROVE CountersBound'
  <2>1. /\ counter' = [counter EXCEPT ![c] = IF @ = Absent THEN 1 ELSE @ + 1]
        /\ counter[c] < MaxCount /\ state' = state
    BY <1>4 DEF Use
  <2> QED BY <1>1, <2>1 DEF CountersBound
<1>5. ASSUME NEW c \in Counters, StartAgain(c) PROVE CountersBound'
  BY <1>1, <1>5 DEF CountersBound, StartAgain
<1>6. ASSUME NEW read \in SUBSET Rows, CollectHermes(read) PROVE CountersBound'
  BY <1>6 DEF CountersBound, CollectHermes, Known
<1> QED BY <1>3, <1>4, <1>5, <1>6 DEF Next, HermesNext

TokensInv == CodexInv /\ OpenInv /\ HermesInv /\ CountersBound

LEMMA TokensStart == Init => TokensInv
<1>1. Init => CountersBound
  <2>1. {Absent, 1} \subseteq Absent..MaxCount
    BY TokenAssumption DEF TokenAssumption, Absent
  <2> QED BY <2>1 DEF Init, CountersBound
<1> QED BY <1>1, CodexStarts, OpenStarts, HermesStarts DEF TokensInv

LEMMA TokensKept == TokensInv /\ [Next]_vars => TokensInv'
BY CodexKept, OpenKept, HermesCounts, CountersStayBound DEF TokensInv

LEMMA TokensTyped == TokensInv => TypeOK
<1> SUFFICES ASSUME TokensInv PROVE TypeOK
  OBVIOUS
<1>1. FoundFiles /\ Logged /\ CursorIs(cursor) /\ EventsAre(codex) /\ OpenInv
      /\ CounterTypes /\ CountersBound
  BY DEF TokensInv, CodexInv, HermesInv
<1>2. /\ cursor.inode \in 0..MaxInode /\ cursor.skip \in BOOLEAN
      /\ cursor.offset \in 0..Len(log) + 1 /\ cursor.total \in 0..MaxTotal
  BY <1>1, TokenAssumption DEF CursorIs, FoundFiles, TokenAssumption
<1>3. ASSUME NEW p \in Paths, cursor.inode = file[p].inode
      PROVE  cursor.offset <= Size(file[p])
  <2>1. /\ file[p] \in [inode : 0..MaxInode, length : 0..Len(log), shift : {0, 1},
                         partial : BOOLEAN]
        /\ Whole(file[p]) <= file[p].length /\ Whole(file[p]) \in 0..Len(log)
    BY <1>1, WholeIs DEF FoundFiles
  <2>2. CASE cursor.inode = 0
    <3>1. cursor.offset = 0
      BY <1>1, <2>2 DEF CursorIs, NoCursor
    <3> QED BY <2>1, <3>1 DEF Size
  <2>3. CASE cursor.inode # 0
    <3>1. cursor.offset - file[p].shift \in 1..Whole(file[p])
      BY <1>3, <2>3 DEF TokensInv, CodexInv, PositionIn
    <3> QED BY <1>2, <2>1, <3>1 DEF Size
  <2> QED BY <2>2, <2>3
<1>4. \A e \in DOMAIN codex : e[1] \in DOMAIN log /\ codex[e] \in 1..MaxTotal
  <2> SUFFICES ASSUME NEW e \in DOMAIN codex
               PROVE  e[1] \in DOMAIN log /\ codex[e] \in 1..MaxTotal
    OBVIOUS
  <2>1. PICK i \in 1..Len(log) : e = Event(i) /\ codex[e] = Gain(log, i) /\ codex[e] > 0
    BY <1>1 DEF EventsAre
  <2>2. e[1] = i /\ DOMAIN log = 1..Len(log)
    BY <1>1, <2>1 DEF Event, Logged
  <2> QED BY <1>1, <2>1, <2>2, GainIs
<1> QED BY <1>1, <1>2, <1>3, <1>4 DEF TypeOK, FoundFiles, OpenInv, CounterTypes, CountersBound

(* Codex's tokens are counted once and completely, whatever happens to its   *)
(* rollouts between and during collections (collect_codex); nothing Hermes   *)
(* has originated is counted beside its own counters; and no OpenCode answer *)
(* is counted from an older row than a complete collection could see         *)
(* (collect_opencode).                                                       *)
THEOREM TokensAreCountedOnce == MCSpec => []TokensAreCounted
<1>1. MCInit => TokensInv
  BY TokensStart DEF MCInit
<1>2. TokensInv /\ [MCNext]_<<source, vars, limits, files>> => TokensInv'
  BY StepOfTokens, TokensKept
<1>3. TokensInv => TokensAreCounted
  <2> SUFFICES ASSUME TokensInv PROVE TokensAreCounted
    OBVIOUS
  <2>1. CodexCountedOnce /\ HermesLeftOut
    BY CodexCounts DEF TokensInv
  <2>2. OpencodeCurrent
    BY DEF TokensInv, OpenInv, OpencodeCurrent
  <2> QED BY <2>1, <2>2, TokensTyped DEF TokensAreCounted
<1> QED BY <1>1, <1>2, <1>3, PTL DEF MCSpec

-----------------------------------------------------------------------------
(* history.json and data.json: what one update makes of the entries.        *)

LEMMA SameCardinality == \A S : Rolling!Cardinality(S) = Cardinality(S)
BY DEF Rolling!Cardinality, Cardinality, Rolling!IsFiniteSet, IsFiniteSet

(* Entries that have different times. *)
Distinct(S) == \A e, f \in S : e.epoch = f.epoch => e = f

Dated(S) == IsFiniteSet(S) /\ Distinct(S) /\ \A e \in S : e.epoch \in Nat

Limited(S) == Rolling!apply_defensive_limits(S)

(* The limit leaves no more entries than it says. *)
LEMMA LimitBounds ==
    ASSUME NEW S, Dated(S), MaxEntries \in Nat \ {0}
    PROVE  /\ Limited(S) \subseteq S /\ IsFiniteSet(Limited(S))
           /\ Cardinality(Limited(S)) <= MaxEntries
<1> DEFINE K == Limited(S)
<1>1. K \subseteq S /\ \A e \in K : Cardinality(Rolling!Newer(S, e)) < MaxEntries
  BY SameCardinality DEF Limited, Rolling!apply_defensive_limits
<1>2. IsFiniteSet(K) /\ Cardinality(K) \in Nat
  BY <1>1, FS_Subset, FS_CardinalityType DEF Dated
<1>3. ASSUME Cardinality(K) > MaxEntries PROVE FALSE
  <2>1. K # {}
    BY <1>2, <1>3, FS_EmptySet
  <2> DEFINE T == {e.epoch : e \in K}
  <2>2. T \in SUBSET Nat /\ T # {}
    BY <1>1, <2>1 DEF Dated
  <2>3. PICK x \in T : \A y \in T : x <= y
    BY <2>2, SmallestExists
  <2>4. PICK e \in K : e.epoch = x
    OBVIOUS
  <2>5. \A f \in K : e.epoch <= f.epoch
    BY <2>3, <2>4
  <2>6. K \ {e} \subseteq Rolling!Newer(S, e)
    BY <1>1, <2>5 DEF Rolling!Newer, Dated, Distinct
  <2>7. IsFiniteSet(Rolling!Newer(S, e)) /\ Cardinality(Rolling!Newer(S, e)) \in Nat
    <3>1. Rolling!Newer(S, e) \in SUBSET S
      BY DEF Rolling!Newer
    <3> QED BY <3>1, FS_Subset, FS_CardinalityType DEF Dated
  <2>8. Cardinality(K \ {e}) = Cardinality(K) - 1
    BY <1>2, FS_RemoveElement
  <2>9. Cardinality(K \ {e}) <= Cardinality(Rolling!Newer(S, e))
    BY <2>6, <2>7, FS_Subset
  <2>10. Cardinality(Rolling!Newer(S, e)) < MaxEntries
    BY <1>1
  <2> HIDE DEF K, T
  <2> QED BY <1>2, <1>3, <2>7, <2>8, <2>9, <2>10
<1> QED BY <1>1, <1>2, <1>3

(* What it leaves out is older than as many as it allows. *)
LEMMA LimitKeepsNewest ==
    ASSUME NEW S, Dated(S), MaxEntries \in Nat \ {0}, NEW e \in S
    PROVE  e \in Limited(S) \/ Cardinality(Rolling!Newer(Limited(S), e)) >= MaxEntries
<1> DEFINE K == Limited(S)
           N == Rolling!Newer(S, e)
           M == Rolling!Newer(K, e)
           Ahead(f) == Cardinality(Rolling!Newer(S, f))
<1>1. \A f : f \in K <=> f \in S /\ Ahead(f) < MaxEntries
  BY SameCardinality DEF Limited, Rolling!apply_defensive_limits
<1>2. \A f : /\ Rolling!Newer(S, f) \in SUBSET S
             /\ IsFiniteSet(Rolling!Newer(S, f)) /\ Ahead(f) \in Nat
  <2>1. \A f : Rolling!Newer(S, f) \in SUBSET S
    BY DEF Rolling!Newer
  <2> QED BY <2>1, FS_Subset, FS_CardinalityType DEF Dated
<1>3. SUFFICES ASSUME e \notin K, Cardinality(M) < MaxEntries PROVE FALSE
  <2>1. M \in SUBSET N
    BY <1>1 DEF Rolling!Newer
  <2>2. Cardinality(M) \in Nat
    BY <1>2, <2>1, FS_Subset, FS_CardinalityType
  <2> QED BY <2>2
<1>4. M \in SUBSET N /\ IsFiniteSet(N) /\ Cardinality(N) >= MaxEntries
  <2>1. M \in SUBSET N
    BY <1>1 DEF Rolling!Newer
  <2>2. ~ (Ahead(e) < MaxEntries) /\ Ahead(e) \in Nat
    BY <1>1, <1>2, <1>3
  <2> QED BY <1>2, <2>1, <2>2
<1>5. N \ M # {}
  <2>1. N = M => FALSE
    BY <1>3, <1>4, FS_CardinalityType
  <2> QED BY <1>4, <2>1
<1> DEFINE T == {Ahead(f) : f \in N \ M}
<1>6. T \in SUBSET Nat /\ T # {}
  BY <1>2, <1>5
<1>7. PICK x \in T : \A y \in T : x <= y
  BY <1>6, SmallestExists
<1>8. PICK f \in N \ M : Ahead(f) = x
  OBVIOUS
<1>9. f \in S /\ f.epoch > e.epoch /\ f \notin K
  BY <1>8 DEF Rolling!Newer
<1>10. Rolling!Newer(S, f) \subseteq M
  <2> SUFFICES ASSUME NEW g \in Rolling!Newer(S, f), g \notin M PROVE FALSE
    OBVIOUS
  <2>1. g \in S /\ g.epoch > f.epoch /\ g \in N
    BY <1>9 DEF Rolling!Newer, Dated
  <2>2. Ahead(f) <= Ahead(g)
    BY <1>7, <1>8, <2>1
  <2>3. Rolling!Newer(S, g) \in SUBSET (Rolling!Newer(S, f) \ {g})
    BY <1>9, <2>1 DEF Rolling!Newer, Dated
  <2>4. Cardinality(Rolling!Newer(S, f) \ {g}) = Ahead(f) - 1
    BY <1>2, FS_RemoveElement
  <2>5. Ahead(g) <= Cardinality(Rolling!Newer(S, f) \ {g})
    BY <1>2, <2>3, FS_Subset, FS_RemoveElement
  <2> QED BY <1>2, <2>2, <2>4, <2>5
<1>11. Ahead(f) <= Cardinality(M)
  BY <1>4, <1>10, FS_Subset
<1>12. Ahead(f) < MaxEntries
  <2>1. Cardinality(M) \in Nat
    BY <1>4, FS_Subset, FS_CardinalityType
  <2> QED BY <1>2, <1>3, <1>11, <2>1
<1> QED BY <1>1, <1>9, <1>12

(* What history.json holds and what data.json shows. *)
Entries == {e \in [epoch : Times, pct : [Rolling!Windows -> Int], forecast : BOOLEAN,
                   raw : BOOLEAN] : Rolling!HasPercentage(e)}

Today == {e \in Entries : ~e.raw}

(* A percentage that an entry shows is shown by another of its time. *)
KnownIn(e, f) ==
    e.epoch = f.epoch =>
        \A w \in Rolling!Windows : e.pct[w] # Rolling!None => f.pct[w] # Rolling!None

LEMMA EpochIsNat == Rolling!HistoryAssumption => \A e \in Entries : e.epoch \in Nat
BY DEF Entries, Rolling!HistoryAssumption

LEMMA SnapshotIsToday ==
    Rolling!HistoryAssumption => \A c \in Rolling!Snapshots : c \in Today
<1> SUFFICES ASSUME Rolling!HistoryAssumption, NEW c \in Rolling!Snapshots PROVE c \in Today
  OBVIOUS
<1>1. PICK t \in Times, r \in Readings :
          c = [epoch |-> t, pct |-> r.pct, forecast |-> r.forecast, raw |-> FALSE]
  BY DEF Rolling!Snapshots
<1>2. r.pct \in [Rolling!Windows -> Int] /\ r.forecast \in BOOLEAN /\ Rolling!HasPercentage(r)
  BY DEF Rolling!HistoryAssumption
<1> QED BY <1>1, <1>2 DEF Today, Entries, Rolling!HasPercentage

LEMMA OldIsEntry == Rolling!HistoryAssumption => OldEntries \subseteq Entries
<1> SUFFICES ASSUME Rolling!HistoryAssumption, NEW e \in OldEntries PROVE e \in Entries
  OBVIOUS
<1>1. /\ e.pct \in [Rolling!Windows -> Int] /\ e.forecast \in BOOLEAN
      /\ Rolling!HasPercentage(e)
      /\ e \in [epoch : Times, pct : {e.pct}, forecast : {e.forecast}, raw : BOOLEAN]
  BY DEF Rolling!HistoryAssumption
<1>2. e \in [epoch : Times, pct : [Rolling!Windows -> Int], forecast : BOOLEAN, raw : BOOLEAN]
  BY <1>1
<1> QED BY <1>1, <1>2 DEF Entries

LEMMA NormalizedIsToday ==
    ASSUME NEW e \in Entries
    PROVE  /\ Rolling!normalize_entry(e) \in Today
           /\ Rolling!normalize_entry(e).epoch = e.epoch
           /\ Rolling!normalize_entry(e).pct = e.pct
BY DEF Rolling!normalize_entry, Entries, Today, Rolling!HasPercentage

LEMMA MergedIsToday ==
    ASSUME NEW p \in Today, NEW c \in Today
    PROVE  /\ Rolling!merge_entries(p, c) \in Today
           /\ Rolling!merge_entries(p, c).epoch = c.epoch
           /\ \A w \in Rolling!Windows :
                  /\ p.pct[w] # Rolling!None => Rolling!merge_entries(p, c).pct[w] # Rolling!None
                  /\ c.pct[w] # Rolling!None => Rolling!merge_entries(p, c).pct[w] # Rolling!None
<1> DEFINE m == Rolling!merge_entries(p, c)
           q == [w \in Rolling!Windows |-> IF c.pct[w] = Rolling!None THEN p.pct[w] ELSE c.pct[w]]
<1>1. m = [c EXCEPT !.pct = q, !.forecast = p.forecast \/ c.forecast]
  BY DEF Rolling!merge_entries
<1>2. q \in [Rolling!Windows -> Int] /\ (p.forecast \/ c.forecast) \in BOOLEAN
  BY DEF Today, Entries
<1>3. \A w \in Rolling!Windows : /\ p.pct[w] # Rolling!None => q[w] # Rolling!None
                                 /\ c.pct[w] # Rolling!None => q[w] # Rolling!None
  OBVIOUS
<1>4. \E w \in Rolling!Windows : q[w] # Rolling!None
  BY <1>3 DEF Today, Entries, Rolling!HasPercentage
<1> HIDE DEF q
<1>5. /\ m \in [epoch : Times, pct : [Rolling!Windows -> Int], forecast : BOOLEAN, raw : BOOLEAN]
      /\ m.pct = q /\ m.epoch = c.epoch /\ m.raw = FALSE
  BY <1>1, <1>2 DEF Today, Entries
<1> HIDE DEF m
<1> QED BY <1>3, <1>4, <1>5 DEF m, Today, Entries, Rolling!HasPercentage

LEMMA ImageIsFinite ==
    ASSUME NEW H \in SUBSET Entries, IsFiniteSet(H)
    PROVE  IsFiniteSet({Rolling!normalize_entry(h) : h \in H})
<1> DEFINE T == {Rolling!normalize_entry(h) : h \in H}
           f == [h \in H |-> Rolling!normalize_entry(h)]
<1>1. f \in Surjection(H, T)
  BY DEF Surjection
<1> QED BY <1>1, FS_Surjection

(* What the entries become with a new reading c. *)
LEMMA CombinedShows ==
    ASSUME Rolling!HistoryAssumption, NEW H \in SUBSET Entries, IsFiniteSet(H), Distinct(H),
           NEW c \in Rolling!Snapshots
    PROVE  /\ Rolling!Combined(H, c) \subseteq Today
           /\ IsFiniteSet(Rolling!Combined(H, c)) /\ Distinct(Rolling!Combined(H, c))
           /\ \A h \in H : \E f \in Rolling!Combined(H, c) : f.epoch = h.epoch
           /\ \A h \in H, f \in Rolling!Combined(H, c) : KnownIn(h, f)
<1> DEFINE same == {h \in H : h.epoch = c.epoch}
           kept == {Rolling!normalize_entry(h) : h \in H \ same}
           mrg  == {Rolling!merge_entries(Rolling!normalize_entry(h), c) : h \in same}
           new  == IF same = {} THEN {c} ELSE mrg
<1>1. Rolling!Combined(H, c) = kept \cup new
  BY DEF Rolling!Combined
<1>2. c \in Today
  BY SnapshotIsToday
<1>3. kept \subseteq Today /\ IsFiniteSet(kept)
  <2>1. H \ same \in SUBSET Entries /\ IsFiniteSet(H \ same)
    BY FS_Subset
  <2> QED BY <2>1, ImageIsFinite, NormalizedIsToday
<1>4. \A h \in H : h.epoch = c.epoch =>
          LET m == Rolling!merge_entries(Rolling!normalize_entry(h), c) IN
          /\ same = {h} /\ mrg = {m} /\ m \in Today /\ m.epoch = c.epoch
          /\ KnownIn(h, m)
  <2> SUFFICES ASSUME NEW h \in H, h.epoch = c.epoch
               PROVE  LET m == Rolling!merge_entries(Rolling!normalize_entry(h), c) IN
                      /\ same = {h} /\ mrg = {m} /\ m \in Today /\ m.epoch = c.epoch
                      /\ KnownIn(h, m)
    OBVIOUS
  <2>1. same = {h}
    BY DEF Distinct
  <2>2. h \in Entries
    OBVIOUS
  <2>3. /\ Rolling!normalize_entry(h) \in Today
        /\ Rolling!normalize_entry(h).pct = h.pct
    BY <2>2, NormalizedIsToday
  <2>4. /\ Rolling!merge_entries(Rolling!normalize_entry(h), c) \in Today
        /\ Rolling!merge_entries(Rolling!normalize_entry(h), c).epoch = c.epoch
        /\ \A w \in Rolling!Windows :
              h.pct[w] # Rolling!None =>
                  Rolling!merge_entries(Rolling!normalize_entry(h), c).pct[w] # Rolling!None
    BY <1>2, <2>3, MergedIsToday
  <2>5. mrg = {Rolling!merge_entries(Rolling!normalize_entry(h), c)}
    BY <2>1
  <2> QED BY <2>1, <2>4, <2>5 DEF KnownIn
<1>5. \E f : /\ new = {f} /\ f \in Today /\ f.epoch = c.epoch
             /\ \A h \in H : h.epoch = c.epoch => KnownIn(h, f)
  <2>1. CASE same = {}
    BY <1>2, <2>1
  <2>2. CASE same # {}
    <3>1. PICK h \in H : h.epoch = c.epoch
      BY <2>2
    <3>2. \A g \in H : g.epoch = c.epoch => g = h
      BY <3>1 DEF Distinct
    <3> HIDE DEF mrg, same
    <3> QED BY <1>4, <2>2, <3>1, <3>2
  <2> QED BY <2>1, <2>2
<1>6. PICK f : /\ new = {f} /\ f \in Today /\ f.epoch = c.epoch
              /\ \A h \in H : h.epoch = c.epoch => KnownIn(h, f)
  BY <1>5
<1>7. \A g \in kept : \E h \in H : /\ h.epoch # c.epoch /\ g = Rolling!normalize_entry(h)
                                  /\ g.epoch = h.epoch /\ g.pct = h.pct
  BY NormalizedIsToday
<1>8. \A h \in H : h.epoch # c.epoch =>
          Rolling!normalize_entry(h) \in kept /\ Rolling!normalize_entry(h).epoch = h.epoch
  BY NormalizedIsToday
<1> HIDE DEF kept, new, mrg, same
<1>9. IsFiniteSet(kept \cup new)
  BY <1>3, <1>6, FS_AddElement
<1>10. Distinct(kept \cup new)
  BY <1>6, <1>7 DEF Distinct
<1>11. \A h \in H : \E g \in kept \cup new : g.epoch = h.epoch
  BY <1>6, <1>8
<1>12. ASSUME NEW h \in H, NEW g \in kept \cup new PROVE KnownIn(h, g)
  <2>1. CASE g \in kept
    BY <1>7, <2>1 DEF KnownIn, Distinct
  <2>2. CASE g = f
    BY <1>6, <2>2 DEF KnownIn
  <2> QED BY <1>6, <2>1, <2>2
<1> QED BY <1>1, <1>3, <1>6, <1>9, <1>10, <1>11, <1>12

(* The entries that an update writes. *)
LEMMA RetainedShows ==
    ASSUME Rolling!HistoryAssumption, NEW H \in SUBSET Entries, IsFiniteSet(H), Distinct(H),
           NEW c \in Rolling!Snapshots
    PROVE  LET R == Rolling!Retained(H, c) IN
           /\ R \subseteq Rolling!Combined(H, c) /\ IsFiniteSet(R)
           /\ Cardinality(R) <= MaxEntries
           /\ \A h \in H : \/ \E f \in R : f.epoch = h.epoch
                           \/ Rolling!Expired(h, c.epoch)
                           \/ Cardinality(Rolling!Newer(R, h)) >= MaxEntries
<1> DEFINE C == Rolling!Combined(H, c)
           U == {e \in C : ~Rolling!Expired(e, c.epoch)}
           R == Rolling!Retained(H, c)
<1>1. /\ C \subseteq Today /\ IsFiniteSet(C) /\ Distinct(C)
      /\ \A h \in H : \E f \in C : f.epoch = h.epoch
  BY CombinedShows
<1>2. R = Limited(U)
  BY DEF Rolling!Retained, Limited
<1>3. MaxEntries \in Nat \ {0} /\ Times \subseteq Nat
  BY DEF Rolling!HistoryAssumption
<1>4. IsFiniteSet(U)
  BY <1>1, FS_Subset
<1>5. Dated(U)
  BY <1>1, <1>3, <1>4 DEF Dated, Distinct, Today, Entries
<1>6. R \subseteq U /\ IsFiniteSet(R) /\ Cardinality(R) <= MaxEntries
  BY <1>2, <1>3, <1>5, LimitBounds
<1>7. ASSUME NEW h \in H, ~Rolling!Expired(h, c.epoch)
      PROVE  \/ \E f \in R : f.epoch = h.epoch
             \/ Cardinality(Rolling!Newer(R, h)) >= MaxEntries
  <2>1. PICK f \in C : f.epoch = h.epoch
    BY <1>1
  <2>2. f \in U
    BY <1>7, <2>1 DEF Rolling!Expired
  <2>3. f \in R \/ Cardinality(Rolling!Newer(R, f)) >= MaxEntries
    BY <1>2, <1>3, <1>5, <2>2, LimitKeepsNewest
  <2>4. Rolling!Newer(R, f) = Rolling!Newer(R, h)
    BY <2>1 DEF Rolling!Newer
  <2> QED BY <2>1, <2>3, <2>4
<1> QED BY <1>6, <1>7

LEMMA ShownAfterIsToday ==
    ASSUME NEW S \in SUBSET Today, NEW c \in Today
    PROVE  Rolling!ShownAfter(S, c) \in Today /\ Rolling!ShownAfter(S, c).epoch = c.epoch
<1> DEFINE same == {e \in S : e.epoch = c.epoch}
<1>1. CASE same = {}
  BY <1>1 DEF Rolling!ShownAfter
<1>2. CASE same # {}
  <2>1. (CHOOSE e \in same : TRUE) \in same
    BY <1>2
  <2>2. Rolling!ShownAfter(S, c) = CHOOSE e \in same : TRUE
    BY <1>2 DEF Rolling!ShownAfter
  <2> QED BY <2>1, <2>2
<1> QED BY <1>1, <1>2

-----------------------------------------------------------------------------
(* The two files between and during updates. *)

HistoryIs(h) ==
    /\ h \in [kind : {"good"} \cup Rolling!Refused, entries : SUBSET Entries, damaged : BOOLEAN]
    /\ IsFiniteSet(h.entries) /\ Distinct(h.entries) /\ Cardinality(h.entries) <= MaxEntries

DataIs(d) ==
    /\ d.kind \in {"absent", "good"} \cup Rolling!Refused
    /\ d.kind = "good" => d.entry \in Entries

JobIs(j) ==
    /\ j = [mode |-> j.mode, snapshot |-> j.snapshot, shown |-> j.shown]
    /\ j.snapshot \in Rolling!Snapshots /\ j.shown \in Today
    /\ j.shown.epoch = j.snapshot.epoch

(* Both files were looked at before any was changed, and a damaged history
   was copied before it is replaced. *)
Looked ==
    /\ step \in {"backup", "history", "data"} =>
           /\ data.kind \notin Rolling!Refused
           /\ job.mode = "full" => rolling.kind \notin Rolling!Refused
    /\ step = "history" /\ rolling.damaged => rolling \in backups

Shown(d, A) ==
    /\ A \subseteq Rolling!Snapshots
    /\ A # {} => d.kind = "good" /\ ~d.entry.raw
    /\ d.kind = "good" => \A a \in A : a.epoch <= d.entry.epoch

FilesInv ==
    /\ step \in {"idle", "read", "backup", "history", "data"}
    /\ HistoryIs(rolling) /\ DataIs(data) /\ (step # "idle" => JobIs(job))
    /\ Looked /\ Shown(data, accepted)

LEMMA FilesStart == Rolling!HistoryAssumption /\ Rolling!Init => FilesInv
<1> SUFFICES ASSUME Rolling!HistoryAssumption, Rolling!Init PROVE FilesInv
  OBVIOUS
<1>1. PICK k \in {"good"} \cup Rolling!Refused, E \in {{}} \cup {{e} : e \in OldEntries} :
          rolling = [kind |-> k, entries |-> E, damaged |-> FALSE]
  BY DEF Rolling!Init
<1>2. IsFiniteSet(E) /\ Cardinality(E) <= 1 /\ Distinct(E) /\ E \subseteq Entries
  <2>1. CASE E = {}
    BY <2>1, FS_EmptySet DEF Distinct
  <2>2. ASSUME NEW e \in OldEntries, E = {e}
        PROVE  IsFiniteSet(E) /\ Cardinality(E) <= 1 /\ Distinct(E) /\ E \subseteq Entries
    <3>1. IsFiniteSet({e}) /\ Cardinality({e}) = 1
      BY FS_Singleton
    <3> QED BY <2>2, <3>1, OldIsEntry DEF Distinct
  <2> QED BY <2>1, <2>2
<1>3. Cardinality(E) <= MaxEntries
  <2>1. Cardinality(E) \in Nat
    BY <1>2, FS_CardinalityType
  <2> QED BY <1>2, <2>1 DEF Rolling!HistoryAssumption
<1>4. HistoryIs(rolling)
  BY <1>1, <1>2, <1>3 DEF HistoryIs
<1>5. DataIs(data)
  BY OldIsEntry DEF Rolling!Init, DataIs, Rolling!Refused
<1>6. step = "idle" /\ accepted = {}
  BY DEF Rolling!Init
<1> QED BY <1>4, <1>5, <1>6 DEF FilesInv, Looked, Shown

LEMMA FilesUnchanged == FilesInv /\ UNCHANGED files => FilesInv'
BY DEF FilesInv, files, Looked

LEMMA BeginKept == ASSUME Rolling!HistoryAssumption, FilesInv, Rolling!Begin PROVE FilesInv'
<1>1. PICK m \in {"full", "live"}, s \in Rolling!Snapshots :
          job' = [mode |-> m, snapshot |-> s, shown |-> s]
  BY DEF Rolling!Begin
<1>2. s \in Today
  BY SnapshotIsToday
<1>3. JobIs(job')
  BY <1>1, <1>2 DEF JobIs
<1> QED BY <1>3 DEF FilesInv, Rolling!Begin, Looked

LEMMA ReadKept == ASSUME FilesInv, Rolling!Read PROVE FilesInv'
BY DEF FilesInv, Rolling!Read, Rolling!Acceptable, Looked, HistoryIs

LEMMA EndsKept ==
    ASSUME FilesInv, step' = "idle", UNCHANGED <<rolling, data, accepted>> PROVE FilesInv'
BY DEF FilesInv, Looked

LEMMA BackupHistoryKept == ASSUME FilesInv, Rolling!backup_corrupt_history PROVE FilesInv'
BY DEF FilesInv, Rolling!backup_corrupt_history, Looked

LEMMA WriteHistoryKept ==
    ASSUME Rolling!HistoryAssumption, FilesInv, Rolling!WriteHistory PROVE FilesInv'
<1> DEFINE c == job.snapshot
           R == Rolling!Retained(rolling.entries, c)
<1>1. JobIs(job) /\ HistoryIs(rolling) /\ DataIs(data) /\ Looked /\ step = "history"
  BY DEF FilesInv, Rolling!WriteHistory
<1>2. /\ rolling.entries \in SUBSET Entries /\ IsFiniteSet(rolling.entries)
      /\ Distinct(rolling.entries) /\ c \in Rolling!Snapshots
  BY <1>1 DEF HistoryIs, JobIs
<1>3. /\ R \subseteq Today /\ Distinct(R) /\ IsFiniteSet(R) /\ Cardinality(R) <= MaxEntries
  BY <1>2, CombinedShows, RetainedShows DEF Distinct
<1>4. /\ rolling' = [kind |-> "good", entries |-> R, damaged |-> FALSE]
      /\ job' = [job EXCEPT !.shown = Rolling!ShownAfter(R, c)]
      /\ step' = "data" /\ UNCHANGED <<data, accepted>>
  BY DEF Rolling!WriteHistory
<1>5. Rolling!ShownAfter(R, c) \in Today /\ Rolling!ShownAfter(R, c).epoch = c.epoch
  BY <1>2, <1>3, SnapshotIsToday, ShownAfterIsToday
<1> HIDE DEF R
<1>6. JobIs(job')
  BY <1>1, <1>4, <1>5 DEF JobIs
<1>7. HistoryIs(rolling')
  BY <1>3, <1>4 DEF HistoryIs, Today
<1>8. Looked'
  BY <1>1, <1>4 DEF Looked, Rolling!Refused
<1> QED BY <1>4, <1>6, <1>7, <1>8 DEF FilesInv

LEMMA WriteDataKept ==
    ASSUME Rolling!HistoryAssumption, FilesInv, Rolling!WriteData PROVE FilesInv'
<1> DEFINE e == IF Rolling!IsCurrent THEN Rolling!WithForecast(job.shown) ELSE Rolling!Kept
<1>1. /\ JobIs(job) /\ DataIs(data) /\ Shown(data, accepted) /\ HistoryIs(rolling)
      /\ job.snapshot \in Today /\ job.snapshot.epoch \in Nat
      /\ \A x \in Today : x.epoch \in Nat
      /\ \A x \in accepted : x.epoch \in Nat
  BY SnapshotIsToday, EpochIsNat DEF FilesInv, Rolling!WriteData, JobIs, Shown, Today
<1>2. /\ data' = [kind |-> "good", entry |-> e] /\ accepted' = accepted \cup {job.snapshot}
      /\ step' = "idle" /\ UNCHANGED rolling
  BY DEF Rolling!WriteData
<1>3. CASE Rolling!IsCurrent
  <2>1. Rolling!WithForecast(job.shown) \in Today
    BY <1>1 DEF Rolling!WithForecast, JobIs, DataIs, Today, Entries, Rolling!HasPercentage
  <2>2. Rolling!WithForecast(job.shown).epoch = job.snapshot.epoch
    BY <1>1 DEF Rolling!WithForecast, JobIs, Today, Entries
  <2>3. \A a \in accepted : a.epoch <= job.snapshot.epoch
    <3> SUFFICES ASSUME NEW a \in accepted PROVE a.epoch <= job.snapshot.epoch
      OBVIOUS
    <3>1. data.kind = "good" /\ a.epoch <= data.entry.epoch /\ data.entry \in Entries
      BY <1>1 DEF Shown, DataIs
    <3>2. data.entry.epoch <= job.snapshot.epoch
      BY <1>3, <3>1 DEF Rolling!IsCurrent
    <3> QED BY <1>1, <3>1, <3>2, EpochIsNat
  <2>4. e = Rolling!WithForecast(job.shown)
    BY <1>3
  <2> HIDE DEF e
  <2>5. e \in Today /\ \A a \in accepted \cup {job.snapshot} : a.epoch <= e.epoch
    BY <1>1, <2>1, <2>2, <2>3, <2>4
  <2> QED BY <1>1, <1>2, <2>5 DEF FilesInv, Looked, Shown, DataIs, Today, JobIs
<1>4. CASE ~Rolling!IsCurrent
  <2>1. data.kind = "good" /\ data.entry \in Entries /\ job.snapshot.epoch < data.entry.epoch
    BY <1>1, <1>4, EpochIsNat DEF Rolling!IsCurrent, DataIs
  <2>2. Rolling!Kept \in Today /\ Rolling!Kept.epoch = data.entry.epoch
    BY <2>1, NormalizedIsToday DEF Rolling!Kept
  <2>3. e = Rolling!Kept
    BY <1>4
  <2> HIDE DEF e
  <2>4. e \in Today /\ \A a \in accepted \cup {job.snapshot} : a.epoch <= e.epoch
    BY <1>1, <2>1, <2>2, <2>3, EpochIsNat DEF Shown
  <2> QED BY <1>1, <1>2, <2>4 DEF FilesInv, Looked, Shown, DataIs, Today, JobIs
<1> QED BY <1>3, <1>4

LEMMA DamagedKept ==
    ASSUME Rolling!HistoryAssumption, FilesInv, Rolling!Damaged PROVE FilesInv'
<1>1. PICK left \in SUBSET rolling.entries :
          rolling' = [kind |-> "good", entries |-> left, damaged |-> TRUE]
  BY DEF Rolling!Damaged
<1>2. HistoryIs(rolling) /\ step = "idle" /\ UNCHANGED <<data, step, accepted>>
  BY DEF FilesInv, Rolling!Damaged
<1>3. IsFiniteSet(left) /\ Cardinality(left) <= Cardinality(rolling.entries)
  BY <1>2, FS_Subset DEF HistoryIs
<1>4. HistoryIs(rolling')
  <2>1. /\ rolling'.kind = "good" /\ rolling'.entries = left /\ left \subseteq Entries
        /\ Distinct(left) /\ rolling' \in [kind : {"good"}, entries : SUBSET Entries, damaged : BOOLEAN]
    BY <1>1, <1>2 DEF HistoryIs, Distinct
  <2>2. Cardinality(left) <= MaxEntries
    <3>1. Cardinality(left) \in Nat /\ Cardinality(rolling.entries) \in Nat
      BY <1>2, <1>3, FS_CardinalityType DEF HistoryIs
    <3> QED BY <1>2, <1>3, <3>1 DEF HistoryIs, Rolling!HistoryAssumption
  <2> QED BY <1>3, <2>1, <2>2 DEF HistoryIs
<1> QED BY <1>2, <1>4 DEF FilesInv, Looked

LEMMA FilesKept ==
    ASSUME Rolling!HistoryAssumption, FilesInv, [Rolling!Next]_files PROVE FilesInv'
<1>1. CASE UNCHANGED files
  BY <1>1, FilesUnchanged
<1>2. CASE Rolling!Refuse \/ Rolling!Fails
  <2>1. step' = "idle" /\ UNCHANGED <<rolling, data, accepted>>
    BY <1>2 DEF Rolling!Refuse, Rolling!Fails
  <2> QED BY <2>1, EndsKept
<1> QED BY <1>1, <1>2, BeginKept, ReadKept, BackupHistoryKept, WriteHistoryKept, WriteDataKept,
           DamagedKept DEF Rolling!Next, Rolling!update_history

LEMMA FilesShow == ASSUME Rolling!HistoryAssumption, FilesInv PROVE ShownIsNewest
<1>1. /\ HistoryIs(rolling) /\ DataIs(data) /\ Shown(data, accepted)
      /\ step # "idle" => JobIs(job)
  BY DEF FilesInv
<1>2. Rolling!TypeOK
  <2>1. \A e \in rolling.entries : e.epoch \in Times /\ Rolling!HasPercentage(e)
    BY <1>1 DEF HistoryIs, Entries
  <2>2. Cardinality(rolling.entries) <= MaxEntries /\ Distinct(rolling.entries)
    BY <1>1 DEF HistoryIs
  <2>3. data.kind = "good" => data.entry.epoch \in Times /\ Rolling!HasPercentage(data.entry)
    BY <1>1 DEF DataIs, Entries
  <2>4. step # "idle" => job.snapshot \in Rolling!Snapshots
    BY <1>1 DEF JobIs
  <2> QED BY <2>1, <2>2, <2>3, <2>4, SameCardinality DEF Rolling!TypeOK, Distinct
<1>3. Rolling!NewestIsShown /\ Rolling!NothingRawRemains
  BY <1>1 DEF Shown, Rolling!NewestIsShown, Rolling!NothingRawRemains
<1> QED BY <1>2, <1>3 DEF ShownIsNewest

LEMMA NothingIsLost ==
    ASSUME Rolling!HistoryAssumption, FilesInv, [Rolling!Next]_files, step = "history"
    PROVE  Rolling!NothingLost /\ Rolling!KnownStaysKnown
<1> DEFINE H == rolling.entries
           R == Rolling!Retained(H, job.snapshot)
<1>1. HistoryIs(rolling) /\ Looked /\ job.snapshot \in Rolling!Snapshots
  BY DEF FilesInv, JobIs
<1>2. H \in SUBSET Entries /\ IsFiniteSet(H) /\ Distinct(H)
  BY <1>1 DEF HistoryIs
<1>3. rolling' = rolling \/ rolling' = [kind |-> "good", entries |-> R, damaged |-> FALSE]
  BY DEF Rolling!Next, Rolling!update_history, Rolling!Begin, Rolling!Read, Rolling!Refuse,
         Rolling!backup_corrupt_history, Rolling!WriteHistory, Rolling!WriteData,
         Rolling!Fails, Rolling!Damaged, files
<1>4. /\ \A h \in H : \/ \E f \in R : f.epoch = h.epoch
                      \/ Rolling!Expired(h, job.snapshot.epoch)
                      \/ Cardinality(Rolling!Newer(R, h)) >= MaxEntries
      /\ \A h \in H, f \in R : KnownIn(h, f)
  BY <1>1, <1>2, RetainedShows, CombinedShows
<1> HIDE DEF R
<1>5. Rolling!NothingLost
  <2> SUFFICES ASSUME rolling' # rolling
               PROVE  /\ rolling.damaged => rolling \in backups
                      /\ \A e \in rolling.entries :
                             \/ \E f \in rolling'.entries : f.epoch = e.epoch
                             \/ Rolling!Expired(e, job.snapshot.epoch)
                             \/ Rolling!Cardinality(Rolling!Newer(rolling'.entries, e)) >= MaxEntries
    BY DEF Rolling!NothingLost
  <2>1. rolling'.entries = R
    BY <1>3
  <2> QED BY <1>1, <1>4, <2>1, SameCardinality DEF Looked
<1>6. Rolling!KnownStaysKnown
  <2>1. \A e \in H, f \in rolling'.entries : KnownIn(e, f)
    BY <1>2, <1>3, <1>4 DEF KnownIn, Distinct
  <2> QED BY <2>1 DEF Rolling!KnownStaysKnown, KnownIn
<1> QED BY <1>5, <1>6

LEMMA UpdatesAreNotHalf ==
    ASSUME FilesInv, [Rolling!Next]_files PROVE Rolling!NoHalfUpdate
<1> SUFFICES ASSUME \/ data.kind \in Rolling!Refused
                    \/ rolling.kind \in Rolling!Refused /\ job.mode = "full",
                    step # "idle"
             PROVE  UNCHANGED <<rolling, data, backups>>
  BY DEF Rolling!NoHalfUpdate
<1>1. step = "read"
  BY DEF FilesInv, Looked
<1> QED BY <1>1 DEF Rolling!Next, Rolling!update_history, Rolling!Begin, Rolling!Read,
                    Rolling!Refuse, Rolling!backup_corrupt_history, Rolling!WriteHistory,
                    Rolling!WriteData, Rolling!Fails, Rolling!Damaged, files

LEMMA StepOfFiles ==
    [MCNext]_<<source, vars, limits, files>> =>
        [Rolling!Next]_files /\ (source # "files" => UNCHANGED files)
BY Zenon DEF MCNext

(* Wherever an update ends, by success, refusal or death, data.json shows the *)
(* newest reading that was accepted, in today's form, and history.json keeps  *)
(* entries of different times within its limit (update_history).              *)
THEOREM NewestStaysShown == MCSpec => []ShownIsNewest
<1>1. MCInit => FilesInv
  BY FilesAssumption, FilesStart DEF MCInit
<1>2. FilesInv /\ [MCNext]_<<source, vars, limits, files>> => FilesInv'
  BY FilesAssumption, StepOfFiles, FilesKept
<1>3. FilesInv => ShownIsNewest
  BY FilesAssumption, FilesShow
<1> QED BY <1>1, <1>2, <1>3, PTL DEF MCSpec

(* No update loses what it has read, but for what is too old or beyond the   *)
(* limit, forgets a percentage, replaces a damaged history without a copy,   *)
(* or changes a file when it refuses the other (update_history).             *)
THEOREM UpdatesStayWhole == MCSpec => UpdatesAreWhole
<1>1. MCInit => FilesInv
  BY FilesAssumption, FilesStart DEF MCInit
<1>2. FilesInv /\ [MCNext]_<<source, vars, limits, files>> => FilesInv'
  BY FilesAssumption, StepOfFiles, FilesKept
<1>3. FilesInv /\ [MCNext]_<<source, vars, limits, files>>
          => [source = "files" => Rolling!UpdatesLoseNothing]_<<source, vars, limits, files>>
  <2> SUFFICES ASSUME FilesInv, [Rolling!Next]_files PROVE Rolling!UpdatesLoseNothing
    BY StepOfFiles
  <2>1. step # "history" => Rolling!NothingLost /\ Rolling!KnownStaysKnown
    BY DEF Rolling!NothingLost, Rolling!KnownStaysKnown
  <2> QED BY <2>1, FilesAssumption, NothingIsLost, UpdatesAreNotHalf
          DEF Rolling!UpdatesLoseNothing
<1> QED BY <1>1, <1>2, <1>3, PTL DEF MCSpec, UpdatesAreWhole

-----------------------------------------------------------------------------
(* One exchange with the app-server.  What consume_stdout_buffer makes of a   *)
(* buffer is a fold; its value is read off one token at a time.               *)

(* Before the first token, and after those at the places in s. *)
First(c) == [client |-> [c EXCEPT !.buffer = <<>>], out |-> <<>>]

Newest(c, g, s) ==
    IF s = {} THEN First(c)
    ELSE LET i == Limits!Max(s) IN Limits!Processed(g[s \ {i}], c.buffer[i])

Folded(c) == CHOOSE g : g = [s \in SUBSET DOMAIN c.buffer |-> Newest(c, g, s)]

LEMMA ConsumedIs ==
    ASSUME NEW c PROVE Limits!Consumed(c) = Folded(c)[DOMAIN c.buffer]
BY DEF Limits!Consumed, Limits!FoldLeft, Limits!MapThenFoldSet, Folded, Newest, First

LEMMA LatestOf ==
    ASSUME NEW n \in Nat, NEW s \in SUBSET (1..n), s # {}
    PROVE  Limits!Max(s) \in s /\ \A i \in s : i <= Limits!Max(s)
<1> DEFINE T == {n - i : i \in s}
<1>1. T \in SUBSET Nat /\ T # {}
  <2>1. \A i \in s : n - i \in Nat
    OBVIOUS
  <2> QED BY <2>1
<1>2. PICK y \in T : \A z \in T : y <= z
  BY <1>1, SmallestExists
<1>3. PICK x \in s : y = n - x
  OBVIOUS
<1>4. \A z \in s : x >= z
  <2>1. \A z \in s : n - z \in T
    OBVIOUS
  <2> HIDE DEF T
  <2> QED BY <1>2, <1>3, <2>1
<1>5. Limits!Max(s) \in s /\ \A z \in s : Limits!Max(s) >= z
  BY <1>4 DEF Limits!Max
<1> QED BY <1>5

LEMMA FoldExists ==
    ASSUME NEW c, NEW n \in Nat, DOMAIN c.buffer = 1..n
    PROVE  \E g : g = [s \in SUBSET (1..n) |-> Newest(c, g, s)]
<1> DEFINE D       == 1..n
           Upto(k) == {s \in SUBSET D : Cardinality(s) <= k}
           Good(k) == \E g : g = [s \in Upto(k) |-> Newest(c, g, s)]
<1>1. \A s \in SUBSET D : IsFiniteSet(s) /\ Cardinality(s) \in Nat
  <2>1. IsFiniteSet(1..n)
    BY FS_Interval
  <2> QED BY <2>1, FS_Subset, FS_CardinalityType
<1>2. Good(0)
  <2> DEFINE g == [s \in Upto(0) |-> First(c)]
  <2>1. \A s \in Upto(0) : s = {}
    BY <1>1, FS_EmptySet
  <2>2. g = [s \in Upto(0) |-> Newest(c, g, s)]
    BY <2>1 DEF Newest
  <2> QED BY <2>2
<1>3. ASSUME NEW k \in Nat, Good(k) PROVE Good(k + 1)
  <2>1. PICK g : g = [s \in Upto(k) |-> Newest(c, g, s)]
    BY <1>3
  <2> DEFINE h == [s \in Upto(k + 1) |-> Newest(c, g, s)]
             Rest(s) == s \ {Limits!Max(s)}
  <2>2. \A s \in Upto(k + 1) : s # {} => Rest(s) \in Upto(k)
    <3> SUFFICES ASSUME NEW s \in Upto(k + 1), s # {} PROVE s \ {Limits!Max(s)} \in Upto(k)
      OBVIOUS
    <3>1. IsFiniteSet(s) /\ Limits!Max(s) \in s
      BY <1>1, LatestOf
    <3>2. Cardinality(s \ {Limits!Max(s)}) = Cardinality(s) - 1 /\ Cardinality(s) \in Nat
      BY <3>1, SmallerSet
    <3>3. s \ {Limits!Max(s)} \in SUBSET D
      OBVIOUS
    <3> QED BY <3>2, <3>3
  <2>3. \A s \in Upto(k) : h[s] = g[s]
    <3>1. \A s \in Upto(k) : s \in Upto(k + 1)
      BY <1>1
    <3>2. \A s \in Upto(k) : g[s] = Newest(c, g, s)
      BY <2>1
    <3> QED BY <3>1, <3>2
  <2>4. ASSUME NEW s \in Upto(k + 1) PROVE Newest(c, h, s) = Newest(c, g, s)
    <3>1. CASE s = {}
      BY <3>1 DEF Newest
    <3>2. CASE s # {}
      <4>1. h[Rest(s)] = g[Rest(s)]
        BY <2>2, <2>3, <3>2
      <4> HIDE DEF h
      <4> QED BY <3>2, <4>1 DEF Newest
    <3> QED BY <3>1, <3>2
  <2>5. h = [s \in Upto(k + 1) |-> Newest(c, h, s)]
    BY <2>4, Zenon
  <2> QED BY <2>5
<1>4. \A k \in Nat : Good(k)
  <2> DEFINE T == {k \in Nat : ~Good(k)}
  <2> HIDE DEF Good
  <2> SUFFICES ASSUME T # {} PROVE FALSE
    OBVIOUS
  <2>1. PICK k \in T : \A m \in T : k <= m
    BY SmallestExists
  <2>2. k # 0 /\ k - 1 \in Nat /\ ~(k - 1 \in T)
    BY <1>2, <2>1
  <2> QED BY <1>3, <2>1, <2>2
<1>5. Cardinality(D) \in Nat /\ Upto(Cardinality(D)) = SUBSET D
  BY <1>1, FS_Subset
<1>6. Good(Cardinality(D))
  BY <1>4, <1>5
<1> QED BY <1>5, <1>6

(* The client after i tokens of its buffer, and after all. *)
After(c, i) == Folded(c)[1..i]

LEMMA ProcessedInTurn ==
    ASSUME NEW c, NEW n \in Nat, DOMAIN c.buffer = 1..n
    PROVE  /\ After(c, 0) = First(c)
           /\ \A i \in 1..n : After(c, i) = Limits!Processed(After(c, i - 1), c.buffer[i])
           /\ Limits!Consumed(c) = After(c, n)
<1>1. Folded(c) = [s \in SUBSET (1..n) |-> Newest(c, Folded(c), s)]
  <2>1. Folded(c) = CHOOSE g : g = [s \in SUBSET (1..n) |-> Newest(c, g, s)]
    BY DEF Folded
  <2> QED BY <2>1, FoldExists, Zenon
<1>2. After(c, 0) = First(c)
  <2>1. 1..0 = {} /\ {} \in SUBSET (1..n)
    OBVIOUS
  <2>2. Folded(c)[{}] = Newest(c, Folded(c), {})
    BY <1>1, <2>1
  <2> QED BY <2>1, <2>2 DEF After, Newest
<1>3. ASSUME NEW i \in 1..n
      PROVE  After(c, i) = Limits!Processed(After(c, i - 1), c.buffer[i])
  <2>1. 1..i \in SUBSET (1..n) /\ 1..i # {} /\ (1..i) \ {i} = 1..(i - 1)
    OBVIOUS
  <2>2. Limits!Max(1..i) = i
    <3>1. Limits!Max(1..i) \in 1..i /\ \A j \in 1..i : j <= Limits!Max(1..i)
      BY <2>1, LatestOf
    <3> QED BY <3>1
  <2>3. Folded(c)[1..i] = Newest(c, Folded(c), 1..i)
    BY <1>1, <2>1
  <2> QED BY <2>1, <2>2, <2>3 DEF After, Newest
<1> QED BY <1>2, <1>3, ConsumedIs DEF After

ClientType ==
    [at : {"start", "select", "idle", "term", "kill", "done"}, buffer : Seq(Limits!Tokens),
     closed : SUBSET {"out", "err"}, ready : BOOLEAN, result : {<<>>} \cup Replies,
     invalid : BOOLEAN, outcome : Limits!Outcomes, raced : BOOLEAN]

(* What i tokens of the buffer have made of the client c. *)
Advanced(c, i, r) ==
    /\ r.client \in ClientType /\ Len(r.client.buffer) <= i
    /\ r.client.closed = c.closed /\ r.client.raced = c.raced
    /\ \/ r.client.at = c.at /\ r.client.outcome = c.outcome
       \/ r.client.at = "term" /\ r.client.outcome \in {"refused", "closed"}
    /\ r.out \in {<<>>, <<"initialized", "read">>}
    /\ r.client.ready <=> c.ready \/ r.out # <<>>
    /\ c.ready => r.out = <<>>
    /\ r.client.result # <<>> => r.client.ready

LEMMA FailedIs ==
    ASSUME NEW c \in ClientType, NEW why \in Limits!Outcomes
    PROVE  /\ Limits!Failed(c, why) \in ClientType
           /\ Limits!Failed(c, why).at = "term" /\ Limits!Failed(c, why).outcome = why
           /\ Limits!Failed(c, why).buffer = c.buffer /\ Limits!Failed(c, why).closed = c.closed
           /\ Limits!Failed(c, why).ready = c.ready /\ Limits!Failed(c, why).result = c.result
           /\ Limits!Failed(c, why).raced = c.raced
BY DEF ClientType, Limits!Failed

LEMMA ClearedIs ==
    ASSUME NEW c \in ClientType, NEW b \in Seq(Limits!Tokens)
    PROVE  /\ [c EXCEPT !.buffer = b] \in ClientType
           /\ [c EXCEPT !.buffer = b].at = c.at /\ [c EXCEPT !.buffer = b].outcome = c.outcome
           /\ [c EXCEPT !.buffer = b].buffer = b /\ [c EXCEPT !.buffer = b].closed = c.closed
           /\ [c EXCEPT !.buffer = b].ready = c.ready /\ [c EXCEPT !.buffer = b].result = c.result
           /\ [c EXCEPT !.buffer = b].raced = c.raced
BY DEF ClientType

LEMMA HandledIs ==
    ASSUME NEW c \in ClientType, NEW t \in Limits!Tokens
    PROVE  /\ Limits!Handled(c, t) \in ClientType
           /\ Limits!Handled(c, t).buffer = c.buffer /\ Limits!Handled(c, t).closed = c.closed
           /\ Limits!Handled(c, t).raced = c.raced
           /\ \/ Limits!Handled(c, t).at = c.at /\ Limits!Handled(c, t).outcome = c.outcome
              \/ /\ Limits!Handled(c, t).at = "term"
                 /\ Limits!Handled(c, t).outcome \in {"refused", "closed"}
           /\ Limits!Handled(c, t).ready <=> c.ready \/ (Limits!Asks(c, t) /\ alive # {})
           /\ Limits!Handled(c, t).result = c.result \/ c.ready
<1> DEFINE r == Limits!Handled(c, t)
<1>0. "refused" \in Limits!Outcomes /\ "closed" \in Limits!Outcomes
  BY DEF Limits!Outcomes
<1>1. CASE t.kind = "initError"
  BY <1>0, <1>1, FailedIs DEF Limits!Handled, Limits!Asks
<1>2. CASE Limits!Asks(c, t)
  <2>1. t.kind = "init" /\ ~c.ready
    BY <1>2 DEF Limits!Asks
  <2>2. CASE alive = {}
    <3>1. r = Limits!Failed(c, "closed")
      BY <1>2, <2>1, <2>2 DEF Limits!Handled
    <3> QED BY <1>0, <2>1, <2>2, <3>1, FailedIs
  <2>3. CASE alive # {}
    <3>1. r = [c EXCEPT !.ready = TRUE]
      BY <1>2, <2>1, <2>3 DEF Limits!Handled
    <3>2. /\ [c EXCEPT !.ready = TRUE] \in ClientType
          /\ [c EXCEPT !.ready = TRUE].buffer = c.buffer
          /\ [c EXCEPT !.ready = TRUE].closed = c.closed
          /\ [c EXCEPT !.ready = TRUE].raced = c.raced
          /\ [c EXCEPT !.ready = TRUE].at = c.at
          /\ [c EXCEPT !.ready = TRUE].outcome = c.outcome
          /\ [c EXCEPT !.ready = TRUE].ready = TRUE
          /\ [c EXCEPT !.ready = TRUE].result = c.result
      BY DEF ClientType
    <3> HIDE DEF r
    <3> QED BY <1>2, <2>3, <3>1, <3>2 DEF r
  <2> QED BY <2>2, <2>3
<1>3. CASE t.kind = "readError" /\ c.ready
  <2>1. r = Limits!Failed(c, "refused")
    BY <1>3 DEF Limits!Handled, Limits!Asks
  <2> QED BY <1>0, <1>3, <2>1, FailedIs DEF Limits!Asks
<1>4. CASE t.kind = "answer" /\ c.ready
  <2>1. r = [c EXCEPT !.result = t.groups]
    BY <1>4 DEF Limits!Handled, Limits!Asks
  <2>2. t.groups \in Replies
    BY <1>4 DEF Limits!Tokens, Limits!Answers, Limits!Plain
  <2>3. /\ [c EXCEPT !.result = t.groups] \in ClientType
        /\ [c EXCEPT !.result = t.groups].buffer = c.buffer
        /\ [c EXCEPT !.result = t.groups].closed = c.closed
        /\ [c EXCEPT !.result = t.groups].raced = c.raced
        /\ [c EXCEPT !.result = t.groups].at = c.at
        /\ [c EXCEPT !.result = t.groups].outcome = c.outcome
        /\ [c EXCEPT !.result = t.groups].ready = c.ready
    BY <2>2 DEF ClientType
  <2> HIDE DEF r
  <2> QED BY <1>4, <2>1, <2>3 DEF r, Limits!Asks
<1>5. CASE t.kind = "junk" \/ (t.kind = "noResult" /\ c.ready)
  <2>1. r = [c EXCEPT !.invalid = TRUE]
    BY <1>5 DEF Limits!Handled, Limits!Asks
  <2>2. /\ [c EXCEPT !.invalid = TRUE] \in ClientType
        /\ [c EXCEPT !.invalid = TRUE].buffer = c.buffer
        /\ [c EXCEPT !.invalid = TRUE].closed = c.closed
        /\ [c EXCEPT !.invalid = TRUE].raced = c.raced
        /\ [c EXCEPT !.invalid = TRUE].at = c.at
        /\ [c EXCEPT !.invalid = TRUE].outcome = c.outcome
        /\ [c EXCEPT !.invalid = TRUE].ready = c.ready
        /\ [c EXCEPT !.invalid = TRUE].result = c.result
    BY DEF ClientType
  <2> HIDE DEF r
  <2> QED BY <1>5, <2>1, <2>2 DEF r, Limits!Asks
<1>6. CASE /\ t.kind # "initError" /\ ~Limits!Asks(c, t) /\ ~(t.kind = "readError" /\ c.ready)
           /\ ~(t.kind = "answer" /\ c.ready)
           /\ ~(t.kind = "junk" \/ (t.kind = "noResult" /\ c.ready))
  <2>1. r = c
    BY <1>6 DEF Limits!Handled
  <2> QED BY <1>6, <2>1
<1> QED BY <1>1, <1>2, <1>3, <1>4, <1>5, <1>6

LEMMA ProcessedAdvances ==
    ASSUME NEW c \in ClientType, NEW i \in Nat, NEW r, Advanced(c, i, r),
           NEW t \in Limits!Tokens
    PROVE  Advanced(c, i + 1, Limits!Processed(r, t))
<1>1. CASE ~Limits!Waiting(r.client)
  BY <1>1 DEF Limits!Processed, Advanced, ClientType
<1>2. CASE Limits!Waiting(r.client) /\ t.kind = "part"
  <2> DEFINE b == Append(r.client.buffer, t)
             d == [r.client EXCEPT !.buffer = b]
  <2>1. Limits!Processed(r, t) = [client |-> d, out |-> r.out]
    BY <1>2 DEF Limits!Processed
  <2>2. r.client.buffer \in Seq(Limits!Tokens) /\ r.client \in ClientType
    BY DEF Advanced, ClientType
  <2>3. b \in Seq(Limits!Tokens) /\ Len(b) = Len(r.client.buffer) + 1
        /\ Len(r.client.buffer) \in Nat
    BY <2>2
  <2> HIDE DEF b
  <2>4. /\ d \in ClientType
        /\ d.at = r.client.at /\ d.outcome = r.client.outcome
        /\ d.buffer = b /\ d.closed = r.client.closed
        /\ d.ready = r.client.ready /\ d.result = r.client.result
        /\ d.raced = r.client.raced
    BY <2>2, <2>3, ClearedIs
  <2> HIDE DEF d
  <2>5. Len(d.buffer) <= i + 1
    BY <2>3, <2>4 DEF Advanced
  <2> QED BY <2>1, <2>4, <2>5 DEF Advanced
<1>3. CASE Limits!Waiting(r.client) /\ t.kind # "part"
  <2> DEFINE d == [r.client EXCEPT !.buffer = <<>>]
             h == Limits!Handled(d, t)
             o == r.out \o Limits!Requests(r.client, t)
  <2>1. Limits!Processed(r, t) = [client |-> h, out |-> o]
    BY <1>3 DEF Limits!Processed
  <2>2. r.client \in ClientType /\ <<>> \in Seq(Limits!Tokens) /\ r.client.result = <<>>
    BY <1>3 DEF Advanced, Limits!Waiting
  <2>3. /\ d \in ClientType
        /\ d.at = r.client.at /\ d.outcome = r.client.outcome
        /\ d.buffer = <<>> /\ d.closed = r.client.closed
        /\ d.ready = r.client.ready /\ d.result = r.client.result
        /\ d.raced = r.client.raced
    BY <2>2, ClearedIs
  <2> HIDE DEF d
  <2>4. /\ h \in ClientType
        /\ h.buffer = d.buffer /\ h.closed = d.closed /\ h.raced = d.raced
        /\ \/ h.at = d.at /\ h.outcome = d.outcome
           \/ h.at = "term" /\ h.outcome \in {"refused", "closed"}
        /\ h.ready <=> d.ready \/ (Limits!Asks(d, t) /\ alive # {})
        /\ h.result = d.result \/ d.ready
    BY <2>3, HandledIs
  <2> HIDE DEF h
  <2>5. /\ o = IF Limits!Asks(d, t) /\ alive # {} THEN <<"initialized", "read">> ELSE r.out
        /\ Limits!Asks(d, t) => ~r.client.ready
    <3>1. Limits!Asks(d, t) <=> Limits!Asks(r.client, t)
      BY <2>3 DEF Limits!Asks
    <3>2. Limits!Asks(r.client, t) => ~r.client.ready
      BY DEF Limits!Asks
    <3>3. Limits!Asks(r.client, t) => r.out = <<>>
      BY <3>2 DEF Advanced
    <3>4. <<>> \o <<"initialized", "read">> = <<"initialized", "read">>
      OBVIOUS
    <3>5. r.out \o <<>> = r.out
      BY DEF Advanced
    <3> QED BY <3>1, <3>2, <3>3, <3>4, <3>5 DEF Limits!Requests
  <2> HIDE DEF o
  <2>6. Len(h.buffer) <= i + 1
    BY <2>3, <2>4
  <2>7. <<"initialized", "read">> # <<>>
    OBVIOUS
  <2>8. /\ h.closed = c.closed /\ h.raced = c.raced
        /\ \/ h.at = c.at /\ h.outcome = c.outcome
           \/ h.at = "term" /\ h.outcome \in {"refused", "closed"}
    BY <2>3, <2>4 DEF Advanced
  <2>9. /\ o \in {<<>>, <<"initialized", "read">>}
        /\ h.ready <=> c.ready \/ o # <<>>
        /\ c.ready => o = <<>>
        /\ h.result # <<>> => h.ready
    BY <2>2, <2>3, <2>4, <2>5, <2>7 DEF Advanced
  <2> QED BY <2>1, <2>4, <2>6, <2>8, <2>9 DEF Advanced
<1> QED BY <1>1, <1>2, <1>3

LEMMA ConsumedAdvances ==
    ASSUME NEW c \in ClientType, c.result = <<>>
    PROVE  Advanced(c, Len(c.buffer), Limits!Consumed(c))
<1> DEFINE n == Len(c.buffer)
           T == {i \in Nat : i <= n /\ ~Advanced(c, i, After(c, i))}
<1>1. c.buffer \in Seq(Limits!Tokens) /\ n \in Nat /\ DOMAIN c.buffer = 1..n
  BY DEF ClientType
<1>2. \A i \in 1..n : c.buffer[i] \in Limits!Tokens
  BY <1>1
<1> HIDE DEF n
<1>3. /\ After(c, 0) = First(c)
      /\ \A i \in 1..n : After(c, i) = Limits!Processed(After(c, i - 1), c.buffer[i])
      /\ Limits!Consumed(c) = After(c, n)
  BY <1>1, ProcessedInTurn
<1>4. Advanced(c, 0, First(c))
  <2> DEFINE d == [c EXCEPT !.buffer = <<>>]
  <2>1. /\ d \in ClientType
        /\ d.at = c.at /\ d.outcome = c.outcome
        /\ d.buffer = <<>> /\ d.closed = c.closed
        /\ d.ready = c.ready /\ d.result = c.result
        /\ d.raced = c.raced
    <3>1. <<>> \in Seq(Limits!Tokens)
      OBVIOUS
    <3> QED BY <3>1, ClearedIs
  <2>2. First(c).client = d /\ First(c).out = <<>>
    BY DEF First
  <2> HIDE DEF d
  <2>3. Len(d.buffer) <= 0
    BY <2>1
  <2> QED BY <2>1, <2>2, <2>3 DEF Advanced
<1>5. SUFFICES ASSUME T # {} PROVE FALSE
  <2>1. n \notin T => Advanced(c, n, After(c, n))
    BY <1>1
  <2> QED BY <1>3, <2>1 DEF n
<1>6. PICK k \in T : \A m \in T : k <= m
  <2>1. T \in SUBSET Nat
    OBVIOUS
  <2> HIDE DEF T
  <2> QED BY <1>5, <2>1, SmallestExists
<1>7. k # 0
  BY <1>3, <1>4, <1>6
<1>8. k \in 1..n /\ k - 1 \in Nat /\ k - 1 <= n /\ k - 1 \notin T
  BY <1>1, <1>6, <1>7
<1>9. Advanced(c, k - 1, After(c, k - 1))
  BY <1>8
<1>10. Advanced(c, (k - 1) + 1, Limits!Processed(After(c, k - 1), c.buffer[k]))
  BY <1>2, <1>8, <1>9, ProcessedAdvances
<1>11. (k - 1) + 1 = k /\ ~Advanced(c, k, After(c, k))
  BY <1>6, <1>8
<1>12. After(c, k) = Limits!Processed(After(c, k - 1), c.buffer[k])
  BY <1>3, <1>8
<1> QED BY <1>10, <1>11, <1>12, Zenon

LEMMA LimitsCardinality == \A S : Limits!Cardinality(S) = Cardinality(S)
BY DEF Limits!Cardinality, Cardinality

(* The name k is that of the first among the groups with the most windows. *)
Names(r, k) ==
    \E i \in Limits!Usable(r) :
        /\ r[i].id = k
        /\ \A j \in Limits!Usable(r) :
               Cardinality(Limits!Windows(r[j])) <= Cardinality(Limits!Windows(r[i]))
        /\ \A j \in Limits!Usable(r) :
               (\A l \in Limits!Usable(r) :
                    Cardinality(Limits!Windows(r[l])) <= Cardinality(Limits!Windows(r[j])))
               => k <= r[j].id

Groups == [id : Nat, primary : Limits!Kinds, secondary : Limits!Kinds]

LEMMA WindowsCount ==
    \A g : Cardinality(Limits!Windows(g)) \in 0..2
<1> SUFFICES ASSUME NEW g PROVE Cardinality(Limits!Windows(g)) \in 0..2
  OBVIOUS
<1>1. IsFiniteSet({"short", "weekly"}) /\ Cardinality({"short", "weekly"}) = 2
  <2>1. {"short", "weekly"} = {"short"} \cup {"weekly"} /\ "weekly" \notin {"short"}
    OBVIOUS
  <2>2. IsFiniteSet({"short"}) /\ Cardinality({"short"}) = 1
    BY FS_Singleton
  <2>3. /\ IsFiniteSet({"short"} \cup {"weekly"})
        /\ Cardinality({"short"} \cup {"weekly"})
               = IF "weekly" \in {"short"} THEN Cardinality({"short"}) ELSE Cardinality({"short"}) + 1
    BY <2>2, FS_AddElement, Zenon
  <2> QED BY <2>1, <2>2, <2>3
<1>2. Limits!Windows(g) \subseteq {"short", "weekly"}
  BY DEF Limits!Windows
<1> QED BY <1>1, <1>2, FS_Subset, FS_CardinalityType

LEMMA ChosenNames ==
    ASSUME NEW r \in Seq(Groups), Limits!Usable(r) # {}
    PROVE  Names(r, Limits!Chosen(r)) /\ \A k : Names(r, k) => k = Limits!Chosen(r)
<1> DEFINE W(i)  == Cardinality(Limits!Windows(r[i]))
           U     == Limits!Usable(r)
           best  == {i \in U : \A j \in U : W(j) <= W(i)}
           lack  == {2 - W(i) : i \in U}
           names == {r[i].id : i \in best}
<1>1. \A i \in U : W(i) \in 0..2 /\ r[i].id \in Nat
  <2>1. \A i \in U : i \in DOMAIN r
    BY DEF Limits!Usable
  <2>2. \A i \in U : r[i].id \in Nat
    <3>1. \A i \in DOMAIN r : r[i] \in Groups
      OBVIOUS
    <3>2. \A g \in Groups : g.id \in Nat
      BY DEF Groups
    <3> HIDE DEF U
    <3> QED BY <2>1, <3>1, <3>2
  <2> HIDE DEF U
  <2> QED BY <2>2, WindowsCount
<1>2. best # {}
  <2>1. lack \in SUBSET Nat /\ lack # {}
    BY <1>1
  <2>2. PICK x \in lack : \A y \in lack : x <= y
    <3> HIDE DEF lack
    <3> QED BY <2>1, SmallestExists
  <2>3. PICK i \in U : x = 2 - W(i)
    OBVIOUS
  <2>4. ASSUME NEW j \in U PROVE W(j) <= W(i)
    <3>1. 2 - W(i) <= 2 - W(j)
      BY <2>2, <2>3
    <3> HIDE DEF W
    <3> QED BY <1>1, <3>1
  <2> QED BY <2>4
<1>3. names \in SUBSET Nat /\ names # {}
  BY <1>1, <1>2
<1>4. PICK x \in names : \A y \in names : x <= y
  <2> HIDE DEF names
  <2> QED BY <1>3, SmallestExists
<1>5. PICK i \in best : x = r[i].id
  OBVIOUS
<1>6. \A j \in best : r[i].id <= r[j].id
  BY <1>4, <1>5
<1> DEFINE c == CHOOSE i1 \in best : \A j \in best : r[i1].id <= r[j].id
<1>7. c \in best /\ \A j \in best : r[c].id <= r[j].id
  BY <1>6
<1>8. Limits!Chosen(r) = r[c].id
  BY LimitsCardinality DEF Limits!Chosen
<1> HIDE DEF c
<1>9. Names(r, Limits!Chosen(r))
  BY <1>7, <1>8 DEF Names
<1>10. ASSUME NEW k, Names(r, k) PROVE k = Limits!Chosen(r)
  <2>1. PICK j \in best : r[j].id = k /\ \A l \in best : k <= r[l].id
    BY <1>10 DEF Names
  <2>2. k <= r[c].id /\ r[c].id <= k /\ k \in Nat /\ r[c].id \in Nat
    BY <1>1, <1>7, <2>1
  <2> QED BY <1>8, <2>2
<1> QED BY <1>9, <1>10

LEMMA OrderOfGroups ==
    ASSUME NEW r \in Seq(Groups), Limits!Usable(r) # {}
    PROVE  Limits!Snapshot(r) = Limits!Snapshot(Limits!Reverse(r))
<1> DEFINE n == Len(r)
           q == Limits!Reverse(r)
           m(i) == (n - i) + 1
<1>1. n \in Nat /\ DOMAIN r = 1..n
  OBVIOUS
<1>2. q = [i \in 1..n |-> r[(n - i) + 1]]
  BY DEF Limits!Reverse
<1> HIDE DEF n, q
<1>3. \A i \in 1..n : m(i) \in 1..n /\ m(m(i)) = i
  BY <1>1
<1>4. DOMAIN q = 1..n /\ \A i \in 1..n : q[i] = r[m(i)] /\ r[i] = q[m(i)]
  BY <1>2, <1>3
<1>5. q \in Seq(Groups)
  <2>1. \A i \in 1..n : r[m(i)] \in Groups
    BY <1>1, <1>3
  <2>2. q \in [1..n -> Groups]
    BY <1>2, <2>1
  <2> QED BY <1>1, <2>2
<1>6. /\ \A i \in Limits!Usable(q) : m(i) \in Limits!Usable(r) /\ q[i] = r[m(i)]
      /\ \A i \in Limits!Usable(r) : m(i) \in Limits!Usable(q) /\ r[i] = q[m(i)]
  <2>1. \A i \in Limits!Usable(q) : i \in 1..n /\ Limits!Windows(q[i]) # {}
    BY <1>4 DEF Limits!Usable
  <2>2. \A i \in Limits!Usable(r) : i \in 1..n /\ Limits!Windows(r[i]) # {}
    BY <1>1 DEF Limits!Usable
  <2>3. \A i \in 1..n : Limits!Windows(r[i]) # {} => i \in Limits!Usable(r)
    BY <1>1 DEF Limits!Usable
  <2>4. \A i \in 1..n : Limits!Windows(q[i]) # {} => i \in Limits!Usable(q)
    BY <1>4 DEF Limits!Usable
  <2> QED BY <1>3, <1>4, <2>1, <2>2, <2>3, <2>4
<1> HIDE DEF m
<1>7. Limits!Usable(q) # {}
  BY <1>6
<1>8. ASSUME NEW k, Names(r, k) PROVE Names(q, k)
  <2>1. PICK i \in Limits!Usable(r) :
        /\ r[i].id = k
        /\ \A j \in Limits!Usable(r) :
               Cardinality(Limits!Windows(r[j])) <= Cardinality(Limits!Windows(r[i]))
        /\ \A j \in Limits!Usable(r) :
               (\A l \in Limits!Usable(r) :
                    Cardinality(Limits!Windows(r[l])) <= Cardinality(Limits!Windows(r[j])))
               => k <= r[j].id
    BY <1>8 DEF Names
  <2>2. m(i) \in Limits!Usable(q) /\ q[m(i)] = r[i]
    BY <1>6
  <2>3. \A j \in Limits!Usable(q) :
               Cardinality(Limits!Windows(q[j])) <= Cardinality(Limits!Windows(q[m(i)]))
    BY <1>6, <2>1, <2>2
  <2>4. ASSUME NEW j \in Limits!Usable(q),
               \A l \in Limits!Usable(q) :
                    Cardinality(Limits!Windows(q[l])) <= Cardinality(Limits!Windows(q[j]))
        PROVE  k <= q[j].id
    <3>1. m(j) \in Limits!Usable(r) /\ r[m(j)] = q[j]
      BY <1>6
    <3>2. \A l \in Limits!Usable(r) :
               Cardinality(Limits!Windows(r[l])) <= Cardinality(Limits!Windows(r[m(j)]))
      BY <1>6, <2>4, <3>1
    <3>3. k <= r[m(j)].id
      BY <2>1, <3>1, <3>2
    <3> QED BY <3>1, <3>3
  <2>5. q[m(i)].id = k
    BY <2>1, <2>2
  <2> QED BY <2>2, <2>3, <2>4, <2>5 DEF Names
<1>9. Limits!Chosen(q) = Limits!Chosen(r)
  BY <1>5, <1>7, <1>8, ChosenNames
<1> DEFINE k == Limits!Chosen(r)
           A == {Limits!Windows(r[i]) : i \in {j \in Limits!Usable(r) : r[j].id = k}}
           B == {Limits!Windows(q[i]) : i \in {j \in Limits!Usable(q) : q[j].id = k}}
<1> HIDE DEF k
<1>10. A = B
  <2>1. ASSUME NEW i \in Limits!Usable(r), r[i].id = k PROVE Limits!Windows(r[i]) \in B
    <3>1. m(i) \in Limits!Usable(q) /\ q[m(i)] = r[i]
      BY <1>6
    <3>2. m(i) \in {j \in Limits!Usable(q) : q[j].id = k}
      BY <2>1, <3>1
    <3> QED BY <3>1, <3>2
  <2>2. ASSUME NEW i \in Limits!Usable(q), q[i].id = k PROVE Limits!Windows(q[i]) \in A
    <3>1. m(i) \in Limits!Usable(r) /\ r[m(i)] = q[i]
      BY <1>6
    <3>2. m(i) \in {j \in Limits!Usable(r) : r[j].id = k}
      BY <2>2, <3>1
    <3> QED BY <3>1, <3>2
  <2>3. A \subseteq B
    BY <2>1
  <2>4. B \subseteq A
    BY <2>2
  <2> QED BY <2>3, <2>4
<1>11. /\ Limits!Snapshot(r) = [limit |-> k, windows |-> UNION A]
       /\ Limits!Snapshot(q) = [limit |-> k, windows |-> UNION B]
  BY <1>9 DEF Limits!Snapshot, k
<1> QED BY <1>10, <1>11 DEF q

(* What a client has written that has asked for the limits. *)
Asked == <<"initialize", "initialized", "read">>

LEMMA AskedIs == <<"initialize">> \o <<"initialized", "read">> = Asked
<1> DEFINE S == {"initialize", "initialized", "read"}
           p == <<"initialize">>
           o == <<"initialized", "read">>
           q == p \o o
<1>1. /\ p \in Seq(S) /\ Len(p) = 1 /\ p[1] = "initialize"
      /\ o \in Seq(S) /\ Len(o) = 2 /\ o[1] = "initialized" /\ o[2] = "read"
  OBVIOUS
<1>2. Asked \in Seq(S) /\ Len(Asked) = 3 /\ Asked[1] = "initialize"
      /\ Asked[2] = "initialized" /\ Asked[3] = "read"
  BY DEF Asked
<1> HIDE DEF S, p, o
<1>3. /\ q \in Seq(S) /\ Len(q) = 3
      /\ \A i \in 1..3 : q[i] = IF i <= 1 THEN p[i] ELSE o[i - 1]
  <2>1. /\ p \o o \in Seq(S) /\ Len(p \o o) = Len(p) + Len(o)
        /\ \A i \in 1..Len(p) + Len(o) :
               (p \o o)[i] = IF i <= Len(p) THEN p[i] ELSE o[i - Len(p)]
    BY <1>1, ConcatProperties
  <2> QED BY <1>1, <2>1
<1>4. q[1] = p[1] /\ q[2] = o[1] /\ q[3] = o[2]
  BY <1>3
<1> HIDE DEF q
<1>5. \A i \in 1..3 : q[i] = Asked[i]
  <2>1. \A i \in 1..3 : i = 1 \/ i = 2 \/ i = 3
    OBVIOUS
  <2> QED BY <1>1, <1>4, <1>2, <2>1
<1>6. q = Asked
  BY <1>3, <1>2, <1>5, SeqEqual
<1> QED BY <1>6 DEF p, o, q

(* The record of the client c that has written s. *)
ClientIs(c, s) ==
    /\ c \in ClientType
    /\ s \in {<<>>, <<"initialize">>, Asked}
    /\ c.at = "start" => s = <<>> /\ ~c.ready
    /\ c.at \in {"start", "select", "idle"} => c.result = <<>> /\ c.outcome = "none"
    /\ c.at \in {"select", "idle"} /\ ~c.ready => s = <<"initialize">>
    /\ c.ready => s = Asked
    /\ c.result # <<>> => c.ready
    /\ c.outcome \in {"ok", "unusable"} => c.ready
    /\ c.outcome = "ok" => c.result \in Replies /\ Limits!Usable(c.result) # {}
    /\ c.outcome # "overlong" => Len(c.buffer) <= MaxLine

LimitsInv ==
    /\ timer \in 0..Deadline /\ written \in 0..MaxWrites
    /\ alive \subseteq Limits!Processes /\ deaf \subseteq Limits!Processes
    /\ open \subseteq {"out", "err"} /\ pipe \in Seq(Limits!Tokens)
    /\ ClientIs(client, sent)
    /\ "out" \in client.closed => pipe = <<>> /\ "out" \notin open
    /\ client.at = "done" => alive = {}

LEMMA LimitsStart ==
    ASSUME Limits!CodexAssumption, Limits!Init PROVE LimitsInv
<1>1. <<>> \in Seq(Limits!Tokens) /\ Len(<<>>) = 0
  OBVIOUS
<1>2. /\ client \in ClientType /\ client.at = "start" /\ client.buffer = <<>>
      /\ client.closed = {} /\ ~client.ready /\ client.result = <<>>
      /\ client.outcome = "none"
  BY <1>1 DEF Limits!Init, ClientType, Limits!Outcomes
<1>3. ClientIs(client, sent)
  BY <1>1, <1>2 DEF ClientIs, Limits!Init, Limits!CodexAssumption
<1> QED BY <1>1, <1>2, <1>3 DEF LimitsInv, Limits!Init, Limits!Processes, Limits!CodexAssumption

(* What the end of the exchange makes of a client that waits, or has its answer. *)
LEMMA FinishedIs ==
    ASSUME NEW c \in ClientType, NEW s, c.ready => s = Asked,
           s \in {<<>>, <<"initialize">>, Asked},
           c.result # <<>> => c.ready, Len(c.buffer) <= MaxLine,
           timer \in Int, Deadline \in Int
    PROVE  /\ ClientIs(Limits!Finished(c), s) /\ Limits!Finished(c).at = "term"
           /\ Limits!Finished(c).closed = c.closed /\ Limits!Finished(c).raced = c.raced
           /\ Limits!Finished(c).outcome \in {"nothing", "invalid"} =>
                  c.result = <<>> /\ timer < Deadline
<1>1. CASE c.result # <<>>
  <2>1. PICK why \in {"unusable", "ok"} :
            /\ why = IF Limits!Usable(c.result) = {} THEN "unusable" ELSE "ok"
            /\ Limits!Finished(c) = Limits!Failed(c, why)
    BY <1>1 DEF Limits!Finished
  <2>2. why \in Limits!Outcomes
    BY DEF Limits!Outcomes
  <2>3. c.result \in Replies
    BY <1>1 DEF ClientType
  <2> DEFINE f == Limits!Finished(c)
  <2>4. /\ f \in ClientType /\ f.at = "term" /\ f.outcome = why /\ f.buffer = c.buffer
        /\ f.closed = c.closed /\ f.ready = c.ready /\ f.result = c.result
        /\ f.raced = c.raced
    BY <2>1, <2>2, FailedIs
  <2> HIDE DEF f
  <2>5. why = "ok" => Limits!Usable(f.result) # {}
    BY <2>1, <2>4
  <2>6. ClientIs(f, s)
    BY <1>1, <2>3, <2>4, <2>5 DEF ClientIs
  <2> QED BY <2>4, <2>6 DEF f
<1>2. CASE c.result = <<>>
  <2>1. PICK why \in {"timeout", "invalid", "nothing"} :
            /\ why # "timeout" => ~(timer >= Deadline)
            /\ Limits!Finished(c) = Limits!Failed(c, why)
    BY <1>2 DEF Limits!Finished
  <2>2. why \in Limits!Outcomes
    BY DEF Limits!Outcomes
  <2>3. why # "timeout" => timer < Deadline
    BY <2>1
  <2> QED BY <1>2, <2>1, <2>2, <2>3, FailedIs DEF ClientIs
<1> QED BY <1>1, <1>2

LEMMA StartKept == ASSUME LimitsInv, Limits!Start PROVE LimitsInv'
<1>1. CASE alive = {}
  <2>1. client' = Limits!Failed(client, "closed") /\ sent' = sent
    BY <1>1 DEF Limits!Start
  <2>2. "closed" \in Limits!Outcomes /\ client \in ClientType
    BY DEF Limits!Outcomes, LimitsInv, ClientIs
  <2>3. ClientIs(client', sent')
    BY <2>1, <2>2, FailedIs DEF ClientIs, LimitsInv, Limits!Start
  <2> QED BY <2>1, <2>2, <2>3, FailedIs DEF LimitsInv, Limits!Start, Limits!server
<1>2. CASE alive # {}
  <2>1. client' = [client EXCEPT !.at = "select"] /\ sent' = <<"initialize">>
    BY <1>2 DEF Limits!Start
  <2>2. client \in ClientType /\ client.at = "start"
    BY DEF LimitsInv, ClientIs, Limits!Start
  <2>3. /\ client' \in ClientType /\ client'.at = "select"
        /\ client'.buffer = client.buffer /\ client'.closed = client.closed
        /\ client'.ready = client.ready /\ client'.result = client.result
        /\ client'.outcome = client.outcome
    BY <2>1, <2>2 DEF ClientType
  <2>4. client.outcome = "none" /\ client.result = <<>>
    BY <2>2 DEF LimitsInv, ClientIs
  <2>5. ClientIs(client', sent')
    BY <2>1, <2>2, <2>3, <2>4 DEF ClientIs, LimitsInv
  <2> QED BY <2>1, <2>3, <2>5 DEF LimitsInv, Limits!Start, Limits!server
<1> QED BY <1>1, <1>2

(* A client that still waits, and one whose exchange is over. *)
LEMMA WaitsKept ==
    ASSUME LimitsInv, Limits!CodexAssumption, Limits!SelectNothing \/ Limits!Poll
    PROVE  LimitsInv'
<1>1. client \in ClientType /\ timer \in Int /\ Deadline \in Int /\ ClientIs(client, sent)
  BY DEF LimitsInv, ClientIs, Limits!CodexAssumption
<1>2. ASSUME NEW why \in {"select", "idle"}, client.at \in {"select", "idle"},
             client' = [client EXCEPT !.at = why], sent' = sent
      PROVE  ClientIs(client', sent') /\ client'.at = why /\ client'.closed = client.closed
  <2>1. /\ client' \in ClientType /\ client'.at = why
        /\ client'.buffer = client.buffer /\ client'.closed = client.closed
        /\ client'.ready = client.ready /\ client'.result = client.result
        /\ client'.outcome = client.outcome
    BY <1>1, <1>2 DEF ClientType
  <2> QED BY <1>1, <1>2, <2>1 DEF ClientIs
<1>3. CASE Limits!SelectNothing
  <2>1. ClientIs(client', sent') /\ client'.at = "idle" /\ client'.closed = client.closed
    BY <1>2, <1>3 DEF Limits!SelectNothing
  <2> QED BY <1>3, <2>1 DEF LimitsInv, Limits!SelectNothing, Limits!server
<1>4. CASE Limits!Poll /\ "leader" \in alive
  <2>1. ClientIs(client', sent') /\ client'.at = "select" /\ client'.closed = client.closed
    BY <1>2, <1>4 DEF Limits!Poll
  <2> QED BY <1>4, <2>1 DEF LimitsInv, Limits!Poll, Limits!server
<1>5. CASE Limits!Poll /\ "leader" \notin alive
  <2> DEFINE d == [client EXCEPT !.raced = pipe # <<>>]
  <2>1. /\ d \in ClientType /\ d.buffer = client.buffer /\ d.closed = client.closed
        /\ d.ready = client.ready /\ d.result = client.result
    BY <1>1 DEF ClientType
  <2>2. client' = Limits!Finished(d) /\ sent' = sent /\ client.at = "idle"
    BY <1>5 DEF Limits!Poll
  <2>3. Len(client.buffer) <= MaxLine
    BY <1>1, <2>2 DEF ClientIs
  <2> HIDE DEF d
  <2>4. ClientIs(client', sent') /\ client'.at = "term" /\ client'.closed = client.closed
    BY <1>1, <2>1, <2>2, <2>3, FinishedIs DEF ClientIs
  <2> QED BY <1>5, <2>4 DEF LimitsInv, Limits!Poll, Limits!server
<1> QED BY <1>3, <1>4, <1>5

LEMMA LeaveKept ==
    ASSUME LimitsInv, Limits!CodexAssumption, Limits!Leave PROVE LimitsInv'
<1>1. client \in ClientType /\ timer \in Int /\ Deadline \in Int /\ ClientIs(client, sent)
  BY DEF LimitsInv, ClientIs, Limits!CodexAssumption
<1>2. client' = Limits!Finished(client) /\ sent' = sent /\ client.at = "select"
  BY DEF Limits!Leave
<1>3. ClientIs(client', sent') /\ client'.at = "term" /\ client'.closed = client.closed
  BY <1>1, <1>2, FinishedIs DEF ClientIs
<1> QED BY <1>3 DEF LimitsInv, Limits!Leave, Limits!server

LEMMA StopKept == ASSUME LimitsInv, Limits!Stop PROVE LimitsInv'
<1>1. ClientIs(client, sent) /\ client \in ClientType
  BY DEF LimitsInv, ClientIs
<1>2. ASSUME NEW why \in {"kill", "done"}, client' = [client EXCEPT !.at = why], sent' = sent
      PROVE  ClientIs(client', sent') /\ client'.at = why /\ client'.closed = client.closed
  <2>1. /\ client' \in ClientType /\ client'.at = why
        /\ client'.buffer = client.buffer /\ client'.closed = client.closed
        /\ client'.ready = client.ready /\ client'.result = client.result
        /\ client'.outcome = client.outcome
    BY <1>1, <1>2 DEF ClientType
  <2> QED BY <1>1, <1>2, <2>1 DEF ClientIs
<1>3. CASE Limits!Terminate
  <2>1. ClientIs(client', sent') /\ client'.at = "kill" /\ client'.closed = client.closed
    BY <1>2, <1>3 DEF Limits!Terminate, Limits!Signalled
  <2> QED BY <1>3, <2>1 DEF LimitsInv, Limits!Terminate, Limits!Signalled
<1>4. CASE Limits!Kill
  <2>1. ClientIs(client', sent') /\ client'.at = "done" /\ client'.closed = client.closed
    BY <1>2, <1>4 DEF Limits!Kill, Limits!Signalled
  <2> QED BY <1>4, <2>1 DEF LimitsInv, Limits!Kill, Limits!Signalled, Limits!Killed
<1> QED BY <1>3, <1>4 DEF Limits!Stop

LEMMA ServerKept ==
    ASSUME LimitsInv, Limits!CodexAssumption,
           \/ Limits!Tick
           \/ \E t \in Limits!Tokens : Limits!Write(t)
           \/ \E p \in Limits!Processes : Limits!Exit(p)
           \/ \E s \in {"out", "err"} : Limits!Close(s)
    PROVE  LimitsInv'
<1>1. CASE Limits!Tick
  BY <1>1 DEF LimitsInv, Limits!Tick, Limits!server, Limits!CodexAssumption
<1>2. ASSUME NEW t \in Limits!Tokens, Limits!Write(t) PROVE LimitsInv'
  BY <1>2 DEF LimitsInv, Limits!Write, Limits!CodexAssumption
<1>3. ASSUME NEW p \in Limits!Processes, Limits!Exit(p) PROVE LimitsInv'
  BY <1>3 DEF LimitsInv, Limits!Exit
<1>4. ASSUME NEW s \in {"out", "err"}, Limits!Close(s) PROVE LimitsInv'
  BY <1>4 DEF LimitsInv, Limits!Close
<1> QED BY <1>1, <1>2, <1>3, <1>4

LEMMA ReceiveKept ==
    ASSUME LimitsInv, Limits!CodexAssumption, NEW n \in 0..MaxWrites, Limits!Receive(n)
    PROVE  /\ LimitsInv'
           /\ client'.outcome \in {"nothing", "invalid"} => pipe' = <<>>
<1> DEFINE ends == (Limits!Ready \cap {"err"}) \cup
                       (IF "out" \in Limits!Ready /\ pipe = <<>> THEN {"out"} ELSE {})
           all == client.buffer \o SubSeq(pipe, 1, n)
           c == [client EXCEPT !.closed = @ \cup ends, !.buffer = all]
           r == IF n > 0 /\ Limits!TooLong(c.buffer)
                THEN [client |-> Limits!Failed(c, "overlong"), out |-> <<>>]
                ELSE Limits!Consumed(c)
           d == r.client
<1>1. /\ client.at = "select" /\ n \in 0..Len(pipe) /\ (n = 0 <=> pipe = <<>>)
      /\ pipe' = SubSeq(pipe, n + 1, Len(pipe)) /\ sent' = sent \o r.out
      /\ client' = IF Limits!Over(d) THEN d
                   ELSE IF Limits!Leaves(d) THEN Limits!Finished(d) ELSE d
      /\ UNCHANGED <<timer, alive, deaf, open, written>>
  BY DEF Limits!Receive
<1>2. /\ client \in ClientType /\ ClientIs(client, sent) /\ pipe \in Seq(Limits!Tokens)
      /\ timer \in Int /\ Deadline \in Int /\ MaxLine \in Int
  BY DEF LimitsInv, ClientIs, Limits!CodexAssumption
<1>3. /\ client.result = <<>> /\ client.outcome = "none"
      /\ ~client.ready => sent = <<"initialize">>
      /\ client.ready => sent = Asked
      /\ Len(client.buffer) <= MaxLine
  BY <1>1, <1>2 DEF ClientIs
<1>4. client.buffer \in Seq(Limits!Tokens)
  BY <1>2 DEF ClientType
<1>5. /\ SubSeq(pipe, 1, n) \in Seq(Limits!Tokens) /\ pipe' \in Seq(Limits!Tokens)
      /\ all \in Seq(Limits!Tokens)
      /\ n = 0 => all = client.buffer
      /\ pipe = <<>> => pipe' = <<>>
  BY <1>1, <1>2, <1>4
<1>6. /\ ends \subseteq {"out", "err"}
      /\ "out" \in ends => pipe = <<>> /\ "out" \notin open
  BY DEF Limits!Ready, Limits!Readable
<1> HIDE DEF ends, all
<1>7. /\ c \in ClientType /\ c.at = "select" /\ c.outcome = "none" /\ c.result = <<>>
      /\ c.ready = client.ready /\ c.buffer = all /\ c.closed = client.closed \cup ends
  BY <1>1, <1>2, <1>3, <1>5, <1>6 DEF ClientType
<1>8. "out" \in c.closed => pipe = <<>> /\ "out" \notin open
  BY <1>6, <1>7 DEF LimitsInv
<1> HIDE DEF c
<1>9. ASSUME ClientIs(client', sent'), client'.at \in {"select", "term"},
             client'.closed = c.closed
      PROVE  LimitsInv'
  BY <1>1, <1>5, <1>8, <1>9 DEF LimitsInv
<1>10. CASE n > 0 /\ Limits!TooLong(c.buffer)
  <2>1. r.client = Limits!Failed(c, "overlong") /\ r.out = <<>>
    BY <1>10
  <2> HIDE DEF r
  <2>2. "overlong" \in Limits!Outcomes
    BY DEF Limits!Outcomes
  <2>3. /\ d \in ClientType /\ d.at = "term" /\ d.outcome = "overlong" /\ d.closed = c.closed
        /\ d.ready = c.ready /\ d.result = c.result
    BY <1>7, <2>1, <2>2, FailedIs
  <2>4. sent' = sent /\ client' = d
    <3>1. sent \o <<>> = sent
      BY <1>2 DEF ClientIs, Asked
    <3> QED BY <1>1, <2>1, <2>3, <3>1 DEF Limits!Over
  <2> HIDE DEF d
  <2>5. ClientIs(client', sent')
    BY <1>2, <1>7, <2>3, <2>4 DEF ClientIs
  <2> QED BY <1>9, <2>3, <2>4, <2>5
<1>11. CASE ~(n > 0 /\ Limits!TooLong(c.buffer))
  <2>1. r = Limits!Consumed(c)
    BY <1>11
  <2>2. Len(c.buffer) \in Nat /\ Len(c.buffer) <= MaxLine
    BY <1>1, <1>2, <1>3, <1>5, <1>7, <1>11 DEF Limits!TooLong
  <2>3. Advanced(c, Len(c.buffer), r)
    BY <1>7, <2>1, ConsumedAdvances
  <2> HIDE DEF r
  <2>4. /\ d \in ClientType /\ Len(d.buffer) <= Len(c.buffer) /\ d.closed = c.closed
        /\ \/ d.at = "select" /\ d.outcome = "none"
           \/ d.at = "term" /\ d.outcome \in {"refused", "closed"}
        /\ r.out \in {<<>>, <<"initialized", "read">>}
        /\ d.ready <=> client.ready \/ r.out # <<>>
        /\ client.ready => r.out = <<>>
        /\ d.result # <<>> => d.ready
    BY <1>7, <2>3 DEF Advanced
  <2> HIDE DEF d
  <2>5. Len(d.buffer) <= MaxLine
    BY <1>2, <2>2, <2>4 DEF ClientType
  <2>6. /\ sent' \in {<<>>, <<"initialize">>, Asked}
        /\ d.ready => sent' = Asked
        /\ ~d.ready => sent' = <<"initialize">>
    <3>1. CASE r.out = <<>>
      <4>1. sent \o <<>> = sent
        BY <1>2 DEF ClientIs, Asked
      <4>2. sent' = sent
        BY <1>1, <3>1, <4>1
      <4>3. d.ready <=> client.ready
        BY <2>4, <3>1
      <4> QED BY <1>2, <1>3, <4>2, <4>3 DEF ClientIs
    <3>2. CASE r.out # <<>>
      <4>1. ~client.ready /\ d.ready /\ r.out = <<"initialized", "read">>
        BY <2>4, <3>2
      <4>2. sent = <<"initialize">> /\ sent' = sent \o r.out
        BY <1>1, <1>3, <4>1
      <4>3. sent' = Asked
        BY <4>1, <4>2, AskedIs, Zenon
      <4> QED BY <4>1, <4>3
    <3> QED BY <3>1, <3>2
  <2>7. CASE Limits!Over(d)
    <3>1. client' = d /\ d.at = "term"
      BY <1>1, <2>7 DEF Limits!Over
    <3>2. ClientIs(client', sent')
      BY <2>4, <2>5, <2>6, <3>1 DEF ClientIs
    <3> QED BY <1>9, <2>4, <3>1, <3>2
  <2>8. CASE ~Limits!Over(d) /\ Limits!Leaves(d)
    <3>1. client' = Limits!Finished(d)
      BY <1>1, <2>8
    <3>2. /\ ClientIs(client', sent') /\ client'.at = "term" /\ client'.closed = c.closed
          /\ client'.outcome \in {"nothing", "invalid"} => d.result = <<>>
      BY <1>2, <2>4, <2>5, <2>6, <3>1, FinishedIs
    <3>3. d.result = <<>> => "out" \in c.closed
      BY <2>4, <2>8 DEF Limits!Leaves, Limits!Waiting
    <3> QED BY <1>5, <1>8, <1>9, <3>2, <3>3
  <2>9. CASE ~Limits!Over(d) /\ ~Limits!Leaves(d)
    <3>1. client' = d /\ d.at = "select" /\ d.result = <<>> /\ d.outcome = "none"
      BY <1>1, <2>4, <2>9 DEF Limits!Over, Limits!Leaves, Limits!Waiting
    <3>2. ClientIs(client', sent')
      BY <2>4, <2>5, <2>6, <3>1 DEF ClientIs
    <3> QED BY <1>9, <2>4, <3>1, <3>2
  <2> QED BY <2>7, <2>8, <2>9
<1> QED BY <1>10, <1>11

LEMMA LimitsUnchanged == LimitsInv /\ UNCHANGED limits => LimitsInv'
BY DEF LimitsInv, limits

LEMMA StepOfLimits ==
    [MCNext]_<<source, vars, limits, files>> =>
        [Limits!Next]_limits /\ (source # "limits" => UNCHANGED limits)
BY Zenon DEF MCNext

LEMMA LimitsKept ==
    Limits!CodexAssumption /\ LimitsInv /\ [Limits!Next]_limits => LimitsInv'
<1> SUFFICES ASSUME Limits!CodexAssumption, LimitsInv, Limits!Next PROVE LimitsInv'
  BY LimitsUnchanged
<1>1. CASE Limits!Exchange
  BY <1>1, StartKept, WaitsKept, ReceiveKept, LeaveKept DEF Limits!Exchange
<1>2. CASE Limits!Stop
  BY <1>2, StopKept
<1> QED BY <1>1, <1>2, ServerKept DEF Limits!Next

LEMMA LimitsSound ==
    ASSUME Limits!CodexAssumption, LimitsInv PROVE ExchangeIsSound
<1>1. client \in ClientType /\ ClientIs(client, sent)
  BY DEF LimitsInv, ClientIs
<1>2. Limits!TypeOK
  <2>1. /\ client.at \in {"start", "select", "idle", "term", "kill", "done"}
        /\ client.outcome \in Limits!Outcomes /\ client.closed \subseteq {"out", "err"}
        /\ client.buffer \in Seq(Limits!Tokens) /\ client.result \in {<<>>} \cup Replies
    BY <1>1 DEF ClientType
  <2> QED BY <1>1, <2>1 DEF Limits!TypeOK, LimitsInv, ClientIs
<1>3. Limits!AskedOnce
  BY <1>1 DEF Limits!AskedOnce, ClientIs, Asked
<1>4. Limits!AnswersRequest
  <2> SUFFICES ASSUME client.outcome \in {"ok", "unusable"} PROVE "read" \in Limits!Range(sent)
    BY DEF Limits!AnswersRequest
  <2>1. sent = Asked
    BY <1>1 DEF ClientIs
  <2>2. 3 \in DOMAIN Asked /\ Asked[3] = "read"
    BY DEF Asked
  <2> QED BY <2>1, <2>2 DEF Limits!Range
<1>5. Limits!NoOrphan
  BY DEF Limits!NoOrphan, LimitsInv
<1>6. Limits!OrderIrrelevant
  <2> SUFFICES ASSUME client.outcome = "ok"
               PROVE  Limits!Snapshot(client.result)
                          = Limits!Snapshot(Limits!Reverse(client.result))
    BY DEF Limits!OrderIrrelevant
  <2>1. client.result \in Replies /\ Limits!Usable(client.result) # {}
    BY <1>1 DEF ClientIs
  <2>2. client.result \in Seq(Groups)
    BY <2>1 DEF Limits!CodexAssumption, Groups
  <2> QED BY <2>1, <2>2, OrderOfGroups
<1> QED BY <1>2, <1>3, <1>4, <1>5, <1>6 DEF ExchangeIsSound

(* One exchange with the app-server stays sound: the limits are asked for   *)
(* at most once and after the handshake, a result answers that request, no  *)
(* process outlives the collection and the group chosen does not depend on  *)
(* the order of the reply (fetch_status, _read_result, stop_process).       *)
THEOREM ExchangeStaysSound == MCSpec => []ExchangeIsSound
<1>1. MCInit => LimitsInv
  BY LimitsAssumption, LimitsStart DEF MCInit
<1>2. LimitsInv /\ [MCNext]_<<source, vars, limits, files>> => LimitsInv'
  BY LimitsAssumption, StepOfLimits, LimitsKept
<1>3. LimitsInv => ExchangeIsSound
  BY LimitsAssumption, LimitsSound
<1> QED BY <1>1, <1>2, <1>3, PTL DEF MCSpec

LEMMA UnreadIsNoAnswer ==
    ASSUME Limits!CodexAssumption, LimitsInv, Limits!Next,
           client'.outcome # client.outcome, client'.outcome \in {"nothing", "invalid"},
           ~client'.raced
    PROVE  pipe' = <<>>
<1>1. /\ client \in ClientType /\ ClientIs(client, sent) /\ timer \in Int /\ Deadline \in Int
  BY DEF LimitsInv, ClientIs, Limits!CodexAssumption
<1>2. CASE Limits!Start
  <2>1. CASE alive = {}
    BY <1>1, <1>2, <2>1, FailedIs DEF Limits!Start, Limits!Outcomes
  <2>2. CASE alive # {}
    <3>1. client' = [client EXCEPT !.at = "select"]
      BY <1>2, <2>2 DEF Limits!Start
    <3> QED BY <1>1, <3>1 DEF ClientType
  <2> QED BY <2>1, <2>2
<1>3. CASE Limits!SelectNothing
  <2>1. client' = [client EXCEPT !.at = "idle"]
    BY <1>3 DEF Limits!SelectNothing
  <2> QED BY <1>1, <2>1 DEF ClientType
<1>4. CASE Limits!Poll
  <2>1. CASE "leader" \in alive
    <3>1. client' = [client EXCEPT !.at = "select"]
      BY <1>4, <2>1 DEF Limits!Poll
    <3> QED BY <1>1, <3>1 DEF ClientType
  <2>2. CASE "leader" \notin alive
    <3> DEFINE d == [client EXCEPT !.raced = pipe # <<>>]
    <3>1. /\ d \in ClientType /\ d.buffer = client.buffer /\ d.closed = client.closed
          /\ d.ready = client.ready /\ d.result = client.result
          /\ d.raced = (pipe # <<>>)
      BY <1>1 DEF ClientType
    <3>2. client' = Limits!Finished(d) /\ client.at = "idle" /\ pipe' = pipe
      BY <1>4, <2>2 DEF Limits!Poll, Limits!server
    <3>3. Len(client.buffer) <= MaxLine
      BY <1>1, <3>2 DEF ClientIs
    <3> HIDE DEF d
    <3>4. client'.raced = d.raced
      BY <1>1, <3>1, <3>2, <3>3, FinishedIs DEF ClientIs
    <3> QED BY <3>1, <3>2, <3>4
  <2> QED BY <2>1, <2>2
<1>5. CASE \E n \in 0..MaxWrites : Limits!Receive(n)
  BY <1>5, ReceiveKept
<1>6. CASE Limits!Leave
  <2>1. /\ client' = Limits!Finished(client) /\ client.at = "select" /\ pipe' = pipe
        /\ timer >= Deadline \/ client.closed = {"out", "err"}
    BY <1>6 DEF Limits!Leave, Limits!LoopOver, Limits!server
  <2>2. client'.outcome \in {"nothing", "invalid"} => timer < Deadline
    BY <1>1, <2>1, FinishedIs DEF ClientIs
  <2>3. "out" \in client.closed
    BY <1>1, <2>1, <2>2
  <2> QED BY <2>1, <2>3 DEF LimitsInv
<1>7. CASE Limits!Stop
  <2>1. PICK why \in {"kill", "done"} : client' = [client EXCEPT !.at = why]
    BY <1>7 DEF Limits!Stop, Limits!Terminate, Limits!Kill
  <2> QED BY <1>1, <2>1 DEF ClientType
<1>8. CASE UNCHANGED client
  BY <1>8
<1>9. Limits!Exchange \/ Limits!Stop \/ UNCHANGED client
  BY DEF Limits!Next, Limits!Tick, Limits!Write, Limits!Exit, Limits!Close
<1> QED BY <1>2, <1>3, <1>4, <1>5, <1>6, <1>7, <1>8, <1>9 DEF Limits!Exchange

(* The client never gives up before the deadline with an answer unread,     *)
(* unless the server exits between select() and poll() (_read_result).      *)
THEOREM AnswersAreRead == MCSpec => AnswerIsRead
<1>1. MCInit => LimitsInv
  BY LimitsAssumption, LimitsStart DEF MCInit
<1>2. LimitsInv /\ [MCNext]_<<source, vars, limits, files>> => LimitsInv'
  BY LimitsAssumption, StepOfLimits, LimitsKept
<1> DEFINE NoneUnread == client'.outcome # client.outcome
                         /\ client'.outcome \in {"nothing", "invalid"}
                         /\ client.ready /\ ~client'.raced
                     => \A i \in DOMAIN pipe' : pipe'[i].kind # "answer"
<1>3. LimitsInv /\ [MCNext]_<<source, vars, limits, files>> => [NoneUnread]_(Limits!vars)
  <2> SUFFICES ASSUME LimitsInv, Limits!Next PROVE NoneUnread
    BY StepOfLimits DEF Limits!vars, limits
  <2> QED BY LimitsAssumption, UnreadIsNoAnswer
<1> QED BY <1>1, <1>2, <1>3, PTL DEF MCSpec, AnswerIsRead, Limits!AnswerRead
=============================================================================
