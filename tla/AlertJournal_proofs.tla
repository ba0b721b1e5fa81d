------------------------ MODULE AlertJournal_proofs ------------------------
(***************************************************************************)
(* Proofs about AlertJournal, for every set of identities and channels.    *)
(* Each operator on documents gets a lemma that it preserves Doc, the      *)
(* inductive invariant written as a predicate on a document; an action     *)
(* composes one or more operators, and so preserves it too.                *)
(***************************************************************************)
EXTENDS AlertJournal, TLAPS

(* A well-formed document. *)
WellFormed(j) ==
    /\ j \in [Keys -> Rows]
    /\ \A k \in Keys : Present(j[k]) => ValidRow(j[k])

IsInterrupted(r) == Terminal(r) /\ r.reason = "owner_interrupted"

Final(j) ==
    \A k, m \in Keys :
        Equivalent(m, k) /\ IsInterrupted(j[k]) => ~Pending(j[m])

OneThreshold(j) ==
    \A k, m \in Keys :
        /\ k.kind = "threshold" /\ m.kind = "threshold"
        /\ k.window = m.window /\ SameCycle(k, m)
        /\ Pending(j[k]) /\ Pending(j[m])
        => k = m

Doc(j) == WellFormed(j) /\ Final(j) /\ OneThreshold(j)

-----------------------------------------------------------------------------
(* Rows. *)

(* A fresh row is a valid pending one. *)
LEMMA NewRowIsValid ==
    ASSUME NEW chs \in Requests
    PROVE  /\ NewRow(chs) \in Rows
           /\ ValidRow(NewRow(chs))
           /\ Pending(NewRow(chs))
BY DEF Requests, NewRow, Rows, ValidRow, Pending, ChannelsOf, Aggregate,
       ChannelStates, Reasons

(* Terminating a pending row gives a valid failed one that keeps its channels
   and its deliveries. *)
LEMMA TerminateIsValid ==
    ASSUME NEW r \in Rows, ValidRow(r), Pending(r),
           NEW reason \in TerminationReasons
    PROVE  /\ Terminate(r, reason) \in Rows
           /\ ValidRow(Terminate(r, reason))
           /\ Terminal(Terminate(r, reason))
           /\ Terminate(r, reason).reason = reason
           /\ \A c \in Channels : r.ch[c] = "delivered"
                                  => Terminate(r, reason).ch[c] = "delivered"
<1> DEFINE t == Terminate(r, reason)
<1>1. reason \in FailureClasses /\ reason \notin {"none", "pending", "delivered"}
  BY DEF TerminationReasons, FailureClasses
<1>2. reason \in ChannelStates /\ reason \in Reasons /\ reason # "null"
  BY DEF TerminationReasons, ChannelStates, FailureClasses, Reasons
<1>3. t \in Rows /\ t.status = "failed" /\ t.reason = reason
  BY <1>2 DEF Terminate, Rows
<1>4. \A c \in Channels : t.ch[c] = IF r.ch[c] = "pending" THEN reason
                                                            ELSE r.ch[c]
  BY DEF Terminate, Rows
<1>5. PICK c \in Channels : r.ch[c] = "pending"
  BY DEF ValidRow, Pending, Aggregate
<1>6. t.ch[c] = reason /\ \A d \in Channels : t.ch[d] # "pending"
  BY <1>1, <1>4, <1>5
<1>7. Aggregate(t.ch) = "failed" /\ ChannelsOf(t) # {}
  BY <1>1, <1>6 DEF Aggregate, ChannelsOf
<1>8. ValidRow(t) /\ Terminal(t)
  BY <1>2, <1>3, <1>7 DEF ValidRow, Terminal
<1> QED BY <1>3, <1>4, <1>8

(* Recomputing a row with a channel gives a valid one with the same channels,
   and never an interrupted one. *)
LEMMA RecomputeIsValid ==
    ASSUME NEW r \in Rows, ChannelsOf(r) # {}
    PROVE  /\ Recompute(r) \in Rows
           /\ ValidRow(Recompute(r))
           /\ Recompute(r).reason # "owner_interrupted"
           /\ Recompute(r).ch = r.ch
           /\ Present(Recompute(r))
<1>1. Aggregate(r.ch) \in {"pending", "failed", "delivered"}
  BY DEF Aggregate
<1>2. /\ AggregateReason(r.ch) \in Reasons
      /\ AggregateReason(r.ch) # "owner_interrupted"
      /\ AggregateReason(r.ch) = "null" <=> Aggregate(r.ch) = "pending"
  BY <1>1 DEF AggregateReason, Reasons
<1>3. /\ Recompute(r) \in Rows
      /\ Recompute(r).ch = r.ch
      /\ Recompute(r).status = Aggregate(r.ch)
      /\ Recompute(r).reason = AggregateReason(r.ch)
  BY <1>1, <1>2 DEF Recompute, Rows
<1> QED BY <1>1, <1>2, <1>3 DEF ValidRow, ChannelsOf, Present

(* NoRow is a row of the type, and the only state of an absent identity that
   the commands write. *)
LEMMA NoRowIsRow == NoRow \in Rows /\ ~Present(NoRow) /\ ~Pending(NoRow)
                    /\ ~Terminal(NoRow)
BY DEF NoRow, Rows, Present, Pending, Terminal, ChannelStates, Reasons

LEMMA StatusCases ==
    ASSUME NEW r \in Rows
    PROVE  /\ Pending(r) => Present(r) /\ ~Terminal(r)
           /\ Terminal(r) => Present(r)
           /\ Present(r) => Pending(r) \/ Terminal(r)
BY DEF Rows, Pending, Present, Terminal

(* Equivalence looks at kind, window, owner and epoch only, once one of the
   two identities is a modern one. *)
LEMMA ModernEquivalence ==
    ASSUME NEW k \in Keys, k.ns = "", k.kind = "reset", NEW m \in Keys
    PROVE  Equivalent(m, k) <=> /\ m.kind = "reset" /\ m.window = k.window
                                /\ m.owner = k.owner /\ m.epoch = k.epoch
BY DEF Equivalent, SameCycle

LEMMA EquivalentFields ==
    ASSUME NEW k \in Keys, NEW m \in Keys, Equivalent(m, k)
    PROVE  /\ m.kind = "reset" /\ k.kind = "reset" /\ m.window = k.window
           /\ m.owner = k.owner /\ m.epoch = k.epoch
           /\ Equivalent(k, m)
BY DEF Equivalent, SameCycle

(* The rows equivalent to a modern reset are a class of their own. *)
LEMMA ModernClass ==
    ASSUME NEW k \in Keys, k.ns = "", k.kind = "reset"
    PROVE  \A m, n \in Keys : Equivalent(m, n) =>
              (Equivalent(m, k) <=> Equivalent(n, k))
<1> SUFFICES ASSUME NEW m \in Keys, NEW n \in Keys, Equivalent(m, n)
             PROVE  Equivalent(m, k) <=> Equivalent(n, k)
  OBVIOUS
<1>1. /\ m.kind = "reset" /\ n.kind = "reset" /\ m.window = n.window
      /\ m.owner = n.owner /\ m.epoch = n.epoch
  BY EquivalentFields
<1>2. Equivalent(m, k) <=> /\ m.window = k.window /\ m.owner = k.owner
                           /\ m.epoch = k.epoch
  BY <1>1, ModernEquivalence
<1>3. Equivalent(n, k) <=> /\ n.window = k.window /\ n.owner = k.owner
                           /\ n.epoch = k.epoch
  BY <1>1, ModernEquivalence
<1> QED BY <1>1, <1>2, <1>3

-----------------------------------------------------------------------------
(* Documents. *)

(* What every command but prune does with the rows and deliveries it finds. *)
Keeps(j, new) ==
    \A k \in Keys : Present(j[k]) =>
        /\ Present(new[k])
        /\ \A c \in Channels : j[k].ch[c] = "delivered"
                                => new[k].ch[c] = "delivered"

LEMMA KeepsIsTransitive ==
    ASSUME NEW j, NEW j1, NEW j2, Keeps(j, j1), Keeps(j1, j2)
    PROVE  Keeps(j, j2)
BY DEF Keeps

LEMMA KeepsSame == ASSUME NEW j PROVE Keeps(j, j)
BY DEF Keeps

(* Closing pending rows preserves the invariant, provided an interruption
   closes the equivalent rows with the ones it names. *)
LEMMA TerminateAllDoc ==
    ASSUME NEW j, Doc(j), NEW S \in SUBSET Keys,
           NEW reason \in TerminationReasons,
           \A k \in S : Pending(j[k]),
           reason = "owner_interrupted" =>
             \A k \in S, m \in Keys :
                 Equivalent(m, k) /\ Pending(j[m]) => m \in S
    PROVE  /\ Doc(TerminateAll(j, S, reason))
           /\ Keeps(j, TerminateAll(j, S, reason))
           /\ \A k \in Keys : Pending(TerminateAll(j, S, reason)[k])
                                <=> Pending(j[k]) /\ k \notin S
           /\ \A k \in Keys \ S : TerminateAll(j, S, reason)[k] = j[k]
<1> DEFINE new == TerminateAll(j, S, reason)
<1>1. /\ new = [k \in Keys |-> IF k \in S THEN Terminate(j[k], reason) ELSE j[k]]
      /\ j \in [Keys -> Rows]
  BY DEF TerminateAll, Doc, WellFormed
<1>2. \A k \in S : j[k] \in Rows /\ ValidRow(j[k]) /\ Present(j[k])
  BY <1>1, StatusCases DEF Doc, WellFormed
<1>3. \A k \in S :
         /\ new[k] \in Rows /\ ValidRow(new[k]) /\ Terminal(new[k])
         /\ new[k].reason = reason
         /\ \A c \in Channels : j[k].ch[c] = "delivered"
                                 => new[k].ch[c] = "delivered"
  <2> TAKE k \in S
  <2>1. new[k] = Terminate(j[k], reason)
    BY <1>1
  <2> HIDE DEF new
  <2> QED BY <1>2, <2>1, TerminateIsValid
<1>4. \A k \in Keys \ S : new[k] = j[k]
  BY <1>1
<1>5. WellFormed(new)
  BY <1>1, <1>3, <1>4 DEF WellFormed, Doc
<1>6. \A k \in Keys : Pending(new[k]) <=> Pending(j[k]) /\ k \notin S
  BY <1>3, <1>4, StatusCases
<1>7. Keeps(j, new)
  BY <1>3, <1>4, StatusCases DEF Keeps
<1>8. Final(new)
  <2> SUFFICES ASSUME NEW k \in Keys, NEW m \in Keys,
                      Equivalent(m, k), IsInterrupted(new[k]), Pending(new[m])
               PROVE  FALSE
    BY DEF Final
  <2>1. Pending(j[m]) /\ m \notin S
    BY <1>6
  <2>2. CASE k \in S
    BY <1>3, <2>1, <2>2 DEF IsInterrupted
  <2>3. CASE k \notin S
    BY <1>4, <2>1, <2>3 DEF Doc, Final
  <2> QED BY <2>2, <2>3
<1>9. OneThreshold(new)
  BY <1>6 DEF OneThreshold, Doc
<1> QED BY <1>3, <1>4, <1>5, <1>6, <1>7, <1>8, <1>9 DEF Doc

(* Adding a row. *)
LEMMA AddRowDoc ==
    ASSUME NEW j, Doc(j), NEW k \in Keys, ~Present(j[k]),
           NEW r \in Rows, ValidRow(r), Present(r),
           IsInterrupted(r) => \A m \in Keys : Equivalent(m, k) => ~Pending(j[m]),
           Pending(r) => \A m \in Keys : Equivalent(m, k) => ~IsInterrupted(j[m]),
           Pending(r) /\ k.kind = "threshold" =>
             \A m \in Keys : /\ m.kind = "threshold" /\ m.window = k.window
                             /\ SameCycle(k, m) \/ SameCycle(m, k)
                             => ~Pending(j[m])
    PROVE  Doc([j EXCEPT ![k] = r]) /\ Keeps(j, [j EXCEPT ![k] = r])
<1> DEFINE new == [j EXCEPT ![k] = r]
<1>1. /\ j \in [Keys -> Rows]
      /\ new[k] = r
      /\ \A m \in Keys \ {k} : new[m] = j[m]
  BY DEF Doc, WellFormed
<1>2. WellFormed(new)
  BY <1>1 DEF WellFormed, Doc
<1>3. Keeps(j, new)
  BY <1>1 DEF Keeps
<1>4. Final(new)
  <2> SUFFICES ASSUME NEW n \in Keys, NEW m \in Keys,
                      Equivalent(m, n), IsInterrupted(new[n]), Pending(new[m])
               PROVE  FALSE
    BY DEF Final
  <2>1. Equivalent(n, m)
    BY EquivalentFields
  <2>2. CASE n = k /\ m = k
    BY <1>1, <2>2, StatusCases DEF IsInterrupted
  <2>3. CASE n = k /\ m # k
    BY <1>1, <2>3
  <2>4. CASE n # k /\ m = k
    BY <1>1, <2>1, <2>4
  <2>5. CASE n # k /\ m # k
    BY <1>1, <2>5 DEF Doc, Final
  <2> QED BY <2>2, <2>3, <2>4, <2>5
<1>5. OneThreshold(new)
  BY <1>1 DEF OneThreshold, Doc
<1> QED BY <1>2, <1>3, <1>4, <1>5 DEF Doc

(* Changing rows without making any of them wait. *)
LEMMA NoNewPendingDoc ==
    ASSUME NEW j, Doc(j), NEW new, WellFormed(new),
           \A k \in Keys : Pending(new[k]) => Pending(j[k]),
           \A k \in Keys : IsInterrupted(new[k]) /\ ~IsInterrupted(j[k]) =>
               \A m \in Keys : Equivalent(m, k) => ~Pending(new[m])
    PROVE  Doc(new)
<1>1. Final(new)
  BY DEF Final, Doc
<1>2. OneThreshold(new)
  BY DEF OneThreshold, Doc
<1> QED BY <1>1, <1>2 DEF Doc

-----------------------------------------------------------------------------
(* The operators that close rows. *)

LEMMA ExpireThresholdsDoc ==
    ASSUME NEW j, Doc(j), NEW cycle \in Keys
    PROVE  /\ Doc(ExpireThresholds(j, cycle))
           /\ Keeps(j, ExpireThresholds(j, cycle))
           /\ \A k \in Keys : k.kind # "threshold"
                                => ExpireThresholds(j, cycle)[k] = j[k]
<1> DEFINE S == {k \in PendingThresholds(j, cycle.window, cycle.owner) :
                    SameCycle(k, cycle) \/ Unarmed(k)}
<1>1. S \in SUBSET Keys /\ \A k \in S : Pending(j[k]) /\ k.kind = "threshold"
  BY DEF PendingThresholds
<1>2. "expired_after_reset" \in TerminationReasons
  BY DEF TerminationReasons
<1>3. ExpireThresholds(j, cycle) = TerminateAll(j, S, "expired_after_reset")
  BY DEF ExpireThresholds
<1> HIDE DEF S
<1>4. /\ Doc(TerminateAll(j, S, "expired_after_reset"))
      /\ Keeps(j, TerminateAll(j, S, "expired_after_reset"))
      /\ \A k \in Keys \ S : TerminateAll(j, S, "expired_after_reset")[k] = j[k]
  BY <1>1, <1>2, TerminateAllDoc
<1> QED BY <1>1, <1>3, <1>4

LEMMA ExpireOwnerThresholdsDoc ==
    ASSUME NEW j, Doc(j), NEW w, NEW o
    PROVE  /\ Doc(ExpireOwnerThresholds(j, w, o))
           /\ Keeps(j, ExpireOwnerThresholds(j, w, o))
<1> DEFINE S == PendingThresholds(j, w, o)
<1>1. S \in SUBSET Keys /\ \A k \in S : Pending(j[k])
  BY DEF PendingThresholds
<1>2. "expired_after_reset" \in TerminationReasons
  BY DEF TerminationReasons
<1>3. ExpireOwnerThresholds(j, w, o) = TerminateAll(j, S, "expired_after_reset")
  BY DEF ExpireOwnerThresholds
<1> HIDE DEF S
<1> QED BY <1>1, <1>2, <1>3, TerminateAllDoc

LEMMA InterruptOwnerDoc ==
    ASSUME NEW j, Doc(j), NEW o
    PROVE  Doc(InterruptOwner(j, o)) /\ Keeps(j, InterruptOwner(j, o))
<1> DEFINE S == {k \in Keys : k.kind # "anomaly" /\ k.owner = o /\ Pending(j[k])}
<1>1. S \in SUBSET Keys /\ \A k \in S : Pending(j[k])
  OBVIOUS
<1>2. \A k \in S, m \in Keys : Equivalent(m, k) /\ Pending(j[m]) => m \in S
  BY EquivalentFields
<1>3. "owner_interrupted" \in TerminationReasons
  BY DEF TerminationReasons
<1>4. InterruptOwner(j, o) = TerminateAll(j, S, "owner_interrupted")
  BY DEF InterruptOwner
<1> HIDE DEF S
<1> QED BY <1>1, <1>2, <1>3, <1>4, TerminateAllDoc

(* Here it matters that the preserved cycle is a modern one: a legacy one
   would preserve the legacy row and interrupt its modern equivalent. *)
LEMMA InterruptOtherOwnersDoc ==
    ASSUME NEW j, Doc(j), NEW o, NEW preserve \in Preserved
    PROVE  /\ Doc(InterruptOtherOwners(j, o, preserve))
           /\ Keeps(j, InterruptOtherOwners(j, o, preserve))
<1> DEFINE S == {k \in Keys : /\ k.kind # "anomaly" /\ k.owner # o
                              /\ Pending(j[k])
                              /\ \A p \in preserve : ~SameCycle(k, p)}
<1>1. S \in SUBSET Keys /\ \A k \in S : Pending(j[k])
  OBVIOUS
<1>2. \A k \in S, m \in Keys : Equivalent(m, k) /\ Pending(j[m]) => m \in S
  <2> SUFFICES ASSUME NEW k \in S, NEW m \in Keys,
                      Equivalent(m, k), Pending(j[m])
               PROVE  m \in S
    OBVIOUS
  <2>1. m.kind = "reset" /\ m.owner = k.owner /\ m.epoch = k.epoch
    BY EquivalentFields
  <2>2. \A p \in preserve : p.ns = ""
    BY DEF Preserved, ModernResets
  <2>3. \A p \in preserve : ~SameCycle(m, p)
    BY <2>1, <2>2 DEF SameCycle
  <2> QED BY <2>1, <2>3
<1>3. "owner_interrupted" \in TerminationReasons
  BY DEF TerminationReasons
<1>4. InterruptOtherOwners(j, o, preserve) = TerminateAll(j, S, "owner_interrupted")
  BY DEF InterruptOtherOwners
<1> HIDE DEF S
<1>5. Doc(TerminateAll(j, S, "owner_interrupted"))
      /\ Keeps(j, TerminateAll(j, S, "owner_interrupted"))
  BY <1>1, <1>2, <1>3, TerminateAllDoc
<1> QED BY <1>4, <1>5

LEMMA CloseObservedCycleDoc ==
    ASSUME NEW j, Doc(j), NEW w, NEW o, NEW preserve
    PROVE  /\ Doc(CloseObservedCycle(j, w, o, preserve))
           /\ Keeps(j, CloseObservedCycle(j, w, o, preserve))
<1> DEFINE j1 == ExpireOwnerThresholds(j, w, o)
           S == {k \in Keys : /\ k.kind = "reset" /\ k.window = w
                              /\ k.owner = o /\ Pending(j1[k])
                              /\ \A p \in preserve : ~SameCycle(k, p)}
<1>1. Doc(j1) /\ Keeps(j, j1)
  BY ExpireOwnerThresholdsDoc
<1>2. S \in SUBSET Keys /\ \A k \in S : Pending(j1[k])
  OBVIOUS
<1>3. "local_observed" \in TerminationReasons
  BY DEF TerminationReasons
<1>4. CloseObservedCycle(j, w, o, preserve) = TerminateAll(j1, S, "local_observed")
  BY DEF CloseObservedCycle
<1> HIDE DEF S, j1
<1>5. Doc(TerminateAll(j1, S, "local_observed"))
      /\ Keeps(j1, TerminateAll(j1, S, "local_observed"))
  BY <1>1, <1>2, <1>3, TerminateAllDoc
<1> QED BY <1>1, <1>4, <1>5, KeepsIsTransitive

-----------------------------------------------------------------------------
(* The operators on resets. *)

(* Promoting a local tombstone changes its reason only. *)
LEMMA PromoteIsValid ==
    ASSUME NEW r \in Rows, ValidRow(r), Terminal(r)
    PROVE  /\ Promote(r) \in Rows /\ ValidRow(Promote(r))
           /\ Terminal(Promote(r))
           /\ \A c \in Channels : r.ch[c] = "delivered"
                                  => Promote(r).ch[c] = "delivered"
<1> DEFINE p == Promote(r)
<1>1. "owner_interrupted" \in ChannelStates /\ "owner_interrupted" \in Reasons
  BY DEF ChannelStates, FailureClasses, Reasons, TerminationReasons
<1>2. p \in Rows /\ p.status = r.status /\ p.reason = "owner_interrupted"
  BY <1>1 DEF Promote, Rows
<1>3. \A c \in Channels : p.ch[c] = IF r.ch[c] = "local_observed"
                                    THEN "owner_interrupted" ELSE r.ch[c]
  BY DEF Promote, Rows
<1>4. Aggregate(p.ch) = Aggregate(r.ch) /\ ChannelsOf(p) = ChannelsOf(r)
  BY <1>3 DEF Aggregate, ChannelsOf, FailureClasses
<1>5. ValidRow(p) /\ Terminal(p)
  BY <1>2, <1>4 DEF ValidRow, Terminal
<1> QED BY <1>2, <1>3, <1>5

LEMMA TombstoneIsValid ==
    ASSUME NEW reason \in TerminationReasons
    PROVE  /\ Tombstone(reason) \in Rows /\ ValidRow(Tombstone(reason))
           /\ Terminal(Tombstone(reason))
BY ChannelsAssumption, NewRowIsValid, TerminateIsValid DEF Tombstone, Requests

LEMMA SuppressResetDoc ==
    ASSUME NEW j, Doc(j), NEW k \in ModernResets,
           NEW reason \in TerminationReasons
    PROVE  /\ Doc(SuppressReset(j, k, reason))
           /\ Keeps(j, SuppressReset(j, k, reason))
<1> DEFINE rows == ResetRows(j, k)
           new  == SuppressReset(j, k, reason)
<1>1. k \in Keys /\ k.kind = "reset" /\ k.ns = "" /\ j \in [Keys -> Rows]
  BY DEF ModernResets, Doc, WellFormed
<1>2. \A m \in Keys : m \in rows <=> Equivalent(m, k) /\ Present(j[m])
  BY <1>1 DEF ResetRows, Equivalent, SameCycle
<1>3. \A m, n \in Keys : Equivalent(m, n) =>
         (Equivalent(m, k) <=> Equivalent(n, k))
  BY <1>1, ModernClass
<1>4. CASE rows = {}
  <2> DEFINE r == Tombstone(reason)
  <2>1. r \in Rows /\ ValidRow(r) /\ Terminal(r) /\ Present(r) /\ ~Pending(r)
    BY TombstoneIsValid, StatusCases
  <2>2. \A m \in Keys : Equivalent(m, k) => ~Present(j[m])
    BY <1>2, <1>4
  <2>3. ~Present(j[k])
    BY <1>1, <2>2, ModernEquivalence
  <2>4. \A m \in Keys : Equivalent(m, k) => ~Pending(j[m])
    BY <1>1, <2>2, StatusCases
  <2>5. new = [j EXCEPT ![k] = r]
    BY <1>4 DEF SuppressReset
  <2> HIDE DEF r, new
  <2>6. Doc([j EXCEPT ![k] = r]) /\ Keeps(j, [j EXCEPT ![k] = r])
    BY <1>1, <2>1, <2>3, <2>4, AddRowDoc
  <2> QED BY <2>5, <2>6 DEF new
<1>5. CASE rows # {}
  <2>1. new = [m \in Keys |->
            IF m \notin rows THEN j[m]
            ELSE IF Pending(j[m]) THEN Terminate(j[m], reason)
            ELSE IF reason = "owner_interrupted"
                    /\ j[m].reason = "local_observed" THEN Promote(j[m])
            ELSE j[m]]
    BY <1>5 DEF SuppressReset
  <2>2. \A m \in rows : m \in Keys /\ j[m] \in Rows /\ ValidRow(j[m])
    BY <1>1, <1>2 DEF Doc, WellFormed, ResetRows
  <2>3. \A m \in rows :
           /\ new[m] \in Rows /\ ValidRow(new[m]) /\ Terminal(new[m])
           /\ \A c \in Channels : j[m].ch[c] = "delivered"
                                  => new[m].ch[c] = "delivered"
    <3> TAKE m \in rows
    <3>1. Pending(j[m]) \/ Terminal(j[m])
      BY <1>2, <2>2, StatusCases
    <3>2. CASE Pending(j[m])
      <4>1. new[m] = Terminate(j[m], reason)
        BY <2>1, <2>2, <3>2
      <4> HIDE DEF new
      <4> QED BY <2>2, <3>2, <4>1, TerminateIsValid
    <3>3. CASE Terminal(j[m])
      <4>1. new[m] = Promote(j[m]) \/ new[m] = j[m]
        BY <2>1, <2>2, <3>3, StatusCases
      <4> HIDE DEF new
      <4> QED BY <2>2, <3>3, <4>1, PromoteIsValid
    <3> QED BY <3>1, <3>2, <3>3
  <2>4. \A m \in Keys : m \notin rows => new[m] = j[m]
    BY <2>1
  <2>5. new \in [Keys -> Rows]
    <3>1. \A m \in Keys : new[m] \in Rows
      BY <1>1, <2>3, <2>4
    <3> QED BY <2>1, <3>1
  <2> HIDE DEF new, rows
  <2>6. WellFormed(new) /\ Keeps(j, new)
    BY <2>3, <2>4, <2>5, StatusCases DEF WellFormed, Keeps, Doc
  <2>7. \A m \in Keys : Pending(new[m]) => m \notin rows /\ Pending(j[m])
    BY <2>3, <2>4, StatusCases
  <2>8. \A m \in Keys : IsInterrupted(new[m]) /\ ~IsInterrupted(j[m]) =>
           \A n \in Keys : Equivalent(n, m) => ~Pending(new[n])
    <3> SUFFICES ASSUME NEW m \in Keys, IsInterrupted(new[m]),
                        ~IsInterrupted(j[m]), NEW n \in Keys,
                        Equivalent(n, m), Pending(new[n])
                 PROVE  FALSE
      OBVIOUS
    <3>1. m \in rows
      BY <2>4
    <3>2. Equivalent(n, k)
      BY <1>2, <1>3, <3>1
    <3>3. Pending(j[n]) /\ n \notin rows
      BY <2>7
    <3> QED BY <1>1, <1>2, <3>2, <3>3, StatusCases
  <2>9. Doc(new)
    BY <2>6, <2>7, <2>8, NoNewPendingDoc
  <2> QED BY <2>6, <2>9 DEF new
<1> QED BY <1>4, <1>5

(* Interrupted(j, k) # {} closes what is left of the event. *)
LEMMA CloseInterruptedDoc ==
    ASSUME NEW j, Doc(j), NEW k \in ModernResets
    PROVE  LET S == {m \in Matches(j, k) : Pending(j[m])}
           IN /\ Doc(TerminateAll(j, S, "owner_interrupted"))
              /\ Keeps(j, TerminateAll(j, S, "owner_interrupted"))
<1> DEFINE S == {m \in Matches(j, k) : Pending(j[m])}
<1>1. k \in Keys /\ k.kind = "reset" /\ k.ns = "" /\ j \in [Keys -> Rows]
  BY DEF ModernResets, Doc, WellFormed
<1>2. S \in SUBSET Keys /\ \A m \in S : Pending(j[m]) /\ Equivalent(m, k)
  BY DEF Matches
<1>3. \A m \in S, n \in Keys : Equivalent(n, m) /\ Pending(j[n]) => n \in S
  <2> SUFFICES ASSUME NEW m \in S, NEW n \in Keys,
                      Equivalent(n, m), Pending(j[n])
               PROVE  n \in S
    OBVIOUS
  <2>1. Equivalent(n, k)
    BY <1>1, <1>2, ModernClass
  <2>2. Present(j[n])
    BY <1>1, StatusCases
  <2> QED BY <2>1, <2>2 DEF Matches
<1>4. "owner_interrupted" \in TerminationReasons
  BY DEF TerminationReasons
<1> HIDE DEF S
<1>5. /\ Doc(TerminateAll(j, S, "owner_interrupted"))
      /\ Keeps(j, TerminateAll(j, S, "owner_interrupted"))
  BY <1>2, <1>3, <1>4, TerminateAllDoc
<1> QED BY <1>5 DEF S

(* The row kept of an event that was not interrupted. *)
LEMMA MergedRowIsValid ==
    ASSUME NEW j, Doc(j), NEW M \in SUBSET Keys, NEW a \in M, NEW chs \in Requests,
           \A m \in M : Present(j[m]), ~IsInterrupted(j[a]),
           NEW r \in MergedRows(j, a, M, chs)
    PROVE  /\ r \in Rows /\ ValidRow(r) /\ Present(r) /\ ~IsInterrupted(r)
           /\ \A c \in Channels : j[a].ch[c] = "delivered" => r.ch[c] = "delivered"
<1> DEFINE ch == MergedChannels(j, a, M, chs)
           merged == [j[a] EXCEPT !.ch = ch]
<1>1. j[a] \in Rows /\ ValidRow(j[a]) /\ Present(j[a])
  BY DEF Doc, WellFormed
<1>2. \A c \in Channels : ch[c] \in {"delivered", "pending", j[a].ch[c]}
  BY DEF MergedChannels
<1>3. /\ ch \in [Channels -> ChannelStates]
      /\ \A c \in Channels : ch[c] = IF c \in DeliveredChannels(j, M)
                                      THEN "delivered" ELSE ch[c]
  BY <1>1 DEF MergedChannels, ChannelStates, Rows
<1>4. \A c \in Channels : j[a].ch[c] = "delivered" => ch[c] = "delivered"
  BY <1>3 DEF DeliveredChannels
<1>5. merged \in Rows /\ merged.ch = ch
  BY <1>1, <1>3 DEF Rows
<1>6. ChannelsOf(merged) # {} /\ ChannelsOf(j[a]) # {}
  BY <1>1, <1>2, <1>5 DEF ValidRow, ChannelsOf
<1>7. r = j[a] \/ r = Recompute(j[a]) \/ r = Recompute(merged)
  BY DEF MergedRows
<1>8. CASE r = j[a]
  BY <1>1, <1>8
<1>9. CASE r = Recompute(j[a])
  BY <1>1, <1>6, <1>9, RecomputeIsValid DEF IsInterrupted
<1>10. CASE r = Recompute(merged)
  <2> HIDE DEF merged, ch
  <2> QED BY <1>4, <1>5, <1>6, <1>10, RecomputeIsValid DEF IsInterrupted
<1> QED BY <1>7, <1>8, <1>9, <1>10

LEMMA AuthoritiesAreMatches ==
    ASSUME NEW j, NEW k, NEW a \in Authorities(j, k)
    PROVE  a \in Matches(j, k)
BY DEF Authorities, Canonical

LEMMA RegisterOrReuseDoc ==
    ASSUME NEW j, Doc(j), NEW k \in ModernResets, NEW chs \in Requests,
           NEW new \in RegisterOrReuse(j, k, chs)
    PROVE  Doc(new) /\ Keeps(j, new)
<1> DEFINE M == Matches(j, k)
<1>1. k \in Keys /\ k.kind = "reset" /\ k.ns = "" /\ j \in [Keys -> Rows]
  BY DEF ModernResets, Doc, WellFormed
<1>2. \A m \in Keys : m \in M <=> Equivalent(m, k) /\ Present(j[m])
  BY DEF Matches
<1>3. CASE M = {}
  <2>1. \A m \in Keys : Equivalent(m, k) => ~Present(j[m])
    BY <1>2, <1>3
  <2>2. ~Present(j[k])
    BY <1>1, <2>1, ModernEquivalence
  <2>3. \A m \in Keys : Equivalent(m, k) => ~IsInterrupted(j[m])
    BY <1>1, <2>1, StatusCases DEF IsInterrupted
  <2>4. NewRow(chs) \in Rows /\ ValidRow(NewRow(chs)) /\ Pending(NewRow(chs))
    BY NewRowIsValid
  <2>5. Present(NewRow(chs)) /\ ~IsInterrupted(NewRow(chs))
    BY <2>4, StatusCases DEF IsInterrupted
  <2>6. new = [j EXCEPT ![k] = NewRow(chs)]
    BY <1>3 DEF RegisterOrReuse
  <2>7. /\ Doc([j EXCEPT ![k] = NewRow(chs)])
        /\ Keeps(j, [j EXCEPT ![k] = NewRow(chs)])
    BY <1>1, <2>2, <2>3, <2>4, <2>5, AddRowDoc
  <2> QED BY <2>6, <2>7
<1>4. CASE M # {} /\ Interrupted(j, k) # {}
  <2>1. new = TerminateAll(j, {m \in M : Pending(j[m])}, "owner_interrupted")
    BY <1>4 DEF RegisterOrReuse
  <2> QED BY <2>1, CloseInterruptedDoc
<1>5. CASE M # {} /\ Interrupted(j, k) = {}
  <2>0. PICK a \in Authorities(j, k) : \E r \in MergedRows(j, a, M, chs) :
           new = [TerminateAll(j, {m \in M \ {a} : Pending(j[m])}, "superseded")
                    EXCEPT ![a] = r]
    BY <1>5 DEF RegisterOrReuse
  <2> DEFINE D == {m \in M \ {a} : Pending(j[m])}
  <2>1. PICK r \in MergedRows(j, a, M, chs) :
           new = [TerminateAll(j, D, "superseded") EXCEPT ![a] = r]
    BY <2>0
  <2> DEFINE j1 == TerminateAll(j, D, "superseded")
  <2>2. a \in M /\ M \in SUBSET Keys /\ \A m \in M : Present(j[m])
    BY <1>2, AuthoritiesAreMatches DEF Matches
  <2>3. \A m \in M : ~IsInterrupted(j[m])
    BY <1>5 DEF Interrupted, IsInterrupted
  <2>4. /\ r \in Rows /\ ValidRow(r) /\ Present(r) /\ ~IsInterrupted(r)
        /\ \A c \in Channels : j[a].ch[c] = "delivered" => r.ch[c] = "delivered"
    BY <2>1, <2>2, <2>3, MergedRowIsValid
  <2>5. "superseded" \in TerminationReasons /\ "superseded" # "owner_interrupted"
    BY DEF TerminationReasons
  <2>6. D \in SUBSET Keys /\ \A m \in D : Pending(j[m])
    BY <2>2
  <2> HIDE DEF D, M
  <2>7. /\ Doc(j1) /\ Keeps(j, j1)
        /\ \A m \in Keys : Pending(j1[m]) <=> Pending(j[m]) /\ m \notin D
        /\ \A m \in Keys \ D : j1[m] = j[m]
        /\ \A m \in D : j1[m].reason = "superseded"
    <3>1. "superseded" = "owner_interrupted" =>
             \A m \in D, n \in Keys : Equivalent(n, m) /\ Pending(j[n]) => n \in D
      BY <2>5
    <3>2. Doc(j1) /\ Keeps(j, j1)
      BY <2>5, <2>6, <3>1, TerminateAllDoc
    <3>3. /\ \A m \in Keys : Pending(j1[m]) <=> Pending(j[m]) /\ m \notin D
          /\ \A m \in Keys \ D : j1[m] = j[m]
      BY <2>5, <2>6, <3>1, TerminateAllDoc
    <3>4. ASSUME NEW m \in D PROVE j1[m].reason = "superseded"
      <4>1. m \in Keys /\ j[m] \in Rows
        BY <1>1, <2>6
      <4>2. j1[m] = Terminate(j[m], "superseded")
        BY <4>1 DEF TerminateAll
      <4>3. Terminate(j[m], "superseded").reason = "superseded"
        BY <4>1 DEF Terminate, Rows
      <4> QED BY <4>2, <4>3
    <3> QED BY <3>2, <3>3, <3>4
  <2> HIDE DEF j1
  <2>8. j1 \in [Keys -> Rows] /\ a \in Keys
    BY <2>2, <2>7 DEF Doc, WellFormed
  <2>9. new \in [Keys -> Rows] /\ new[a] = r
        /\ \A m \in Keys \ {a} : new[m] = j1[m]
    BY <2>1, <2>4, <2>8 DEF j1
  <2>10. WellFormed(new)
    BY <2>4, <2>7, <2>9 DEF WellFormed, Doc
  <2>11. Keeps(j, new)
    BY <2>4, <2>7, <2>8, <2>9 DEF Keeps
  <2>12. \A m \in Keys : IsInterrupted(new[m]) =>
            IsInterrupted(j[m]) /\ m \notin M /\ m # a
    BY <2>3, <2>4, <2>5, <2>7, <2>9 DEF IsInterrupted
  <2>13. Final(new)
    <3> SUFFICES ASSUME NEW n \in Keys, NEW m \in Keys,
                        Equivalent(m, n), IsInterrupted(new[n]), Pending(new[m])
                 PROVE  FALSE
      BY DEF Final
    <3>1. IsInterrupted(j[n]) /\ n \notin M /\ n # a
      BY <2>12
    <3>2. ~Equivalent(n, k)
      BY <1>1, <1>2, <3>1, StatusCases DEF IsInterrupted
    <3>3. ~Equivalent(m, k)
      BY <1>1, <3>2, ModernClass
    <3>4. m # a
      BY <1>2, <2>2, <3>3
    <3>5. Pending(j[m])
      BY <2>7, <2>9, <3>4
    <3> QED BY <3>1, <3>5 DEF Doc, Final
  <2>14. OneThreshold(new)
    <3>1. a.kind = "reset"
      BY <1>1, <1>2, <2>2, <2>8, EquivalentFields
    <3>2. \A m \in Keys : m.kind = "threshold" /\ Pending(new[m])
                          => Pending(j[m])
      BY <2>7, <2>9, <3>1
    <3> QED BY <3>2 DEF OneThreshold, Doc
  <2> QED BY <2>10, <2>11, <2>13, <2>14 DEF Doc
<1> QED BY <1>3, <1>4, <1>5

LEMMA RegisterDoc ==
    ASSUME NEW j, Doc(j), NEW k \in Keys, k.ns = "", NEW chs \in Requests,
           NEW same \in BOOLEAN, NEW closes \in BOOLEAN, closes => k.kind = "reset"
    PROVE  /\ Doc(Register(j, k, chs, same, closes))
           /\ Keeps(j, Register(j, k, chs, same, closes))
<1> DEFINE j1  == IF closes THEN ExpireThresholds(j, k) ELSE j
           D   == {m \in PendingThresholds(j1, k.window, k.owner) : SameCycle(m, k)}
           j2  == TerminateAll(j1, D, "superseded")
           new == Register(j, k, chs, same, closes)
<1>1. Doc(j1) /\ Keeps(j, j1)
  BY ExpireThresholdsDoc, KeepsSame
<1>2. NewRow(chs) \in Rows /\ ValidRow(NewRow(chs)) /\ Pending(NewRow(chs))
      /\ Present(NewRow(chs)) /\ ~IsInterrupted(NewRow(chs))
  BY NewRowIsValid, StatusCases DEF IsInterrupted
<1>3. CASE k.kind = "reset" /\ Interrupted(j1, k) # {}
  <2>1. new = TerminateAll(j1, {m \in Matches(j1, k) : Pending(j1[m])},
                           "owner_interrupted")
    BY <1>3 DEF Register
  <2>2. k \in ModernResets
    BY <1>3 DEF ModernResets
  <2> HIDE DEF new, j1
  <2>3. Doc(new) /\ Keeps(j1, new)
    BY <1>1, <2>1, <2>2, CloseInterruptedDoc
  <2> QED BY <1>1, <2>3, KeepsIsTransitive DEF new
<1>4. CASE ~(k.kind = "reset" /\ Interrupted(j1, k) # {}) /\ Present(j1[k])
  <2>1. new = j1 \/ new = j
    BY <1>4 DEF Register
  <2> QED BY <1>1, <2>1, KeepsSame
<1>5. CASE ~(k.kind = "reset" /\ Interrupted(j1, k) # {}) /\ ~Present(j1[k])
  <2>1. CASE k.kind = "threshold"
    <3>1. new = [j2 EXCEPT ![k] = NewRow(chs)]
      BY <1>5, <2>1 DEF Register
    <3>2. D \in SUBSET Keys /\ \A m \in D : Pending(j1[m])
      BY DEF PendingThresholds
    <3>3. "superseded" \in TerminationReasons
      BY DEF TerminationReasons
    <3>4. k \notin D
      <4>1. j1[k] \in Rows
        BY <1>1 DEF Doc, WellFormed
      <4> QED BY <1>5, <3>2, <4>1, StatusCases
    <3>5. \A m \in Keys : /\ m.kind = "threshold" /\ m.window = k.window
                          /\ SameCycle(k, m) \/ SameCycle(m, k)
                          /\ Pending(j1[m])
                          => m \in D
      BY DEF PendingThresholds, SameCycle
    <3>6. \A m \in Keys : ~Equivalent(m, k)
      BY <2>1 DEF Equivalent
    <3> HIDE DEF D, j1, new
    <3>7. Doc(j2) /\ Keeps(j1, j2)
      BY <1>1, <3>2, <3>3, TerminateAllDoc
    <3>8. /\ \A m \in Keys : Pending(j2[m]) <=> Pending(j1[m]) /\ m \notin D
          /\ \A m \in Keys \ D : j2[m] = j1[m]
      <4>1. j1 \in [Keys -> Rows] /\ \A m \in D : ValidRow(j1[m])
        BY <1>1, <3>2, StatusCases DEF Doc, WellFormed
      <4>2. j2 = [m \in Keys |-> IF m \in D THEN Terminate(j1[m], "superseded")
                                            ELSE j1[m]]
        BY DEF TerminateAll
      <4>3. \A m \in D : Terminate(j1[m], "superseded") \in Rows
                         /\ Terminal(Terminate(j1[m], "superseded"))
        BY <3>2, <3>3, <4>1, TerminateIsValid
      <4> HIDE DEF j2
      <4> QED BY <3>2, <4>2, <4>3, StatusCases
    <3> HIDE DEF j2
    <3>9. ~Present(j2[k])
      BY <1>5, <3>4, <3>8
    <3>10. Doc([j2 EXCEPT ![k] = NewRow(chs)])
           /\ Keeps(j2, [j2 EXCEPT ![k] = NewRow(chs)])
      <4>1. \A m \in Keys : /\ m.kind = "threshold" /\ m.window = k.window
                            /\ SameCycle(k, m) \/ SameCycle(m, k)
                            => ~Pending(j2[m])
        BY <3>5, <3>8
      <4> QED BY <1>2, <3>6, <3>7, <3>9, <4>1, AddRowDoc
    <3>11. Doc(new) /\ Keeps(j2, new)
      BY <3>1, <3>10
    <3>12. Keeps(j, new)
      BY <1>1, <3>7, <3>11, KeepsIsTransitive
    <3> QED BY <3>11, <3>12 DEF new
  <2>2. CASE k.kind # "threshold"
    <3>1. new = [j1 EXCEPT ![k] = NewRow(chs)]
      BY <1>5, <2>2 DEF Register
    <3>2. \A m \in Keys : Equivalent(m, k) => ~IsInterrupted(j1[m])
      <4> SUFFICES ASSUME NEW m \in Keys, Equivalent(m, k), IsInterrupted(j1[m])
                   PROVE  FALSE
        OBVIOUS
      <4>1. k.kind = "reset"
        BY EquivalentFields
      <4>2. j1[m] \in Rows
        BY <1>1 DEF Doc, WellFormed
      <4>3. m \in Interrupted(j1, k)
        BY <4>2, StatusCases DEF Interrupted, Matches, IsInterrupted
      <4> QED BY <1>5, <4>1, <4>3
    <3> HIDE DEF j1, new
    <3>3. Doc([j1 EXCEPT ![k] = NewRow(chs)])
          /\ Keeps(j1, [j1 EXCEPT ![k] = NewRow(chs)])
      BY <1>1, <1>2, <1>5, <2>2, <3>2, AddRowDoc
    <3>4. Doc(new) /\ Keeps(j1, new)
      BY <3>1, <3>3
    <3>5. Keeps(j, new)
      BY <1>1, <3>4, KeepsIsTransitive
    <3> QED BY <3>4, <3>5 DEF new
  <2> QED BY <2>1, <2>2
<1> QED BY <1>3, <1>4, <1>5

LEMMA ExpireObservedOwnerDoc ==
    ASSUME NEW j, Doc(j), NEW w, NEW o,
           NEW superseded \in Preserved, NEW preserve \in Preserved,
           NEW request \in BOOLEAN, NEW chs, request => chs \in Requests,
           NEW new \in ExpireObservedOwner(j, w, o, superseded, preserve,
                                          request, chs)
    PROVE  Doc(new) /\ Keeps(j, new)
<1> DEFINE j1 == CloseObservedCycle(j, w, o, preserve)
           s  == CHOOSE x \in superseded : TRUE
           j2 == IF superseded \subseteq preserve THEN j1
                 ELSE SuppressReset(j1, s, "local_observed")
<1>1. Doc(j1) /\ Keeps(j, j1)
  BY CloseObservedCycleDoc
<1>2. Doc(j2) /\ Keeps(j1, j2)
  <2>1. CASE superseded \subseteq preserve
    BY <1>1, <2>1, KeepsSame
  <2>2. CASE ~(superseded \subseteq preserve)
    <3>1. s \in ModernResets
      BY <2>2 DEF Preserved
    <3>2. "local_observed" \in TerminationReasons
      BY DEF TerminationReasons
    <3> HIDE DEF j1, s
    <3>3. Doc(SuppressReset(j1, s, "local_observed"))
          /\ Keeps(j1, SuppressReset(j1, s, "local_observed"))
      BY <1>1, <3>1, <3>2, SuppressResetDoc
    <3> QED BY <2>2, <3>3
  <2> QED BY <2>1, <2>2
<1>3. Keeps(j, j2)
  BY <1>1, <1>2, KeepsIsTransitive
<1>4. CASE request
  <2>1. PICK p \in preserve : new \in RegisterOrReuse(j2, p, chs)
    BY <1>4 DEF ExpireObservedOwner
  <2>2. p \in ModernResets
    BY DEF Preserved
  <2> HIDE DEF j2
  <2>3. Doc(new) /\ Keeps(j2, new)
    BY <1>2, <1>4, <2>1, <2>2, RegisterOrReuseDoc
  <2> QED BY <1>3, <2>3, KeepsIsTransitive
<1>5. CASE ~request
  <2>1. new = j2
    BY <1>5 DEF ExpireObservedOwner
  <2> QED BY <1>2, <1>3, <2>1
<1> QED BY <1>4, <1>5

-----------------------------------------------------------------------------
(* The commands that work on single rows. *)

LEMMA DueDoc ==
    ASSUME Doc(journal), NEW configured \in SUBSET Channels, Due(configured)
    PROVE  Doc(journal') /\ Keeps(journal, journal')
<1> DEFINE new == [k \in Keys |-> CloseUnconfigured(journal[k], configured)]
<1>1. journal \in [Keys -> Rows] /\ journal' = new
  BY DEF Doc, WellFormed, Due
<1>2. ASSUME NEW k \in Keys
      PROVE  /\ ~Pending(journal[k]) => new[k] = journal[k]
             /\ Pending(journal[k]) =>
                  /\ new[k] \in Rows /\ ValidRow(new[k]) /\ Present(new[k])
                  /\ ~IsInterrupted(new[k])
                  /\ \A c \in Channels : journal[k].ch[c] = "delivered"
                                         => new[k].ch[c] = "delivered"
  <2> DEFINE r == journal[k]
             ch == [c \in Channels |-> IF r.ch[c] = "pending" /\ c \notin configured
                                       THEN "channel_unconfigured" ELSE r.ch[c]]
             u == [r EXCEPT !.ch = ch]
  <2>1. r \in Rows
    BY <1>1
  <2>2. CASE ~Pending(r)
    BY <1>1, <2>2 DEF CloseUnconfigured
  <2>3. CASE Pending(r)
    <3>1. new[k] = Recompute(u)
      BY <1>1, <2>3 DEF CloseUnconfigured
    <3>2. ch \in [Channels -> ChannelStates]
      BY <2>1 DEF Rows, ChannelStates, FailureClasses
    <3>3. u \in Rows /\ u.ch = ch
      BY <2>1, <3>2 DEF Rows
    <3>4. ValidRow(r) /\ Present(r)
      BY <1>1, <2>1, <2>3, StatusCases DEF Doc, WellFormed
    <3>5. ChannelsOf(u) # {}
      <4>1. PICK c \in Channels : r.ch[c] # "none"
        BY <3>4 DEF ValidRow, ChannelsOf
      <4>2. u.ch[c] # "none"
        BY <3>3, <4>1
      <4> QED BY <4>2 DEF ChannelsOf
    <3>6. \A c \in Channels : r.ch[c] = "delivered" => u.ch[c] = "delivered"
      BY <3>3
    <3> HIDE DEF u, r, new
    <3>7. /\ new[k] \in Rows /\ ValidRow(new[k]) /\ Present(new[k])
          /\ new[k].reason # "owner_interrupted" /\ new[k].ch = u.ch
      BY <3>1, <3>3, <3>5, RecomputeIsValid
    <3> QED BY <2>3, <3>6, <3>7 DEF IsInterrupted, r
  <2> QED BY <2>2, <2>3
<1> HIDE DEF new
<1>3. \A k \in Keys : new[k] \in Rows
  BY <1>1, <1>2
<1>4. WellFormed(new) /\ Keeps(journal, new)
  <2>1. new \in [Keys -> Rows]
    BY <1>3 DEF new
  <2> QED BY <1>1, <1>2, <2>1, StatusCases DEF WellFormed, Keeps, Doc
<1>5. \A k \in Keys : Pending(new[k]) => Pending(journal[k])
  BY <1>2
<1>6. \A k \in Keys : IsInterrupted(new[k]) => IsInterrupted(journal[k])
  BY <1>2
<1>7. Doc(new)
  BY <1>4, <1>5, <1>6, NoNewPendingDoc
<1> QED BY <1>1, <1>4, <1>7

LEMMA RecordDoc ==
    ASSUME Doc(journal), NEW k \in Keys, NEW c \in Channels,
           NEW outcome \in Outcomes, Record(k, c, outcome)
    PROVE  Doc(journal') /\ Keeps(journal, journal')
<1> DEFINE r == journal[k]
           u == [r EXCEPT !.ch[c] = outcome]
<1>1. /\ journal \in [Keys -> Rows] /\ r.ch[c] = "pending"
      /\ journal' = [journal EXCEPT ![k] = Recompute(u)]
  BY DEF Doc, WellFormed, Record, RecordOutcome
<1>2. r \in Rows /\ outcome \in ChannelStates /\ outcome # "none"
  BY <1>1 DEF Outcomes, ChannelStates, FailureClasses
<1>3. /\ u \in Rows /\ u.ch[c] = outcome
      /\ \A d \in Channels \ {c} : u.ch[d] = r.ch[d]
  BY <1>2 DEF Rows
<1>4. ChannelsOf(u) # {}
  BY <1>2, <1>3 DEF ChannelsOf
<1>5. ValidRow(r) \/ ~Present(r)
  BY <1>1 DEF Doc, WellFormed
<1> DEFINE new == [journal EXCEPT ![k] = Recompute(u)]
<1> HIDE DEF u, r
<1>6. /\ Recompute(u) \in Rows /\ ValidRow(Recompute(u))
      /\ Recompute(u).reason # "owner_interrupted"
      /\ Recompute(u).ch = u.ch /\ Present(Recompute(u))
  BY <1>3, <1>4, RecomputeIsValid
<1>7. new[k] = Recompute(u) /\ \A m \in Keys \ {k} : new[m] = journal[m]
  BY <1>1
<1>8. WellFormed(new)
  BY <1>1, <1>6, <1>7 DEF WellFormed, Doc
<1>9. \A d \in Channels : r.ch[d] = "delivered" => u.ch[d] = "delivered"
  BY <1>1, <1>3
<1>10. Keeps(journal, new)
  BY <1>6, <1>7, <1>9 DEF Keeps, r
<1>11. CASE Present(r)
  <2>1. Pending(r)
    BY <1>1, <1>5, <1>11 DEF ValidRow, Aggregate, Pending
  <2>2. \A m \in Keys : Pending(new[m]) => Pending(journal[m])
    BY <1>7, <2>1 DEF r
  <2>3. \A m \in Keys : IsInterrupted(new[m]) => IsInterrupted(journal[m])
    BY <1>6, <1>7 DEF IsInterrupted
  <2>4. Doc(new)
    BY <1>8, <2>2, <2>3, NoNewPendingDoc
  <2> QED BY <1>1, <1>10, <2>4
<1> QED BY <1>11 DEF Record, r

LEMMA AcknowledgeDoc ==
    ASSUME Doc(journal), NEW k \in Keys, Acknowledge(k)
    PROVE  Doc(journal') /\ Keeps(journal, journal')
<1> DEFINE u == [journal[k] EXCEPT !.acked = TRUE]
           new == [journal EXCEPT ![k] = u]
<1>1. journal \in [Keys -> Rows] /\ journal' = new /\ Terminal(journal[k])
  BY DEF Doc, WellFormed, Acknowledge
<1>2. /\ u \in Rows /\ u.ch = journal[k].ch
      /\ u.status = journal[k].status /\ u.reason = journal[k].reason
  BY <1>1 DEF Rows
<1>3. new[k] = u /\ \A m \in Keys \ {k} : new[m] = journal[m]
  BY <1>1
<1>4. Present(journal[k]) /\ ValidRow(journal[k])
  BY <1>1, StatusCases DEF Doc, WellFormed
<1>5. ValidRow(u) /\ Present(u) /\ Terminal(u)
  BY <1>1, <1>2, <1>4 DEF ValidRow, ChannelsOf, Present, Terminal
<1> HIDE DEF u
<1>6. WellFormed(new) /\ Keeps(journal, new)
  BY <1>1, <1>2, <1>3, <1>5 DEF WellFormed, Keeps, Doc
<1>7. \A m \in Keys : Pending(new[m]) => Pending(journal[m])
  BY <1>1, <1>2, <1>3, <1>5, StatusCases
<1>8. \A m \in Keys : IsInterrupted(new[m]) => IsInterrupted(journal[m])
  BY <1>1, <1>2, <1>3 DEF IsInterrupted
<1>9. Doc(new)
  BY <1>6, <1>7, <1>8, NoNewPendingDoc
<1> QED BY <1>1, <1>6, <1>9

LEMMA ExpireDoc ==
    ASSUME Doc(journal), NEW S \in SUBSET Expirable, Expire(S)
    PROVE  Doc(journal') /\ Keeps(journal, journal')
<1>1. S \in SUBSET Keys /\ \A k \in S : Pending(journal[k])
  BY DEF Expirable
<1>2. "expired_after_reset" \in TerminationReasons
  BY DEF TerminationReasons
<1>3. journal' = TerminateAll(journal, S, "expired_after_reset")
  BY DEF Expire
<1>4. Doc(TerminateAll(journal, S, "expired_after_reset"))
      /\ Keeps(journal, TerminateAll(journal, S, "expired_after_reset"))
  BY <1>1, <1>2, TerminateAllDoc
<1> QED BY <1>3, <1>4

(* prune forgets rows, deliveries and interruptions included: it alone does
   not keep them, and it brings no row back. *)
LEMMA PruneDoc ==
    ASSUME Doc(journal), NEW S \in SUBSET Reconciled, Prune(S)
    PROVE  /\ Doc(journal')
           /\ \A k \in Keys : Present(journal'[k]) => journal'[k] = journal[k]
<1> DEFINE new == [k \in Keys |-> IF k \in S THEN NoRow ELSE journal[k]]
<1>1. journal \in [Keys -> Rows] /\ journal' = new
  BY DEF Doc, WellFormed, Prune
<1>2. \A k \in Keys : new[k] = journal[k] \/ new[k] = NoRow
  OBVIOUS
<1>3. new \in [Keys -> Rows]
  BY <1>1, NoRowIsRow
<1> HIDE DEF new
<1>4. WellFormed(new)
  BY <1>2, <1>3, NoRowIsRow DEF WellFormed, Doc
<1>5. \A k \in Keys : Pending(new[k]) => Pending(journal[k])
  BY <1>2, NoRowIsRow
<1>6. \A k \in Keys : IsInterrupted(new[k]) => IsInterrupted(journal[k])
  BY <1>2, NoRowIsRow DEF IsInterrupted
<1>7. Doc(new)
  BY <1>4, <1>5, <1>6, NoNewPendingDoc
<1> QED BY <1>1, <1>2, <1>7, NoRowIsRow

LEMMA InitDoc == Init => Doc(journal)
<1> SUFFICES ASSUME Init PROVE Doc(journal)
  OBVIOUS
<1>1. PICK T \in SUBSET {k \in Keys : k.ns # "" /\ k.kind = "threshold"},
           R \in SUBSET {k \in Keys : k.ns # "" /\ k.kind = "reset"},
           chs \in Requests :
             OnePerWindow(T) /\ journal = LegacyRows(T, R, chs)
  BY DEF Init
<1> DEFINE new == NewRow(chs)
           old == Terminate(new, "expired_after_reset")
<1>2. new \in Rows /\ ValidRow(new) /\ Pending(new) /\ ~IsInterrupted(new)
  BY NewRowIsValid, StatusCases DEF IsInterrupted
<1>3. "expired_after_reset" \in TerminationReasons
  BY DEF TerminationReasons
<1>4. /\ old \in Rows /\ ValidRow(old) /\ Terminal(old)
      /\ old.reason = "expired_after_reset"
  <2> HIDE DEF new
  <2> QED BY <1>2, <1>3, TerminateIsValid DEF old
<1>5. ~Pending(old) /\ ~IsInterrupted(old)
  BY <1>4, StatusCases DEF IsInterrupted
<1>6. journal = [k \in Keys |->
         CASE k \in R -> new
           [] k \in T -> IF \E r \in R : r.window = k.window THEN old ELSE new
           [] OTHER   -> NoRow]
  BY <1>1 DEF LegacyRows
<1>7. R \cap T = {}
  OBVIOUS
<1> HIDE DEF new, old
<1>8. ASSUME NEW k \in Keys
      PROVE  /\ k \in R => journal[k] = new
             /\ k \in T => journal[k] \in {old, new}
             /\ k \notin R /\ k \notin T => journal[k] = NoRow
  BY <1>6, <1>7
<1>9. \A k \in Keys : journal[k] \in {old, new, NoRow}
  BY <1>8
<1>10. journal \in [Keys -> Rows]
  <2>1. \A k \in Keys : journal[k] \in Rows
    BY <1>2, <1>4, <1>9, NoRowIsRow
  <2> QED BY <1>6, <2>1
<1>11. WellFormed(journal)
  BY <1>2, <1>4, <1>9, <1>10, NoRowIsRow DEF WellFormed
<1>12. Final(journal)
  BY <1>2, <1>5, <1>9, NoRowIsRow DEF Final, IsInterrupted
<1>13. OneThreshold(journal)
  <2> SUFFICES ASSUME NEW k \in Keys, NEW m \in Keys,
                      k.kind = "threshold", m.kind = "threshold",
                      k.window = m.window,
                      Pending(journal[k]), Pending(journal[m])
               PROVE  k = m
    BY DEF OneThreshold
  <2>1. k \in T /\ m \in T
    BY <1>8, NoRowIsRow
  <2> QED BY <1>1, <2>1 DEF OnePerWindow
<1> QED BY <1>11, <1>12, <1>13 DEF Doc

-----------------------------------------------------------------------------
(* Every step. *)

(* A step preserves the invariant, and keeps every row it does not prune. *)
LEMMA NextDoc ==
    ASSUME Doc(journal), [Next]_vars
    PROVE  /\ Doc(journal')
           /\ \A k \in Keys, c \in Channels :
                 journal[k].ch[c] = "delivered" /\ Present(journal[k])
                    /\ Present(journal'[k])
                 => journal'[k].ch[c] = "delivered"
<1> DEFINE Step == Keeps(journal, journal')
                     \/ \A k \in Keys : Present(journal'[k]) => journal'[k] = journal[k]
<1> SUFFICES Doc(journal') /\ Step
  BY DEF Keeps
<1>1. CASE UNCHANGED vars
  BY <1>1 DEF vars
<1>2. ASSUME NEW k \in Keys, NEW chs \in Requests, NEW same \in BOOLEAN,
             NEW closes \in BOOLEAN, RegisterAlert(k, chs, same, closes)
      PROVE  Doc(journal') /\ Step
  BY <1>2, RegisterDoc DEF RegisterAlert
<1>3. ASSUME NEW k \in ModernResets, ExpireThresholdsOfCycle(k)
      PROVE  Doc(journal') /\ Step
  BY <1>3, ExpireThresholdsDoc DEF ExpireThresholdsOfCycle, ModernResets
<1>4. ASSUME NEW w \in Windows, NEW o \in Owners, ExpireThresholdsOfOwner(w, o)
      PROVE  Doc(journal') /\ Step
  BY <1>4, ExpireOwnerThresholdsDoc DEF ExpireThresholdsOfOwner
<1>5. ASSUME NEW k \in ModernResets, ExpireThresholdsAndSuppress(k)
      PROVE  Doc(journal') /\ Step
  <2> DEFINE j1 == ExpireOwnerThresholds(journal, k.window, k.owner)
  <2>1. Doc(j1) /\ Keeps(journal, j1)
    BY ExpireOwnerThresholdsDoc
  <2>2. journal' = SuppressReset(j1, k, "local_observed")
    BY <1>5 DEF ExpireThresholdsAndSuppress
  <2>3. "local_observed" \in TerminationReasons
    BY DEF TerminationReasons
  <2> HIDE DEF j1
  <2>4. Doc(journal') /\ Keeps(j1, journal')
    BY <2>1, <2>2, <2>3, SuppressResetDoc
  <2> QED BY <2>1, <2>4, KeepsIsTransitive
<1>6. ASSUME NEW w \in Windows, NEW o \in Owners, ObserveLocalReset(w, o)
      PROVE  Doc(journal') /\ Step
  <2>1. PICK superseded \in Superseded(w, o), preserve \in Superseded(w, o) :
           journal' \in ExpireObservedOwner(journal, w, o, superseded, preserve,
                                            FALSE, {})
    BY <1>6 DEF ObserveLocalReset
  <2>2. superseded \in Preserved /\ preserve \in Preserved
    BY DEF Superseded, Preserved
  <2> QED BY <2>1, <2>2, ExpireObservedOwnerDoc
<1>7. ASSUME NEW k \in ModernResets, NEW chs \in Requests, ObserveReset(k, chs)
      PROVE  Doc(journal') /\ Step
  <2>1. PICK superseded \in Superseded(k.window, k.owner) :
           journal' \in ExpireObservedOwner(journal, k.window, k.owner,
                                            superseded, {k}, TRUE, chs)
    BY <1>7 DEF ObserveReset
  <2>2. superseded \in Preserved /\ {k} \in Preserved
    BY DEF Superseded, Preserved
  <2> QED BY <2>1, <2>2, ExpireObservedOwnerDoc
<1>8. ASSUME NEW o \in Owners, InterruptPendingOwner(o)
      PROVE  Doc(journal') /\ Step
  BY <1>8, InterruptOwnerDoc DEF InterruptPendingOwner
<1>9. ASSUME NEW o \in Owners, NEW preserve \in Preserved,
             InterruptPendingOthers(o, preserve)
      PROVE  Doc(journal') /\ Step
  BY <1>9, InterruptOtherOwnersDoc DEF InterruptPendingOthers
<1>10. ASSUME NEW k \in ModernResets, SuppressLocalReset(k)
       PROVE  Doc(journal') /\ Step
  BY <1>10, SuppressResetDoc DEF SuppressLocalReset, TerminationReasons
<1>11. ASSUME NEW k \in ModernResets, InterruptResetCycle(k)
       PROVE  Doc(journal') /\ Step
  BY <1>11, SuppressResetDoc DEF InterruptResetCycle, TerminationReasons
<1>12. ASSUME NEW configured \in SUBSET Channels, Due(configured)
       PROVE  Doc(journal') /\ Step
  BY <1>12, DueDoc
<1>13. ASSUME NEW k \in Keys, NEW c \in Channels, NEW outcome \in Outcomes,
              Record(k, c, outcome)
       PROVE  Doc(journal') /\ Step
  BY <1>13, RecordDoc
<1>14. ASSUME NEW k \in Keys, Acknowledge(k)
       PROVE  Doc(journal') /\ Step
  BY <1>14, AcknowledgeDoc
<1>15. ASSUME NEW S \in SUBSET Expirable, Expire(S)
       PROVE  Doc(journal') /\ Step
  BY <1>15, ExpireDoc
<1>16. ASSUME NEW S \in SUBSET Reconciled, Prune(S)
       PROVE  Doc(journal') /\ Step
  BY <1>16, PruneDoc
<1> HIDE DEF Step
<1> QED
  BY <1>1, <1>2, <1>3, <1>4, <1>5, <1>6, <1>7, <1>8, <1>9, <1>10, <1>11,
     <1>12, <1>13, <1>14, <1>15, <1>16
  DEF Next

LEMMA DocIsInvariant == Spec => []Doc(journal)
<1>1. Init => Doc(journal)
  BY InitDoc
<1>2. Doc(journal) /\ [Next]_vars => Doc(journal)'
  BY NextDoc DEF Doc, WellFormed, Final, OneThreshold
<1> QED BY <1>1, <1>2, PTL DEF Spec

(* The journal always is a document of the declared shape. *)
THEOREM TypeCorrect == Spec => []TypeOK
<1>1. Doc(journal) => TypeOK
  BY DEF Doc, WellFormed, TypeOK
<1> QED BY <1>1, DocIsInvariant, PTL

(* No command writes a document that the next command would refuse. *)
THEOREM DocumentsAreValid == Spec => []RowsValid
<1>1. Doc(journal) => RowsValid
  BY DEF Doc, WellFormed, RowsValid
<1> QED BY <1>1, DocIsInvariant, PTL

(* An event interrupted with its owner has no equivalent row left to send. *)
THEOREM InterruptedEventsStaySilent == Spec => []InterruptionIsFinal
<1>1. Doc(journal) => InterruptionIsFinal
  BY DEF Doc, Final, IsInterrupted, InterruptionIsFinal
<1> QED BY <1>1, DocIsInvariant, PTL

(* A cycle key, under its legacy and its modern prefix together, has at most
   one threshold waiting.  The key without an arm is one of its own. *)
THEOREM OneThresholdWaits == Spec => []OnePendingThreshold
<1>1. \A k, m \in Keys : k.owner = m.owner /\ k.epoch = m.epoch
                           => SameCycle(k, m) \/ SameCycle(m, k)
  BY KeysAssumption DEF SameCycle, Identities
<1>2. Doc(journal) => OnePendingThreshold
  BY <1>1 DEF Doc, OneThreshold, OnePendingThreshold
<1> QED BY <1>2, DocIsInvariant, PTL

(* A delivered channel stays delivered for as long as the journal holds its
   row, whatever commands follow. *)
THEOREM DeliveriesAreKept == Spec => DeliveredIsForever
<1>1. Doc(journal) /\ [Next]_vars =>
        [\A k \in Keys, c \in Channels :
           /\ Present(journal[k]) /\ Present(journal'[k])
           /\ journal[k].ch[c] = "delivered"
           => journal'[k].ch[c] = "delivered"]_vars
  BY NextDoc
<1> QED BY <1>1, DocIsInvariant, PTL DEF Spec, DeliveredIsForever

-----------------------------------------------------------------------------
(* The recovery of an observed reset. *)

(* What a recovery leaves of the event k, from any document j: RecoveryOutcome
   is this for the journal's own document. *)
Outcome(j, new, k, chs) ==
    LET before  == Matches(j, k)
        after   == Matches(new, k)
        waiting == {m \in after : Pending(new[m])}
        asked   == chs \cup {c \in Channels : \E m \in before : j[m].ch[c] = "pending"}
    IN /\ \A m, n \in waiting : m = n
       /\ Interrupted(new, k) = {} =>
            \E a \in after :
               /\ \A c \in asked : new[a].ch[c] \in {"pending", "delivered"}
               /\ \A c \in DeliveredChannels(j, before) : new[a].ch[c] = "delivered"
               /\ waiting \subseteq {a}

(* The rows of the event are the same in both documents. *)
SameEvent(j, new, k) == \A m \in Keys : Equivalent(m, k) => new[m] = j[m]

Elsewhere(new, k) ==
    \A m \in Keys :
        /\ m.window = k.window /\ m.owner = k.owner /\ m.kind # "anomaly"
        /\ Pending(new[m])
        => Equivalent(m, k)

(* Closing the cycle spares the rows of the preserved reset, and nothing else
   of the owner in that window. *)
LEMMA CloseSparesTheEvent ==
    ASSUME NEW j, Doc(j), NEW k \in ModernResets
    PROVE  LET new == CloseObservedCycle(j, k.window, k.owner, {k})
           IN SameEvent(j, new, k) /\ Elsewhere(new, k)
<1> DEFINE T == PendingThresholds(j, k.window, k.owner)
           j1 == TerminateAll(j, T, "expired_after_reset")
           S == {m \in Keys : /\ m.kind = "reset" /\ m.window = k.window
                              /\ m.owner = k.owner /\ Pending(j1[m])
                              /\ \A p \in {k} : ~SameCycle(m, p)}
           new == TerminateAll(j1, S, "local_observed")
<1>1. k \in Keys /\ k.kind = "reset" /\ k.ns = ""
  BY DEF ModernResets
<1>2. /\ T \in SUBSET Keys /\ \A m \in T : Pending(j[m]) /\ m.kind = "threshold"
      /\ "expired_after_reset" \in TerminationReasons
      /\ "local_observed" \in TerminationReasons
  BY DEF PendingThresholds, TerminationReasons
<1>3. CloseObservedCycle(j, k.window, k.owner, {k}) = new
  BY DEF CloseObservedCycle, ExpireOwnerThresholds
<1>4. \A m \in Keys : m.kind = "threshold" /\ m.window = k.window
                       /\ m.owner = k.owner /\ Pending(j[m]) => m \in T
  BY DEF PendingThresholds
<1> HIDE DEF T
<1>5. /\ Doc(j1)
      /\ \A m \in Keys : Pending(j1[m]) <=> Pending(j[m]) /\ m \notin T
      /\ \A m \in Keys \ T : j1[m] = j[m]
  BY <1>2, TerminateAllDoc
<1> HIDE DEF j1
<1>6. S \in SUBSET Keys /\ \A m \in S : Pending(j1[m]) /\ ~SameCycle(m, k)
  OBVIOUS
<1>7. \A m \in Keys : m.kind = "reset" /\ m.window = k.window /\ m.owner = k.owner
                       /\ Pending(j1[m]) /\ ~SameCycle(m, k) => m \in S
  OBVIOUS
<1> HIDE DEF S
<1>8. /\ \A m \in Keys : Pending(new[m]) <=> Pending(j1[m]) /\ m \notin S
      /\ \A m \in Keys \ S : new[m] = j1[m]
  BY <1>2, <1>5, <1>6, TerminateAllDoc
<1> HIDE DEF new
<1>9. SameEvent(j, new, k)
  <2> SUFFICES ASSUME NEW m \in Keys, Equivalent(m, k) PROVE new[m] = j[m]
    BY DEF SameEvent
  <2>1. m.kind = "reset" /\ m.owner = k.owner /\ m.epoch = k.epoch
    BY <1>1, EquivalentFields
  <2>2. m \notin T /\ m \notin S
    BY <1>1, <1>2, <1>6, <2>1 DEF SameCycle
  <2> QED BY <1>5, <1>8, <2>2
<1>10. Elsewhere(new, k)
  <2> SUFFICES ASSUME NEW m \in Keys, m.window = k.window, m.owner = k.owner,
                      m.kind # "anomaly", Pending(new[m])
               PROVE  Equivalent(m, k)
    BY DEF Elsewhere
  <2>1. m.kind = "reset"
    BY <1>4, <1>5, <1>8, KeysAssumption DEF Identities, Kinds
  <2>2. SameCycle(m, k)
    BY <1>7, <1>8, <2>1
  <2> QED BY <1>1, <2>1, <2>2 DEF Equivalent
<1> QED BY <1>3, <1>9, <1>10

(* An identity is its fields. *)
LEMMA IdentityFields ==
    ASSUME NEW k \in Identities
    PROVE  k = [kind |-> k.kind, window |-> k.window, selector |-> k.selector,
                ns |-> k.ns, owner |-> k.owner, epoch |-> k.epoch]
BY Zenon DEF Identities

(* Two resets of one window, owner and epoch have one modern identity, so a
   superseded reset that is not the event's own belongs to another event. *)
LEMMA SuppressSparesTheEvent ==
    ASSUME NEW j, Doc(j), NEW k \in ModernResets, NEW s \in ModernResets,
           s # k, s.window = k.window, s.owner = k.owner,
           NEW reason \in TerminationReasons
    PROVE  LET new == SuppressReset(j, s, reason)
           IN /\ SameEvent(j, new, k)
              /\ \A m \in Keys : Pending(new[m]) => Pending(j[m])
<1> DEFINE rows == ResetRows(j, s)
           new  == SuppressReset(j, s, reason)
<1>1. /\ k \in Keys /\ k.kind = "reset" /\ k.ns = ""
      /\ s \in Keys /\ s.kind = "reset" /\ s.ns = "" /\ j \in [Keys -> Rows]
  BY DEF ModernResets, Doc, WellFormed
<1>2. s.epoch # k.epoch
  <2>1. s \in Identities /\ k \in Identities /\ s.selector = k.selector
    BY <1>1, KeysAssumption, ResetsAssumption
  <2>2. /\ s = [kind |-> s.kind, window |-> s.window, selector |-> s.selector,
                ns |-> s.ns, owner |-> s.owner, epoch |-> s.epoch]
        /\ k = [kind |-> k.kind, window |-> k.window, selector |-> k.selector,
                ns |-> k.ns, owner |-> k.owner, epoch |-> k.epoch]
    BY <2>1, IdentityFields
  <2> QED BY <1>1, <2>1, <2>2
<1>3. ~Equivalent(s, k) /\ \A m \in rows : ~Equivalent(m, k)
  BY <1>1, <1>2, ModernEquivalence DEF ResetRows, SameCycle
<1>4. CASE rows = {}
  <2> DEFINE r == Tombstone(reason)
  <2>1. r \in Rows /\ ~Pending(r)
    BY TombstoneIsValid, StatusCases
  <2>2. new = [j EXCEPT ![s] = r]
    BY <1>4 DEF SuppressReset
  <2> HIDE DEF r, new
  <2>3. new[s] = r /\ \A m \in Keys \ {s} : new[m] = j[m]
    BY <1>1, <2>2
  <2> QED BY <1>3, <2>1, <2>3 DEF SameEvent, new
<1>5. CASE rows # {}
  <2>1. new = [m \in Keys |->
            IF m \notin rows THEN j[m]
            ELSE IF Pending(j[m]) THEN Terminate(j[m], reason)
            ELSE IF reason = "owner_interrupted"
                    /\ j[m].reason = "local_observed" THEN Promote(j[m])
            ELSE j[m]]
    BY <1>5 DEF SuppressReset
  <2> HIDE DEF rows, new
  <2>2. \A m \in Keys \ rows : new[m] = j[m]
    BY <2>1
  <2>3. ASSUME NEW m \in Keys, Pending(new[m]) PROVE Pending(j[m])
    <3>1. CASE m \in rows /\ ~Pending(j[m])
      <4>1. new[m] = Promote(j[m]) \/ new[m] = j[m]
        BY <2>1, <3>1
      <4>2. Promote(j[m]).status = j[m].status
        BY <1>1 DEF Promote, Rows
      <4> QED BY <2>3, <4>1, <4>2 DEF Pending
    <3> QED BY <2>2, <2>3, <3>1
  <2> QED BY <1>3, <2>2, <2>3 DEF SameEvent, new
<1> QED BY <1>4, <1>5

(* The channels of the row kept: a delivery anywhere is kept, and what waited
   or is asked for waits. *)
LEMMA MergedRowChannels ==
    ASSUME NEW j, Doc(j), NEW M \in SUBSET Keys, NEW a \in M, NEW chs \in Requests,
           NEW r \in MergedRows(j, a, M, chs)
    PROVE  \A c \in Channels :
              /\ c \in DeliveredChannels(j, M) => r.ch[c] = "delivered"
              /\ c \in chs \/ (\E m \in M : j[m].ch[c] = "pending") =>
                    r.ch[c] \in {"pending", "delivered"}
<1> DEFINE ch == MergedChannels(j, a, M, chs)
           merged == [j[a] EXCEPT !.ch = ch]
<1>1. j[a] \in Rows
  BY DEF Doc, WellFormed
<1>2. r = merged \/ r = Recompute(merged)
  BY DEF MergedRows
<1>3. merged.ch = ch /\ Recompute(merged).ch = ch
  BY <1>1 DEF Rows, Recompute
<1>4. \A c \in Channels :
         /\ c \in DeliveredChannels(j, M) => ch[c] = "delivered"
         /\ c \in chs \/ (\E m \in M : j[m].ch[c] = "pending") =>
               ch[c] \in {"pending", "delivered"}
  BY DEF MergedChannels
<1> HIDE DEF ch, merged
<1> QED BY <1>2, <1>3, <1>4

LEMMA RegisterOrReuseOutcome ==
    ASSUME NEW j, Doc(j), NEW k \in ModernResets, NEW chs \in Requests,
           NEW new \in RegisterOrReuse(j, k, chs)
    PROVE  /\ Outcome(j, new, k, chs)
           /\ \A m \in Keys : Pending(new[m]) => Pending(j[m]) \/ Equivalent(m, k)
<1> DEFINE M == Matches(j, k)
           N == Matches(new, k)
           W == {m \in N : Pending(new[m])}
<1>1. k \in Keys /\ k.kind = "reset" /\ k.ns = "" /\ j \in [Keys -> Rows]
  BY DEF ModernResets, Doc, WellFormed
<1>2. /\ \A m \in Keys : m \in M <=> Equivalent(m, k) /\ Present(j[m])
      /\ \A m \in Keys : m \in N <=> Equivalent(m, k) /\ Present(new[m])
      /\ M \subseteq Keys /\ N \subseteq Keys
  BY DEF Matches
<1>3. Equivalent(k, k)
  BY <1>1, ModernEquivalence
<1>4. new \in [Keys -> Rows] /\ Doc(new) /\ Keeps(j, new)
  BY RegisterOrReuseDoc DEF Doc, WellFormed
<1>5. SUFFICES /\ \A m, n \in W : m = n
               /\ Interrupted(new, k) = {} =>
                    \E a \in N :
                      /\ \A c \in chs \cup {d \in Channels : \E m \in M : j[m].ch[d] = "pending"} :
                            new[a].ch[c] \in {"pending", "delivered"}
                      /\ \A c \in DeliveredChannels(j, M) : new[a].ch[c] = "delivered"
                      /\ W \subseteq {a}
               /\ \A m \in Keys : Pending(new[m]) => Pending(j[m]) \/ Equivalent(m, k)
  BY Zenon DEF Outcome
<1>6. CASE M = {}
  <2>1. new = [j EXCEPT ![k] = NewRow(chs)]
    BY <1>6 DEF RegisterOrReuse
  <2>2. new[k] = NewRow(chs) /\ \A m \in Keys \ {k} : new[m] = j[m]
    BY <1>1, <2>1
  <2>3. Pending(NewRow(chs)) /\ \A c \in chs : NewRow(chs).ch[c] = "pending"
    BY NewRowIsValid DEF Requests, NewRow
  <2> HIDE DEF M, N
  <2>4. N = {k}
    <3>1. Present(new[k])
      BY <1>1, <1>4, <2>2, <2>3, StatusCases
    <3> QED BY <1>1, <1>2, <1>3, <1>6, <2>2, <3>1
  <2>5. DeliveredChannels(j, M) = {}
    BY <1>6 DEF DeliveredChannels
  <2> QED BY <1>3, <1>6, <2>2, <2>3, <2>4, <2>5
<1>7. CASE M # {} /\ Interrupted(j, k) # {}
  <2> DEFINE S == {m \in M : Pending(j[m])}
  <2>1. new = TerminateAll(j, S, "owner_interrupted")
    BY <1>7 DEF RegisterOrReuse
  <2>2. PICK i \in M : Terminal(j[i]) /\ j[i].reason = "owner_interrupted"
    BY <1>7 DEF Interrupted
  <2>3. /\ \A m \in Keys \ S : new[m] = j[m]
        /\ \A m \in S : new[m] = Terminate(j[m], "owner_interrupted")
    BY <1>2, <2>1 DEF TerminateAll
  <2>4. \A m \in S : ~Pending(new[m])
    <3> SUFFICES ASSUME NEW m \in S PROVE ~Pending(new[m])
      OBVIOUS
    <3>1. j[m] \in Rows
      BY <1>1, <1>2
    <3> QED BY <2>3, <3>1 DEF Terminate, Pending, Rows
  <2>5. i \in N /\ new[i] = j[i]
    <3>1. i \in Keys \ S
      BY <1>1, <1>2, <2>2, StatusCases
    <3> QED BY <1>1, <1>2, <2>2, <2>3, <3>1
  <2>6. i \in Interrupted(new, k)
    BY <2>2, <2>5 DEF Interrupted
  <2>7. W = {}
    <3> SUFFICES ASSUME NEW m \in W PROVE FALSE
      OBVIOUS
    <3>1. m \in Keys /\ Equivalent(m, k) /\ Pending(new[m]) /\ m \notin S
      BY <1>2, <2>4
    <3>2. Pending(j[m])
      BY <2>3, <3>1
    <3> QED BY <1>1, <1>2, <3>1, <3>2, StatusCases
  <2>8. \A m \in Keys : Pending(new[m]) => Pending(j[m])
    BY <2>3, <2>4
  <2> HIDE DEF W, M, N, S
  <2> QED BY <2>6, <2>7, <2>8
<1>8. CASE M # {} /\ Interrupted(j, k) = {}
  <2>0. PICK a \in Authorities(j, k) : \E r \in MergedRows(j, a, M, chs) :
           new = [TerminateAll(j, {m \in M \ {a} : Pending(j[m])}, "superseded")
                    EXCEPT ![a] = r]
    BY <1>8 DEF RegisterOrReuse
  <2> DEFINE D  == {m \in M \ {a} : Pending(j[m])}
             j1 == TerminateAll(j, D, "superseded")
  <2>1. PICK r \in MergedRows(j, a, M, chs) : new = [j1 EXCEPT ![a] = r]
    BY <2>0
  <2>2. a \in M /\ a \in Keys
    BY <1>2, AuthoritiesAreMatches
  <2>3. /\ \A m \in Keys \ D : j1[m] = j[m]
        /\ \A m \in D : j1[m] = Terminate(j[m], "superseded")
    BY <1>2 DEF TerminateAll
  <2>4. \A m \in D : ~Pending(j1[m])
    <3> SUFFICES ASSUME NEW m \in D PROVE ~Pending(j1[m])
      OBVIOUS
    <3>1. j[m] \in Rows
      BY <1>1, <1>2
    <3> QED BY <2>3, <3>1 DEF Terminate, Pending, Rows
  <2>5. j1 = [m \in Keys |-> IF m \in D THEN Terminate(j[m], "superseded") ELSE j[m]]
    BY DEF TerminateAll
  <2>6. new[a] = r /\ \A m \in Keys \ {a} : new[m] = j1[m]
    <3> HIDE DEF D
    <3> QED BY <2>1, <2>2, <2>5
  <2>7. a \in N
    BY <1>2, <1>4, <2>2 DEF Keeps
  <2>8. /\ \A c \in DeliveredChannels(j, M) : r.ch[c] = "delivered"
        /\ \A c \in chs \cup {d \in Channels : \E m \in M : j[m].ch[d] = "pending"} :
              r.ch[c] \in {"pending", "delivered"}
    <3>1. M \in SUBSET Keys /\ r \in MergedRows(j, a, M, chs)
      BY <1>2, <2>1
    <3>2. chs \subseteq Channels /\ DeliveredChannels(j, M) \subseteq Channels
      BY DEF DeliveredChannels, Requests
    <3> HIDE DEF M
    <3>3. \A c \in Channels :
             /\ c \in DeliveredChannels(j, M) => r.ch[c] = "delivered"
             /\ c \in chs \/ (\E m \in M : j[m].ch[c] = "pending") =>
                   r.ch[c] \in {"pending", "delivered"}
      BY <2>2, <3>1, MergedRowChannels
    <3> QED BY <3>2, <3>3
  <2>9. \A m \in Keys \ {a} : Pending(new[m]) => Pending(j[m]) /\ m \notin D
    BY <2>3, <2>4, <2>6
  <2>10. W \subseteq {a}
    <3> SUFFICES ASSUME NEW m \in W, m # a PROVE FALSE
      OBVIOUS
    <3>1. m \in Keys /\ Equivalent(m, k) /\ Pending(new[m])
      BY <1>2
    <3>2. Pending(j[m]) /\ m \notin D
      BY <2>9, <3>1
    <3> QED BY <1>1, <1>2, <3>1, <3>2, StatusCases
  <2>11. \A m \in Keys : Pending(new[m]) => Pending(j[m]) \/ Equivalent(m, k)
    BY <1>2, <2>2, <2>9
  <2> HIDE DEF W, M, N, D, j1
  <2> QED BY <2>6, <2>7, <2>8, <2>10, <2>11
<1> QED BY <1>6, <1>7, <1>8

(* The outcome for the event is the same seen from any document with the same
   rows of it. *)
LEMMA OutcomeFromSameEvent ==
    ASSUME NEW j, NEW j2, NEW new, NEW k, NEW chs, SameEvent(j, j2, k),
           Outcome(j2, new, k, chs)
    PROVE  Outcome(j, new, k, chs)
<1> DEFINE M == Matches(j, k)
<1>1. Matches(j2, k) = M
  BY DEF SameEvent, Matches
<1>2. \A m \in M : j2[m] = j[m]
  BY DEF SameEvent, Matches
<1> HIDE DEF M
<1>3. DeliveredChannels(j2, M) = DeliveredChannels(j, M)
  BY <1>2 DEF DeliveredChannels
<1>4. {c \in Channels : \E m \in M : j2[m].ch[c] = "pending"}
        = {c \in Channels : \E m \in M : j[m].ch[c] = "pending"}
  BY <1>2
<1> QED BY <1>1, <1>3, <1>4, Zenon DEF Outcome, M

LEMMA DocKeepsOneAuthority == Doc(journal) => RecoveryKeepsOneAuthority
<1> SUFFICES ASSUME Doc(journal), NEW k \in ModernResets, NEW chs \in Requests,
                    NEW superseded \in Superseded(k.window, k.owner),
                    NEW new \in ExpireObservedOwner(journal, k.window, k.owner,
                                                   superseded, {k}, TRUE, chs)
             PROVE  RecoveryOutcome(new, k, chs) /\ CycleClosed(new, k)
  BY DEF RecoveryKeepsOneAuthority
<1> DEFINE j1 == CloseObservedCycle(journal, k.window, k.owner, {k})
           s  == CHOOSE x \in superseded : TRUE
           j2 == IF superseded \subseteq {k} THEN j1
                 ELSE SuppressReset(j1, s, "local_observed")
<1>1. Doc(j1) /\ SameEvent(journal, j1, k) /\ Elsewhere(j1, k)
  BY CloseObservedCycleDoc, CloseSparesTheEvent
<1>2. Doc(j2) /\ SameEvent(j1, j2, k) /\ \A m \in Keys : Pending(j2[m]) => Pending(j1[m])
  <2>1. CASE superseded \subseteq {k}
    BY <1>1, <2>1 DEF SameEvent
  <2>2. CASE ~(superseded \subseteq {k})
    <3>1. PICK x \in {m \in ModernResets : m.window = k.window /\ m.owner = k.owner} :
             superseded = {x}
      BY <2>2 DEF Superseded
    <3>2. s = x
      BY <3>1
    <3>3. s \in ModernResets /\ s # k /\ s.window = k.window /\ s.owner = k.owner
      BY <2>2, <3>1, <3>2
    <3>4. "local_observed" \in TerminationReasons
      BY DEF TerminationReasons
    <3> HIDE DEF j1, s
    <3>5. Doc(SuppressReset(j1, s, "local_observed"))
      BY <1>1, <3>3, <3>4, SuppressResetDoc
    <3>6. /\ SameEvent(j1, SuppressReset(j1, s, "local_observed"), k)
          /\ \A m \in Keys : Pending(SuppressReset(j1, s, "local_observed")[m])
                               => Pending(j1[m])
      BY <1>1, <3>3, <3>4, SuppressSparesTheEvent
    <3> QED BY <2>2, <3>5, <3>6
  <2> QED BY <2>1, <2>2
<1>3. new \in RegisterOrReuse(j2, k, chs)
  BY DEF ExpireObservedOwner
<1> HIDE DEF j1, j2
<1>4. /\ Outcome(j2, new, k, chs)
      /\ \A m \in Keys : Pending(new[m]) => Pending(j2[m]) \/ Equivalent(m, k)
  BY <1>2, <1>3, RegisterOrReuseOutcome
<1>5. SameEvent(journal, j2, k)
  BY <1>1, <1>2 DEF SameEvent
<1>6. RecoveryOutcome(new, k, chs)
  <2>1. Outcome(journal, new, k, chs)
    BY <1>4, <1>5, OutcomeFromSameEvent
  <2> QED BY <2>1, Zenon DEF Outcome, RecoveryOutcome
<1>7. CycleClosed(new, k)
  BY <1>1, <1>2, <1>4 DEF Elsewhere, CycleClosed
<1> QED BY <1>6, <1>7

(* Recovering an observed reset leaves at most one row of its event to send,
   in which every channel asked for is delivered or waits, forgets no delivery,
   and leaves nothing else of the owner waiting in the window. *)
THEOREM RecoveriesKeepOneAuthority == Spec => []RecoveryKeepsOneAuthority
BY DocIsInvariant, DocKeepsOneAuthority, PTL
=============================================================================
