------------------------- MODULE WeeklyStart_proofs -------------------------
(***************************************************************************)
(* What the hook of a weekly reset guarantees, for every setting of its    *)
(* budget and of its attempts, however long its calls take and however     *)
(* often it is killed and run again.                                       *)
(***************************************************************************)
EXTENDS WeeklyStart, TLAPS

Stages == {"idle", "status", "charge", "launch", "asking"}

Samples == [epoch : Nat, owner : Owners, pct : [{"weekly"} -> {99, 100}],
            reset : [{"weekly"} -> Nat]]
Chains  == [epoch : Nat, reset : Nat, owner : Owners \cup {Unknown}, candidate : BOOLEAN]
Hooks   == [stage : Stages, occurrence : Occurrences \cup {0}, began : Nat, deadline : Int,
            owner : Owners \cup {Unknown}, chain : Chains, seen : Seq(Samples), result : {0, 1}]

RunTyped ==
    /\ run \in Hooks
    /\ run.stage # "idle" => run.occurrence \in Occurrences
    /\ run.stage \in {"charge", "launch", "asking"} => run.owner \in Owners

Receipts == [attempts : 0..MaxAttempts, started_at : Nat]

Typed ==
    /\ now \in Nat
    /\ receipts \in [Cycles -> Receipts] /\ launched \in [Cycles -> Nat]
    /\ RunTyped

(* The request that is charged and not yet sent is one that may be sent. *)
Charged ==
    /\ \A c \in Cycles : launched[c] <= receipts[c].attempts
    /\ run.stage = "launch" => launched[cycle] < receipts[cycle].attempts

(* The time a run has: to ask there is the request's reserve, to look after
   a request the status's. *)
Timed ==
    /\ \A c \in Cycles : receipts[c].started_at <= now
    /\ run.deadline <= run.began + Budget
    /\ run.stage # "idle" => now <= run.began + Budget
    /\ run.stage \in {"launch", "asking"} => remaining > RequestReserve
    /\ run.stage = "status" /\ run.owner # Unknown => remaining >= StatusReserve

(* The deadline of a run against the budget of its cycle, which its first
   request opens. *)
Budgeted ==
    /\ run.stage = "charge" =>
           IF receipts[cycle] = NoReceipt THEN run.deadline <= now + Budget
           ELSE run.deadline <= now \/ run.deadline <= receipts[cycle].started_at + Budget
    /\ \/ run.stage \in {"launch", "asking"}
       \/ run.stage = "status" /\ run.owner # Unknown
       => run.deadline <= receipts[cycle].started_at + Budget /\ receipts[cycle] # NoReceipt

Inv == Typed /\ Charged /\ Timed /\ Budgeted

-----------------------------------------------------------------------------
LEMMA Reserves ==
    /\ StatusReserve = 15 /\ RequestReserve = 25 /\ SleepReserve = 21
    /\ RequestLimit = 120 /\ KillTime = 2
BY DEF StatusReserve, RequestReserve, SleepReserve, RequestLimit, KillTime

LEMMA LesserGreater ==
    ASSUME NEW a \in Int, NEW b \in Int
    PROVE  /\ Lesser(a, b) \in Int /\ Lesser(a, b) <= a /\ Lesser(a, b) <= b
           /\ Greater(a, b) \in Int /\ Greater(a, b) >= a /\ Greater(a, b) >= b
           /\ Lesser(a, b) \in {a, b} /\ Greater(a, b) \in {a, b}
BY DEF Lesser, Greater

(* Whatever a request takes, killed or not, the reserve for a status is left. *)
LEMMA AskedInTime ==
    ASSUME WeeklyStartAssumption, now \in Nat, run.deadline \in Int, remaining > RequestReserve,
           NEW t \in {0, Timeout, Timeout + KillTime}
    PROVE  /\ now + t + Sleep(remaining - t) \in Nat
           /\ now <= now + t + Sleep(remaining - t)
           /\ run.deadline - (now + t + Sleep(remaining - t)) >= StatusReserve
<1>1. remaining \in Int /\ Wait \in Nat
  BY DEF remaining, WeeklyStartAssumption
<1>2. Timeout \in Nat /\ Timeout <= remaining - 25
  BY <1>1, Reserves DEF Timeout, Lesser
<1>3. t \in Nat /\ remaining - t >= 23
  BY <1>1, <1>2, Reserves
<1>4. Sleep(remaining - t) \in Nat /\ Sleep(remaining - t) <= remaining - t - 21
  <2>1. Lesser(Wait, remaining - t - 21) \in Nat /\ Lesser(Wait, remaining - t - 21) <= remaining - t - 21
    BY <1>1, <1>3 DEF Lesser
  <2> QED BY <2>1, Reserves DEF Sleep, Greater
<1>5. remaining = run.deadline - now
  BY DEF remaining
<1> HIDE DEF remaining
<1> QED BY <1>1, <1>3, <1>4, <1>5, Reserves

LEMMA Started ==
    ASSUME WeeklyStartAssumption
    PROVE  Init => Inv
<1> SUFFICES ASSUME Init PROVE Inv
  OBVIOUS
<1>1. run = NoRun /\ now = 1 /\ receipts = [c \in Cycles |-> NoReceipt] /\ launched = [c \in Cycles |-> 0]
  BY DEF Init
<1>2. MaxAttempts \in Nat /\ Budget \in Nat
  BY DEF WeeklyStartAssumption
<1>3. Typed
  BY <1>1, <1>2 DEF Typed, RunTyped, Hooks, Chains, NoRun, NoChain, NoReceipt, Receipts, Stages
<1> QED BY <1>1, <1>2, <1>3 DEF Inv, Charged, Timed, Budgeted, NoRun, NoReceipt


-----------------------------------------------------------------------------
LEMMA CycleIsOne ==
    ASSUME Typed, run.stage \in {"charge", "launch", "asking"}
    PROVE  /\ cycle \in Cycles
           /\ receipts[cycle].attempts \in 0..MaxAttempts /\ receipts[cycle].started_at \in Nat
           /\ launched[cycle] \in Nat
BY DEF Typed, RunTyped, cycle, Cycles, Receipts

LEMMA UnderWay ==
    ASSUME WeeklyStartAssumption, Inv, run.stage \in {"charge", "launch", "asking"}
    PROVE  /\ now \in Nat /\ MaxAttempts \in Nat /\ Budget \in Nat
           /\ run \in Hooks /\ run.occurrence \in Occurrences
           /\ run.owner \in Owners /\ run.owner # Unknown
           /\ run.deadline \in Int /\ run.began \in Nat
           /\ receipts \in [Cycles -> Receipts]
<1>1. now \in Nat /\ run \in Hooks /\ run.owner \in Owners /\ run.occurrence \in Occurrences
      /\ receipts \in [Cycles -> Receipts]
  BY DEF Inv, Typed, RunTyped
<1>2. run.deadline \in Int /\ run.began \in Nat
  BY <1>1 DEF Hooks
<1>3. MaxAttempts \in Nat /\ Budget \in Nat
  BY DEF WeeklyStartAssumption
<1>4. run.owner # Unknown
  BY <1>1, WeeklyResetAssumption
<1> QED BY <1>1, <1>2, <1>3, <1>4

LEMMA EndedRun ==
    ASSUME NEW r \in Hooks, NEW result \in {0, 1}
    PROVE  Ended(r, result) \in Hooks /\ Ended(r, result).stage = "idle"
           /\ Ended(r, result).began = r.began /\ Ended(r, result).deadline = r.deadline
           /\ Ended(r, result).seen = r.seen /\ Ended(r, result).owner = r.owner
           /\ Ended(r, result).result = result
BY DEF Ended, Hooks, Stages

(* A run that ends leaves the receipts as they are. *)
LEMMA EndKept ==
    ASSUME WeeklyStartAssumption, Inv, UNCHANGED <<receipts, launched>>,
           run' = Ended(run, 1), now' \in Nat, now <= now'
    PROVE  Inv'
<1>1. run' \in Hooks /\ run'.stage = "idle" /\ run'.began = run.began /\ run'.deadline = run.deadline
  BY EndedRun DEF Inv, Typed, RunTyped
<1>2. Typed'
  BY <1>1 DEF Inv, Typed, RunTyped, Receipts
<1>3. Timed'
  <2>1. \A c \in Cycles : receipts[c].started_at \in Nat /\ receipts[c].started_at <= now
    BY DEF Inv, Typed, Timed, Receipts
  <2>2. \A c \in Cycles : receipts'[c].started_at <= now'
    BY <2>1 DEF Inv, Typed
  <2> QED BY <1>1, <2>2 DEF Inv, Timed
<1> QED BY <1>1, <1>2, <1>3 DEF Inv, Charged, Budgeted

LEMMA RunHookKept ==
    ASSUME WeeklyStartAssumption, Inv, run_hook
    PROVE  Inv'
<1>1. PICK pause \in Pauses, o \in Occurrences :
          /\ now' = now + pause
          /\ run' = [NoRun EXCEPT !.stage = "status", !.occurrence = o,
                                  !.began = now + pause, !.deadline = now + pause + Budget]
  BY DEF run_hook
<1>a. UNCHANGED <<receipts, launched>>
  BY DEF run_hook
<1>b. now \in Nat /\ pause \in Nat /\ Budget \in Nat
  BY DEF WeeklyStartAssumption, Inv, Typed
<1>2. now' \in Nat /\ now <= now' /\ now' = now + pause
  BY <1>1, <1>b
<1>3. /\ run' \in Hooks /\ run'.stage = "status" /\ run'.occurrence \in Occurrences
      /\ run'.owner = Unknown /\ run'.began = now' /\ run'.deadline = now' + Budget
  <2>1. run' = [stage |-> "status", occurrence |-> o, began |-> now', deadline |-> now' + Budget,
                owner |-> Unknown, chain |-> NoChain, seen |-> <<>>, result |-> 1]
    BY <1>1, <1>2 DEF NoRun
  <2>2. NoChain \in Chains
    BY DEF NoChain, Chains
  <2> QED BY <1>2, <1>b, <2>1, <2>2 DEF Hooks, Stages
<1>4. Typed'
  BY <1>a, <1>2, <1>3 DEF Inv, Typed, RunTyped, Receipts
<1>5. Timed'
  <2>1. \A c \in Cycles : receipts[c].started_at \in Nat /\ receipts[c].started_at <= now
    BY DEF Inv, Typed, Timed, Receipts
  <2>2. \A c \in Cycles : receipts'[c].started_at <= now'
    BY <1>a, <1>b, <1>2, <2>1
  <2>3. run'.deadline <= run'.began + Budget /\ now' <= run'.began + Budget
    BY <1>2, <1>3, <1>b
  <2> QED BY <1>3, <2>2, <2>3 DEF Timed
<1> QED BY <1>a, <1>3, <1>4, <1>5 DEF Inv, Charged, Budgeted


LEMMA StatusRead ==
    ASSUME WeeklyStartAssumption, Inv, NEW t \in StatusTimes, NEW s \in Statuses(now + t)
    PROVE  /\ now + t \in Nat /\ now <= now + t /\ t <= StatusReserve
           /\ s \in Samples /\ s.epoch = now + t /\ s.owner # Unknown
<1>1. now \in Nat /\ t \in 0..15
  BY Reserves DEF WeeklyStartAssumption, Inv, Typed
<1>2. PICK o \in Owners, p \in {99, 100}, d \in Deadlines :
          s = [epoch |-> now + t, owner |-> o, pct |-> [w \in {"weekly"} |-> p],
               reset |-> [w \in {"weekly"} |-> d]]
  BY DEF Statuses
<1>3. d \in Nat
  BY DEF WeeklyStartAssumption
<1> QED BY <1>1, <1>2, <1>3, Reserves, WeeklyResetAssumption DEF Samples

(* The chain a sample leaves is the old one, none, or the sample itself. *)
LEMMA ChainAfter ==
    ASSUME NEW chain \in Chains, NEW s \in Samples
    PROVE  LET after == observe_full_weekly_reset(chain, s).chain
           IN /\ after \in Chains
              /\ \/ after = NoChain
                 \/ after = chain
                 \/ /\ after.epoch = s.epoch /\ after.reset = s.reset["weekly"]
                    /\ after.owner = s.owner
                    /\ after.candidate => Advances(Continued(chain, s), s)
<1> DEFINE before == Continued(chain, s)
           full   == [epoch |-> s.epoch, reset |-> s.reset["weekly"], owner |-> s.owner,
                      candidate |-> ~Confirms(before, s) /\ Advances(before, s)]
           after  == observe_full_weekly_reset(chain, s).chain
<1>1. after \in {NoChain, chain, full}
  BY DEF observe_full_weekly_reset
<1>2. full.epoch = s.epoch /\ full.reset = s.reset["weekly"] /\ full.owner = s.owner
      /\ (full.candidate => Advances(before, s))
  OBVIOUS
<1>3. NoChain \in Chains
  BY DEF NoChain, Chains
<1>4. full \in Chains
  <2>1. s.epoch \in Nat /\ s.reset["weekly"] \in Nat /\ s.owner \in Owners
    BY DEF Samples
  <2>2. (~Confirms(before, s) /\ Advances(before, s)) \in BOOLEAN
    BY DEF Confirms, Advances
  <2> QED BY <2>1, <2>2 DEF Chains
<1> HIDE DEF full, after, before
<1>5. after \in Chains /\ (after = NoChain \/ after = chain \/ after = full)
  BY <1>1, <1>3, <1>4
<1> QED BY <1>2, <1>5 DEF after, before


(* The run as it goes on from a status. *)
Shown(s) == [run EXCEPT !.owner = s.owner, !.chain = observe_full_weekly_reset(run.chain, s).chain,
                        !.seen = Append(@, s)]

GoesOn(s, at) ==
    [Shown(s) EXCEPT !.stage = "charge",
                     !.deadline = IF run.owner = Unknown
                                  THEN BudgetLeft(@, receipts[<<s.owner, run.occurrence>>], at)
                                  ELSE @]

LEMMA ShownRun ==
    ASSUME NEW s \in Samples, run \in Hooks
    PROVE  /\ Shown(s) \in Hooks
           /\ Shown(s).stage = run.stage /\ Shown(s).began = run.began
           /\ Shown(s).deadline = run.deadline /\ Shown(s).occurrence = run.occurrence
           /\ Shown(s).owner = s.owner /\ Shown(s).seen = Append(run.seen, s)
           /\ Shown(s).chain = observe_full_weekly_reset(run.chain, s).chain
<1>1. observe_full_weekly_reset(run.chain, s).chain \in Chains
  BY ChainAfter DEF Hooks
<1>2. s.owner \in Owners /\ run.seen \in Seq(Samples)
  BY DEF Samples, Hooks
<1>3. Append(run.seen, s) \in Seq(Samples)
  BY <1>2
<1> QED BY <1>1, <1>2, <1>3 DEF Shown, Hooks

LEMMA Answered ==
    ASSUME WeeklyStartAssumption, Inv, StatusAnswers
    PROVE  /\ run.stage = "status" /\ remaining >= StatusReserve
           /\ UNCHANGED <<receipts, launched>>
           /\ \E t \in StatusTimes : \E s \in Statuses(now + t) :
                  /\ now' = now + t
                  /\ \/ run' = Ended(run, 1)
                     \/ /\ run.owner = Unknown \/ s.owner = run.owner
                        /\ \/ /\ Active(s, observe_full_weekly_reset(run.chain, s))
                              /\ run' = Ended(Shown(s), 0)
                           \/ run' = GoesOn(s, now + t)
<1>1. run.stage = "status" /\ remaining >= StatusReserve /\ UNCHANGED <<receipts, launched>>
  BY DEF StatusAnswers
<1>2. PICK t \in StatusTimes : \E s \in Statuses(now + t) :
          LET seen  == observe_full_weekly_reset(run.chain, s)
              first == run.owner = Unknown
              next  == Shown(s)
          IN /\ now' = now + t
             /\ run' = IF ~first /\ s.owner # run.owner THEN Ended(run, 1)
                       ELSE IF Active(s, seen) THEN Ended(next, 0)
                       ELSE [next EXCEPT
                                !.stage = "charge",
                                !.deadline =
                                    IF first THEN BudgetLeft(@, receipts[<<s.owner, run.occurrence>>], now + t)
                                    ELSE @]
  BY DEF StatusAnswers, Shown
<1> QED BY <1>1, <1>2 DEF GoesOn


(* The first status opens the budget of the cycle, or finds what is left. *)
LEMMA BudgetFound ==
    ASSUME NEW at \in Nat, NEW deadline \in Int, NEW r \in Receipts, Budget \in Nat
    PROVE  /\ BudgetLeft(deadline, r, at) \in Int /\ BudgetLeft(deadline, r, at) <= deadline
           /\ IF r = NoReceipt THEN BudgetLeft(deadline, r, at) <= at + Budget
              ELSE \/ BudgetLeft(deadline, r, at) <= at
                   \/ BudgetLeft(deadline, r, at) <= r.started_at + Budget
<1>1. r.started_at \in Nat
  BY DEF Receipts
<1>2. /\ Greater(0, r.started_at + Budget - at) \in Int
      /\ Greater(0, r.started_at + Budget - at) \in {0, r.started_at + Budget - at}
  BY <1>1 DEF Greater
<1>3. \A b \in Int : /\ Lesser(deadline, b) \in Int /\ Lesser(deadline, b) <= deadline
                     /\ Lesser(deadline, b) <= b
  BY LesserGreater
<1> QED BY <1>1, <1>2, <1>3 DEF BudgetLeft

LEMMA StatusAnswersKept ==
    ASSUME WeeklyStartAssumption, Inv, StatusAnswers
    PROVE  Inv'
<1>1. /\ run.stage = "status" /\ remaining >= StatusReserve
      /\ UNCHANGED <<receipts, launched>>
  BY Answered
<1>2. PICK t \in StatusTimes : \E s \in Statuses(now + t) :
          /\ now' = now + t
          /\ \/ run' = Ended(run, 1)
             \/ /\ run.owner = Unknown \/ s.owner = run.owner
                /\ run' = Ended(Shown(s), 0) \/ run' = GoesOn(s, now + t)
  BY Answered
<1>3. PICK s \in Statuses(now + t) :
          /\ now' = now + t
          /\ \/ run' = Ended(run, 1)
             \/ /\ run.owner = Unknown \/ s.owner = run.owner
                /\ run' = Ended(Shown(s), 0) \/ run' = GoesOn(s, now + t)
  BY <1>2
<1>4. /\ now' \in Nat /\ now <= now' /\ t \in 0..15 /\ s \in Samples /\ s.owner # Unknown
      /\ run \in Hooks /\ run.occurrence \in Occurrences /\ now \in Nat
      /\ run.began \in Nat /\ run.deadline \in Int /\ Budget \in Nat /\ s.owner \in Owners
  <2>1. now \in Nat /\ run \in Hooks /\ run.occurrence \in Occurrences
    BY <1>1 DEF Inv, Typed, RunTyped
  <2>2. Budget \in Nat /\ t \in 0..15
    BY Reserves DEF WeeklyStartAssumption
  <2>3. now' \in Nat /\ now <= now' /\ s \in Samples /\ s.owner # Unknown
    BY <1>3, StatusRead
  <2>4. run.began \in Nat /\ run.deadline \in Int
    BY <2>1 DEF Hooks
  <2>5. s.owner \in Owners
    BY <2>3 DEF Samples
  <2> QED BY <2>1, <2>2, <2>3, <2>4, <2>5
<1>5. /\ Shown(s) \in Hooks /\ Shown(s).began = run.began /\ Shown(s).deadline = run.deadline
      /\ Shown(s).owner = s.owner /\ Shown(s).occurrence = run.occurrence
  BY <1>4, ShownRun
<1>6. \A c \in Cycles : receipts'[c].started_at <= now'
  <2>1. \A c \in Cycles : receipts[c].started_at \in Nat /\ receipts[c].started_at <= now
    BY DEF Inv, Typed, Timed, Receipts
  <2> QED BY <1>1, <1>4, <2>1
<1>7. CASE run' = Ended(run, 1)
  BY <1>1, <1>4, <1>7, EndKept
<1>8. CASE run' = Ended(Shown(s), 0)
  <2>1. run' \in Hooks /\ run'.stage = "idle" /\ run'.began = run.began /\ run'.deadline = run.deadline
    BY <1>5, <1>8, EndedRun
  <2>2. Typed'
    BY <1>1, <1>4, <2>1 DEF Inv, Typed, RunTyped, Receipts
  <2>3. Timed'
    BY <1>6, <2>1 DEF Inv, Timed
  <2> QED BY <1>1, <2>1, <2>2, <2>3 DEF Inv, Charged, Budgeted
<1>9. CASE (run.owner = Unknown \/ s.owner = run.owner) /\ run' = GoesOn(s, now + t)
  <2> DEFINE c == <<s.owner, run.occurrence>>
  <2>1. c \in Cycles /\ receipts[c] \in Receipts
    BY <1>4 DEF Cycles, Inv, Typed
  <2>2. /\ BudgetLeft(run.deadline, receipts[c], now + t) \in Int
        /\ BudgetLeft(run.deadline, receipts[c], now + t) <= run.deadline
        /\ IF receipts[c] = NoReceipt
           THEN BudgetLeft(run.deadline, receipts[c], now + t) <= now' + Budget
           ELSE \/ BudgetLeft(run.deadline, receipts[c], now + t) <= now'
                \/ BudgetLeft(run.deadline, receipts[c], now + t) <= receipts[c].started_at + Budget
    BY <1>3, <1>4, <2>1, BudgetFound
  <2>3. /\ run' \in Hooks /\ run'.stage = "charge" /\ run'.began = run.began
        /\ run'.owner = s.owner /\ run'.occurrence = run.occurrence
        /\ run'.deadline = IF run.owner = Unknown
                           THEN BudgetLeft(run.deadline, receipts[c], now + t) ELSE run.deadline
    <3>1. (IF run.owner = Unknown THEN BudgetLeft(Shown(s).deadline, receipts[c], now + t)
           ELSE Shown(s).deadline) \in Int
      BY <1>4, <1>5, <2>2
    <3> HIDE DEF c
    <3> QED BY <1>5, <1>9, <3>1 DEF GoesOn, Hooks, Stages, c
  <2>4. cycle' = c
    BY <2>3 DEF cycle
  <2>5. run.deadline <= run.began + Budget /\ now' <= run.began + Budget
    BY <1>1, <1>3, <1>4, Reserves DEF Inv, Timed, remaining
  <2>6. Typed'
    BY <1>1, <1>4, <2>3 DEF Inv, Typed, RunTyped, Receipts
  <2>7. Timed'
    <3>1. run'.deadline <= run'.began + Budget
      BY <1>4, <2>2, <2>3, <2>5
    <3> QED BY <1>6, <2>3, <2>5, <3>1 DEF Timed
  <2>8. Budgeted'
    <3>1. run.owner # Unknown =>
              receipts[c] # NoReceipt /\ run.deadline <= receipts[c].started_at + Budget
      BY <1>1, <1>9 DEF Inv, Budgeted, cycle
    <3> HIDE DEF c
    <3>2. IF receipts[c] = NoReceipt THEN run'.deadline <= now' + Budget
          ELSE run'.deadline <= now' \/ run'.deadline <= receipts[c].started_at + Budget
      BY <2>2, <2>3, <3>1
    <3> QED BY <1>1, <2>3, <2>4, <3>2 DEF Budgeted
  <2> QED BY <1>1, <2>3, <2>6, <2>7, <2>8 DEF Inv, Charged
<1> QED BY <1>3, <1>7, <1>8, <1>9


-----------------------------------------------------------------------------
LEMMA ChargeKept ==
    ASSUME WeeklyStartAssumption, Inv, Charge
    PROVE  Inv'
<1>1. /\ run.stage = "charge" /\ receipts[cycle].attempts < MaxAttempts
      /\ remaining > RequestReserve /\ UNCHANGED <<now, launched>>
      /\ run' = [run EXCEPT !.stage = "launch"]
      /\ receipts' = [receipts EXCEPT ![cycle] =
             [attempts |-> @.attempts + 1,
              started_at |-> IF @ = NoReceipt THEN now ELSE @.started_at]]
  BY DEF Charge, MayAsk
<1>2. /\ cycle \in Cycles /\ receipts[cycle].attempts \in Nat /\ launched[cycle] \in Nat
      /\ receipts[cycle].started_at \in Nat
  BY <1>1, CycleIsOne DEF Inv
<1>3. /\ now \in Nat /\ run \in Hooks /\ run.occurrence \in Occurrences /\ run.owner \in Owners
      /\ MaxAttempts \in Nat /\ Budget \in Nat
      /\ receipts \in [Cycles -> Receipts]
  BY <1>1, UnderWay
<1>4. /\ run' \in Hooks /\ run'.stage = "launch" /\ run'.began = run.began
      /\ run'.deadline = run.deadline /\ run'.owner = run.owner /\ run'.occurrence = run.occurrence
  BY <1>1, <1>3 DEF Hooks, Stages
<1>5. cycle' = cycle
  BY <1>4 DEF cycle
<1>6. receipts'[cycle] = [attempts |-> receipts[cycle].attempts + 1,
                          started_at |-> IF receipts[cycle] = NoReceipt THEN now
                                         ELSE receipts[cycle].started_at]
  BY <1>1, <1>2, <1>3
<1>7. \A c \in Cycles : c # cycle => receipts'[c] = receipts[c]
  BY <1>1, <1>2, <1>3
<1>8. receipts'[cycle] \in Receipts
  BY <1>1, <1>2, <1>3, <1>6 DEF Receipts
<1>9. receipts' \in [Cycles -> Receipts]
  BY <1>1, <1>3, <1>6, <1>8
<1>10. Typed'
  BY <1>1, <1>3, <1>4, <1>9 DEF Inv, Typed, RunTyped
<1>11. Charged'
  <2>1. launched[cycle] <= receipts[cycle].attempts
    BY <1>2 DEF Inv, Charged
  <2>2. launched[cycle] < receipts'[cycle].attempts
    BY <1>2, <1>6, <2>1
  <2>3. \A c \in Cycles : launched[c] <= receipts'[c].attempts
    BY <1>2, <1>6, <1>7, <2>2 DEF Inv, Charged
  <2> QED BY <1>1, <1>5, <2>2, <2>3 DEF Charged
<1>12. Timed'
  <2>1. receipts'[cycle].started_at <= now
    BY <1>2, <1>3, <1>6 DEF Inv, Timed
  <2>2. \A c \in Cycles : receipts'[c].started_at <= now
    BY <1>7, <2>1 DEF Inv, Timed
  <2> QED BY <1>1, <1>4, <2>2 DEF Inv, Timed, remaining
<1>13. Budgeted'
  <2>1. receipts'[cycle].attempts # 0
    BY <1>2, <1>6
  <2>2. receipts'[cycle] # NoReceipt
    BY <2>1 DEF NoReceipt
  <2>3. run.deadline > now
    BY <1>1, <1>3, Reserves DEF remaining, Hooks
  <2>4. run.deadline <= receipts'[cycle].started_at + Budget
    BY <1>1, <1>2, <1>3, <1>6, <2>3 DEF Inv, Budgeted, Hooks
  <2> QED BY <1>4, <1>5, <2>2, <2>4 DEF Budgeted
<1> QED BY <1>10, <1>11, <1>12, <1>13 DEF Inv

LEMMA LaunchKept ==
    ASSUME WeeklyStartAssumption, Inv, Launch
    PROVE  Inv'
<1>1. /\ run.stage = "launch" /\ UNCHANGED <<now, receipts>>
      /\ launched' = [launched EXCEPT ![cycle] = @ + 1]
      /\ run' = [run EXCEPT !.stage = "asking"]
  BY DEF Launch
<1>2. /\ cycle \in Cycles /\ receipts[cycle].attempts \in Nat /\ launched[cycle] \in Nat
  BY <1>1, CycleIsOne DEF Inv
<1>3. /\ run \in Hooks /\ run.occurrence \in Occurrences /\ run.owner \in Owners
      /\ launched \in [Cycles -> Nat]
  BY <1>1 DEF Inv, Typed, RunTyped
<1>4. /\ run' \in Hooks /\ run'.stage = "asking" /\ run'.began = run.began
      /\ run'.deadline = run.deadline /\ run'.owner = run.owner /\ run'.occurrence = run.occurrence
  BY <1>1, <1>3 DEF Hooks, Stages
<1>5. cycle' = cycle
  BY <1>4 DEF cycle
<1>6. launched' \in [Cycles -> Nat] /\ launched'[cycle] = launched[cycle] + 1
      /\ \A c \in Cycles : c # cycle => launched'[c] = launched[c]
  BY <1>1, <1>2, <1>3
<1>7. Typed'
  BY <1>1, <1>3, <1>4, <1>6 DEF Inv, Typed, RunTyped
<1>8. Charged'
  <2>1. launched'[cycle] <= receipts[cycle].attempts
    BY <1>1, <1>2, <1>6 DEF Inv, Charged
  <2>2. \A c \in Cycles : launched'[c] <= receipts[c].attempts
    BY <1>6, <2>1 DEF Inv, Charged
  <2> QED BY <1>1, <1>4, <2>2 DEF Charged
<1>9. Timed'
  BY <1>1, <1>4 DEF Inv, Timed, remaining
<1>10. Budgeted'
  BY <1>1, <1>4, <1>5 DEF Inv, Budgeted
<1> QED BY <1>7, <1>8, <1>9, <1>10 DEF Inv

LEMMA AskedKept ==
    ASSUME WeeklyStartAssumption, Inv, Asked
    PROVE  /\ Inv'
           /\ cycle' = cycle /\ receipts' = receipts
           /\ now' <= receipts[cycle].started_at + Budget
<1>1. run.stage = "asking" /\ run' = [run EXCEPT !.stage = "status"] /\ UNCHANGED <<receipts, launched>>
  BY DEF Asked
<1>2. PICK t \in {0, Timeout, Timeout + KillTime} : now' = now + t + Sleep(remaining - t)
  BY DEF Asked
<1>3. /\ run \in Hooks /\ run.occurrence \in Occurrences /\ run.owner \in Owners /\ now \in Nat
      /\ run.deadline \in Int /\ run.began \in Nat /\ Budget \in Nat /\ run.owner # Unknown
  BY <1>1, UnderWay
<1>4. now' \in Nat /\ now <= now' /\ run.deadline - now' >= 15
  <2>1. remaining > RequestReserve
    BY <1>1 DEF Inv, Timed
  <2> QED BY <1>2, <1>3, <2>1, AskedInTime, Reserves
<1>5. /\ run' \in Hooks /\ run'.stage = "status" /\ run'.began = run.began
      /\ run'.deadline = run.deadline /\ run'.owner = run.owner /\ run'.occurrence = run.occurrence
  BY <1>1, <1>3 DEF Hooks, Stages
<1>6. cycle' = cycle
  BY <1>5 DEF cycle
<1>7. Typed'
  BY <1>1, <1>3, <1>4, <1>5 DEF Inv, Typed, RunTyped, Receipts
<1>8. Timed'
  <2>1. \A c \in Cycles : receipts[c].started_at \in Nat /\ receipts[c].started_at <= now
    BY DEF Inv, Typed, Timed, Receipts
  <2>2. \A c \in Cycles : receipts'[c].started_at <= now'
    BY <1>1, <1>3, <1>4, <2>1
  <2>3. run.deadline <= run.began + Budget /\ now' <= run.began + Budget
    BY <1>3, <1>4 DEF Inv, Timed
  <2>4. remaining' >= StatusReserve
    BY <1>4, <1>5, Reserves DEF remaining
  <2> QED BY <1>5, <2>2, <2>3, <2>4 DEF Timed
<1>9. /\ run.deadline <= receipts[cycle].started_at + Budget /\ receipts[cycle] # NoReceipt
      /\ receipts[cycle].started_at \in Nat
  BY <1>1, CycleIsOne DEF Inv, Budgeted
<1>10. Budgeted'
  BY <1>1, <1>5, <1>6, <1>9 DEF Budgeted
<1>11. Charged'
  BY <1>1, <1>5 DEF Inv, Charged
<1>12. now' <= receipts[cycle].started_at + Budget
  BY <1>3, <1>4, <1>9
<1> QED BY <1>1, <1>6, <1>7, <1>8, <1>10, <1>11, <1>12 DEF Inv


LEMMA StatusFailsKept ==
    ASSUME WeeklyStartAssumption, Inv, StatusFails
    PROVE  Inv'
<1>1. PICK t \in StatusTimes : now' = now + t
  BY DEF StatusFails
<1>2. now \in Nat /\ t \in Nat
  BY Reserves DEF Inv, Typed, WeeklyStartAssumption
<1>3. run' = Ended(run, 1) /\ UNCHANGED <<receipts, launched>>
  BY DEF StatusFails
<1> QED BY <1>1, <1>2, <1>3, EndKept

LEMMA EndsHere ==
    ASSUME WeeklyStartAssumption, Inv, StatusTooLate \/ Exhausted \/ NotStarted \/ Dies
    PROVE  Inv'
<1>1. run' = Ended(run, 1) /\ UNCHANGED <<now, receipts, launched>>
  BY DEF StatusTooLate, Exhausted, NotStarted, Dies
<1>2. now \in Nat
  BY DEF Inv, Typed
<1> QED BY <1>1, <1>2, EndKept

LEMMA Kept ==
    ASSUME WeeklyStartAssumption, Inv, [Next]_vars
    PROVE  Inv'
<1>1. CASE run_hook
  BY <1>1, RunHookKept
<1>2. CASE StatusTooLate \/ Exhausted \/ NotStarted \/ Dies
  BY <1>2, EndsHere
<1>3. CASE StatusFails
  BY <1>3, StatusFailsKept
<1>4. CASE StatusAnswers
  BY <1>4, StatusAnswersKept
<1>5. CASE Charge
  BY <1>5, ChargeKept
<1>6. CASE Launch
  BY <1>6, LaunchKept
<1>7. CASE Asked
  BY <1>7, AskedKept
<1>8. CASE UNCHANGED vars
  BY <1>8 DEF vars, Inv, Typed, RunTyped, Charged, Timed, Budgeted, cycle, remaining
<1> QED BY <1>1, <1>2, <1>3, <1>4, <1>5, <1>6, <1>7, <1>8 DEF Next

(* What the runs check of the hook holds of every state of the invariant. *)
LEMMA InvariantHolds ==
    ASSUME WeeklyStartAssumption, Inv
    PROVE  TypeOK /\ EveryRequestIsCharged /\ LookAfterRequest
<1>1. \A c \in Cycles : receipts[c].attempts \in 0..MaxAttempts /\ receipts[c].started_at <= now
                        /\ launched[c] \in Nat /\ launched[c] <= receipts[c].attempts
  BY DEF Inv, Typed, Timed, Charged, Receipts
<1>2. TypeOK
  BY <1>1 DEF Inv, Typed, RunTyped, Hooks, Stages, Timed, TypeOK
<1>3. EveryRequestIsCharged
  <2>1. MaxAttempts \in Nat
    BY DEF WeeklyStartAssumption
  <2> QED BY <1>1, <2>1 DEF EveryRequestIsCharged
<1>4. LookAfterRequest
  BY DEF Inv, Timed, LookAfterRequest
<1> QED BY <1>2, <1>3, <1>4

-----------------------------------------------------------------------------
(* A run is in the stages the hook goes through, with an owner as soon as
   it may send a request, and its deadline never exceeds its budget. *)
THEOREM HookTypeCorrect ==
    ASSUME WeeklyStartAssumption
    PROVE  Spec => []TypeOK
<1>1. Init => Inv
  BY Started
<1>2. Inv /\ [Next]_vars => Inv'
  BY Kept
<1>3. Inv => TypeOK
  BY InvariantHolds
<1> QED BY <1>1, <1>2, <1>3, PTL DEF Spec

(* No request is sent that was not charged on the receipt of its cycle, and
   no cycle gets more than MaxAttempts, whatever runs are killed between
   the charge and the request and run again. *)
THEOREM HookChargesRequests ==
    ASSUME WeeklyStartAssumption
    PROVE  Spec => []EveryRequestIsCharged
<1>1. Init => Inv
  BY Started
<1>2. Inv /\ [Next]_vars => Inv'
  BY Kept
<1>3. Inv => EveryRequestIsCharged
  BY InvariantHolds
<1> QED BY <1>1, <1>2, <1>3, PTL DEF Spec

(* After a request, however long it took or was waited for, the time of a
   status is left, and a run never outlives its budget. *)
THEOREM HookLooksAfterwards ==
    ASSUME WeeklyStartAssumption
    PROVE  Spec => []LookAfterRequest
<1>1. Init => Inv
  BY Started
<1>2. Inv /\ [Next]_vars => Inv'
  BY Kept
<1>3. Inv => LookAfterRequest
  BY InvariantHolds
<1> QED BY <1>1, <1>2, <1>3, PTL DEF Spec

LEMMA AskedInBudget ==
    ASSUME WeeklyStartAssumption, Inv, [Next]_vars
    PROVE  InBudget
<1> SUFFICES ASSUME run.stage = "asking", run'.stage = "status"
             PROVE  now' <= receipts[cycle].started_at + Budget
  BY DEF InBudget
<1>1. Asked \/ Dies
  BY DEF Next, run_hook, StatusTooLate, StatusFails, StatusAnswers, Exhausted, Charge, Launch,
         NotStarted, vars
<1>2. ~Dies
  <2>1. run \in Hooks
    BY DEF Inv, Typed, RunTyped
  <2> QED BY <2>1, EndedRun DEF Dies
<1> QED BY <1>1, <1>2, AskedKept

(* All requests of a cycle, of whatever runs, have ended when the budget
   that its first request opened has. *)
THEOREM HookKeepsBudget ==
    ASSUME WeeklyStartAssumption
    PROVE  Spec => RequestsEndInBudget
<1>1. Init => Inv
  BY Started
<1>2. Inv /\ [Next]_vars => Inv'
  BY Kept
<1>3. Inv /\ [Next]_vars => [InBudget]_vars
  BY AskedInBudget
<1> QED BY <1>1, <1>2, <1>3, PTL DEF Spec, RequestsEndInBudget

-----------------------------------------------------------------------------
(* A candidate is a status that was seen, and one before it had an earlier
   deadline. *)
FromSeen(chain, seen) ==
    chain # NoChain =>
        \E j \in 1..Len(seen) :
            /\ chain.reset = seen[j].reset["weekly"]
            /\ chain.candidate =>
                   \E i \in 1..(j - 1) :
                       seen[j].reset["weekly"] >= seen[i].reset["weekly"] + MinAdvance

(* The statuses of a run are of one owner and in the order of their times. *)
SeenInOrder ==
    /\ run.owner = Unknown => run.seen = <<>>
    /\ \A i \in 1..Len(run.seen) : run.seen[i].owner = run.owner /\ run.seen[i].epoch <= now
    /\ \A i, j \in 1..Len(run.seen) : i <= j => run.seen[i].epoch <= run.seen[j].epoch

Evidence == SeenInOrder /\ FromSeen(run.chain, run.seen) /\ SuccessIsProven

LEMMA SeenTimes ==
    ASSUME NEW seen \in Seq(Samples)
    PROVE  \A i \in 1..Len(seen) : seen[i].epoch \in Nat
<1>1. \A i \in 1..Len(seen) : seen[i] \in Samples
  OBVIOUS
<1> QED BY <1>1 DEF Samples

LEMMA AppendFacts ==
    ASSUME NEW seen \in Seq(Samples), NEW s \in Samples
    PROVE  /\ Len(Append(seen, s)) = Len(seen) + 1 /\ Len(seen) \in Nat
           /\ \A i \in 1..Len(seen) : Append(seen, s)[i] = seen[i]
           /\ Append(seen, s)[Len(seen) + 1] = s
OBVIOUS

LEMMA SeenGoesOn ==
    ASSUME NEW chain \in Chains, NEW seen \in Seq(Samples), NEW s \in Samples,
           FromSeen(chain, seen)
    PROVE  FromSeen(observe_full_weekly_reset(chain, s).chain, Append(seen, s))
<1> DEFINE after == observe_full_weekly_reset(chain, s).chain
           more  == Append(seen, s)
           n     == Len(seen)
<1>1. /\ Len(more) = n + 1 /\ n \in Nat /\ more[n + 1] = s
      /\ \A i \in 1..n : more[i] = seen[i]
  BY AppendFacts
<1>2. \/ after = NoChain
      \/ after = chain
      \/ /\ after.reset = s.reset["weekly"]
         /\ after.candidate => Advances(Continued(chain, s), s)
  BY ChainAfter
<1> HIDE DEF after, more, n
<1>3. CASE after = NoChain
  BY <1>3 DEF FromSeen, after
<1>4. CASE after = chain /\ chain # NoChain
  <2>1. PICK j \in 1..n :
            /\ chain.reset = seen[j].reset["weekly"]
            /\ chain.candidate =>
                   \E i \in 1..(j - 1) :
                       seen[j].reset["weekly"] >= seen[i].reset["weekly"] + MinAdvance
    BY <1>4 DEF FromSeen, n
  <2>2. j \in 1..Len(more) /\ \A i \in 1..j : more[i] = seen[i]
    BY <1>1
  <2>3. after.candidate => \E i \in 1..(j - 1) :
                               more[j].reset["weekly"] >= more[i].reset["weekly"] + MinAdvance
    <3> SUFFICES ASSUME after.candidate
                 PROVE  \E i \in 1..(j - 1) :
                            more[j].reset["weekly"] >= more[i].reset["weekly"] + MinAdvance
      OBVIOUS
    <3>1. PICK i \in 1..(j - 1) : seen[j].reset["weekly"] >= seen[i].reset["weekly"] + MinAdvance
      BY <1>4, <2>1
    <3>2. more[i] = seen[i] /\ more[j] = seen[j]
      BY <1>1, <2>2
    <3> QED BY <3>1, <3>2
  <2>4. after.reset = more[j].reset["weekly"]
    BY <1>1, <1>4, <2>1
  <2> QED BY <2>2, <2>3, <2>4 DEF FromSeen, after, more
<1>5. CASE /\ after.reset = s.reset["weekly"]
           /\ after.candidate => Advances(Continued(chain, s), s)
  <2>1. n + 1 \in 1..Len(more) /\ after.reset = more[n + 1].reset["weekly"]
    BY <1>1, <1>5
  <2>2. ASSUME after.candidate
        PROVE  \E i \in 1..n : more[n + 1].reset["weekly"] >= more[i].reset["weekly"] + MinAdvance
    <3>1. chain # NoChain /\ s.reset["weekly"] >= chain.reset + MinAdvance
      BY <1>5, <2>2 DEF Advances, Continued
    <3>2. PICK i \in 1..n : chain.reset = seen[i].reset["weekly"]
      BY <3>1 DEF FromSeen, n
    <3> QED BY <1>1, <3>1, <3>2
  <2> DEFINE last == n + 1
  <2>3. last \in 1..Len(more) /\ after.reset = more[last].reset["weekly"] /\ 1..(last - 1) = 1..n
    BY <1>1, <2>1
  <2>4. after.candidate =>
            \E i \in 1..(last - 1) : more[last].reset["weekly"] >= more[i].reset["weekly"] + MinAdvance
    BY <2>2, <2>3
  <2> HIDE DEF last
  <2> QED BY <2>3, <2>4 DEF FromSeen, after, more
<1>6. CASE after = chain /\ chain = NoChain
  BY <1>6 DEF FromSeen, after
<1> QED BY <1>2, <1>3, <1>4, <1>5, <1>6


(* A step without a status shows nothing new, and reports no success. *)
LEMMA NothingShown ==
    ASSUME WeeklyStartAssumption, Inv, Evidence,
           run_hook \/ StatusTooLate \/ StatusFails \/ Exhausted \/ Charge \/ Launch \/ Asked
             \/ NotStarted \/ Dies
    PROVE  Evidence'
<1>1. run \in Hooks /\ now \in Nat /\ run.seen \in Seq(Samples)
  BY DEF Inv, Typed, RunTyped, Hooks
<1>2. now <= now' /\ now' \in Nat
  <2>1. CASE run_hook
    <3>1. PICK pause \in Pauses : now' = now + pause
      BY <2>1 DEF run_hook
    <3>2. pause \in Nat
      BY DEF WeeklyStartAssumption
    <3> QED BY <1>1, <3>1, <3>2
  <2>2. CASE StatusFails
    BY <1>1, <2>2, Reserves DEF StatusFails, WeeklyStartAssumption
  <2>3. CASE Asked
    <3>1. run.deadline \in Int /\ remaining > RequestReserve
      BY <1>1, <2>3 DEF Asked, Inv, Timed, Hooks
    <3> QED BY <1>1, <2>3, <3>1, AskedInTime DEF Asked
  <2> QED BY <1>1, <2>1, <2>2, <2>3 DEF StatusTooLate, Exhausted, Charge, Launch, NotStarted, Dies
<1>3. CASE run_hook
  <2>1. /\ run'.seen = <<>> /\ run'.chain = NoChain /\ run'.owner = Unknown
        /\ run'.stage = "status"
    BY <1>3 DEF run_hook, NoRun
  <2> QED BY <2>1 DEF Evidence, SeenInOrder, FromSeen, SuccessIsProven
<1>4. CASE StatusTooLate \/ StatusFails \/ Exhausted \/ Charge \/ Launch \/ Asked
             \/ NotStarted \/ Dies
  <2>1. \/ run' = Ended(run, 1)
        \/ run' = [run EXCEPT !.stage = "launch"]
        \/ run' = [run EXCEPT !.stage = "asking"]
        \/ run' = [run EXCEPT !.stage = "status"]
    BY <1>4 DEF StatusTooLate, StatusFails, Exhausted, Charge, Launch, Asked, NotStarted, Dies
  <2>2. /\ run'.seen = run.seen /\ run'.chain = run.chain /\ run'.owner = run.owner
        /\ run'.stage # "idle" \/ run'.result # 0
    <3>1. CASE run' = Ended(run, 1)
      BY <1>1, <3>1 DEF Ended, Hooks
    <3>2. CASE run' # Ended(run, 1)
      BY <1>1, <2>1, <3>2 DEF Hooks
    <3> QED BY <3>1, <3>2
  <2>3. SuccessIsProven'
    BY <2>2 DEF SuccessIsProven
  <2>4. \A i \in 1..Len(run.seen) : run.seen[i].epoch \in Nat
    BY <1>1, SeenTimes
  <2>5. SeenInOrder'
    BY <1>1, <1>2, <2>2, <2>4 DEF Evidence, SeenInOrder
  <2> QED BY <2>2, <2>3, <2>5 DEF Evidence, FromSeen
<1> QED BY <1>3, <1>4

LEMMA StatusShown ==
    ASSUME WeeklyStartAssumption, Inv, Evidence, StatusAnswers
    PROVE  Evidence'
<1>1. PICK t \in StatusTimes : \E s \in Statuses(now + t) :
          /\ now' = now + t
          /\ \/ run' = Ended(run, 1)
             \/ /\ run.owner = Unknown \/ s.owner = run.owner
                /\ \/ /\ Active(s, observe_full_weekly_reset(run.chain, s))
                      /\ run' = Ended(Shown(s), 0)
                   \/ run' = GoesOn(s, now + t)
  BY Answered
<1>2. PICK s \in Statuses(now + t) :
          /\ now' = now + t
          /\ \/ run' = Ended(run, 1)
             \/ /\ run.owner = Unknown \/ s.owner = run.owner
                /\ \/ /\ Active(s, observe_full_weekly_reset(run.chain, s))
                      /\ run' = Ended(Shown(s), 0)
                   \/ run' = GoesOn(s, now + t)
  BY <1>1
<1>3. /\ now' \in Nat /\ now <= now' /\ s \in Samples /\ s.epoch = now' /\ s.owner # Unknown
  BY <1>2, StatusRead
<1>4. /\ run \in Hooks /\ now \in Nat /\ run.seen \in Seq(Samples) /\ run.chain \in Chains
  BY DEF Inv, Typed, RunTyped, Hooks
<1>5. \A i \in 1..Len(run.seen) : run.seen[i].epoch \in Nat
  BY <1>4, SeenTimes
<1>6. CASE run' = Ended(run, 1)
  <2>1. /\ run'.seen = run.seen /\ run'.chain = run.chain /\ run'.owner = run.owner
        /\ run'.result = 1
    BY <1>4, <1>6 DEF Ended, Hooks
  <2>2. SeenInOrder'
    BY <1>3, <1>4, <1>5, <2>1 DEF Evidence, SeenInOrder
  <2> QED BY <2>1, <2>2 DEF Evidence, FromSeen, SuccessIsProven
<1>7. CASE (run.owner = Unknown \/ s.owner = run.owner) /\ run' # Ended(run, 1)
  <2> DEFINE n     == Len(run.seen)
             after == observe_full_weekly_reset(run.chain, s)
  <2>1. /\ run'.seen = Append(run.seen, s) /\ run'.owner = s.owner
        /\ run'.chain = after.chain
        /\ run'.stage = "charge" \/ Active(s, after)
    <3>1. /\ Shown(s) \in Hooks /\ Shown(s).owner = s.owner
          /\ Shown(s).seen = Append(run.seen, s) /\ Shown(s).chain = after.chain
      BY <1>3, <1>4, ShownRun
    <3> HIDE DEF after
    <3> QED BY <1>2, <1>7, <3>1 DEF GoesOn, Ended, Hooks, after
  <2>2. /\ n \in Nat /\ Len(run'.seen) = n + 1 /\ run'.seen[n + 1] = s
        /\ \A i \in 1..n : run'.seen[i] = run.seen[i]
    BY <1>3, <1>4, <2>1, AppendFacts
  <2>3. \A i \in 1..n : run.seen[i].owner = s.owner
    BY <1>7, <2>2 DEF Evidence, SeenInOrder
  <2> HIDE DEF n, after
  <2>4. /\ \A i \in 1..n : /\ run.seen[i].epoch \in Nat /\ run.seen[i].epoch <= now'
        /\ \A i, j \in 1..n : i <= j => run.seen[i].epoch <= run.seen[j].epoch
    BY <1>3, <1>4, <1>5 DEF Evidence, SeenInOrder, n
  <2>5. SeenInOrder'
    <3>1. \A i \in 1..(n + 1) : run'.seen[i].owner = s.owner /\ run'.seen[i].epoch <= now'
      BY <1>3, <2>2, <2>3, <2>4
    <3>2. \A i, j \in 1..(n + 1) : i <= j => run'.seen[i].epoch <= run'.seen[j].epoch
      <4>1. TAKE i, j \in 1..(n + 1)
      <4>2. CASE j = n + 1
        <5>1. run'.seen[j].epoch = now'
          BY <1>3, <2>2, <4>2
        <5> QED BY <3>1, <5>1
      <4>3. CASE j # n + 1 /\ i <= j
        <5>1. i \in 1..n /\ j \in 1..n
          BY <2>2, <4>3
        <5>2. run'.seen[i] = run.seen[i] /\ run'.seen[j] = run.seen[j]
          BY <2>2, <5>1
        <5> QED BY <2>4, <4>3, <5>1, <5>2
      <4> QED BY <4>2, <4>3
    <3> QED BY <1>3, <2>1, <2>2, <3>1, <3>2 DEF SeenInOrder
  <2>6. FromSeen(run'.chain, run'.seen)
    BY <1>3, <1>4, <2>1, SeenGoesOn DEF Evidence, after
  <2>7. SuccessIsProven'
    <3> SUFFICES ASSUME Active(s, after)
                 PROVE  \/ s.pct["weekly"] < 100
                        \/ /\ n + 1 >= 3
                           /\ \E i, j \in 1..n :
                                 /\ i < j
                                 /\ run'.seen[j].reset["weekly"] >= run'.seen[i].reset["weekly"] + MinAdvance
                                 /\ Distance(s.reset["weekly"], run'.seen[j].reset["weekly"]) <= ConfirmTolerance
      <4>1. (n + 1) - 2 \in Int /\ (n + 1) - 1 = n /\ (n + 1) - 2 = n - 1
        BY <2>2
      <4>2. \A i \in 1..(n + 1) : run'.seen[i].owner = run'.owner
        BY <2>2, <2>5 DEF SeenInOrder
      <4>3. n + 1 >= 3 => \A i \in {n - 1, n} : run'.seen[i].epoch <= run'.seen[i + 1].epoch
        <5>1. n + 1 >= 3 => \A i \in {n - 1, n} : i \in 1..(n + 1) /\ i + 1 \in 1..(n + 1) /\ i <= i + 1
          BY <2>2
        <5> QED BY <2>2, <2>5, <5>1 DEF SeenInOrder
      <4> QED BY <2>1, <2>2, <4>1, <4>2, <4>3 DEF SuccessIsProven
    <3>1. CASE s.pct["weekly"] < 100
      BY <3>1
    <3>2. CASE after.confirmed # 0
      <4>1. Confirms(Continued(run.chain, s), s)
        BY <3>2 DEF after, observe_full_weekly_reset
      <4>2. /\ run.chain # NoChain /\ run.chain.candidate
            /\ Distance(s.reset["weekly"], run.chain.reset) <= ConfirmTolerance
        BY <4>1 DEF Confirms, Continued, NoChain
      <4>3. PICK j \in 1..n :
                /\ run.chain.reset = run.seen[j].reset["weekly"]
                /\ \E i \in 1..(j - 1) :
                       run.seen[j].reset["weekly"] >= run.seen[i].reset["weekly"] + MinAdvance
        BY <4>2 DEF Evidence, FromSeen, n
      <4>4. PICK i \in 1..(j - 1) :
                run.seen[j].reset["weekly"] >= run.seen[i].reset["weekly"] + MinAdvance
        BY <4>3
      <4>5. i \in 1..n /\ i < j /\ n + 1 >= 3
        BY <2>2
      <4>6. run'.seen[i] = run.seen[i] /\ run'.seen[j] = run.seen[j]
        BY <2>2, <4>5
      <4> QED BY <4>2, <4>3, <4>4, <4>5, <4>6
    <3> QED BY <3>1, <3>2 DEF Active
  <2> QED BY <2>5, <2>6, <2>7 DEF Evidence
<1> QED BY <1>2, <1>6, <1>7

LEMMA NothingSeen == Init => Evidence
BY DEF Init, NoRun, Evidence, SeenInOrder, FromSeen, SuccessIsProven

LEMMA EvidenceKept ==
    ASSUME WeeklyStartAssumption, Inv, Evidence, [Next]_vars
    PROVE  Evidence'
<1>1. CASE UNCHANGED vars
  BY <1>1 DEF vars, Evidence, SeenInOrder, FromSeen, SuccessIsProven
<1> QED BY <1>1, NothingShown, StatusShown DEF Next

(* The hook reports that a window runs only on evidence: its last status
   shows consumption, or confirms a deadline that two earlier statuses of
   the same owner and run show to have advanced; a status repeated in the
   same second is no confirmation. *)
THEOREM HookSuccessIsProven ==
    ASSUME WeeklyStartAssumption
    PROVE  Spec => []SuccessIsProven
<1>1. Init => Inv /\ Evidence
  BY Started, NothingSeen
<1>2. Inv /\ Evidence /\ [Next]_vars => Inv' /\ Evidence'
  BY Kept, EvidenceKept
<1>3. Evidence => SuccessIsProven
  BY DEF Evidence
<1> QED BY <1>1, <1>2, <1>3, PTL DEF Spec
=============================================================================
