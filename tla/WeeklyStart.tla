---------------------------- MODULE WeeklyStart ----------------------------
(***************************************************************************)
(* The hook that starts a weekly window after a reset                       *)
(* (weekly_window_start.py).  The monitor runs it again when it fails; it    *)
(* may be killed at any time.  A receipt per owner and occurrence charges    *)
(* each request before it is sent and keeps the time of the first.           *)
(*                                                                         *)
(* now is the clock in seconds, both wall and monotonic.                    *)
(***************************************************************************)
EXTENDS WeeklyReset, Sequences, FiniteSets

CONSTANTS
    Occurrences,        \* resets the hook is run for
    MaxAttempts,        \* WEEKLY_START_MAX_ATTEMPTS
    Budget,             \* WEEKLY_START_RETRY_WINDOW_SECONDS
    Wait,               \* WEEKLY_START_WAIT_SECONDS
    Week,               \* seven days
    Deadlines,          \* weekly deadlines the service may report
    StatusTimes,        \* how long a status may take, its cleanup included
    Pauses,             \* how long the monitor waits between two runs
    MaxRuns             \* bound

StatusReserve  == 15
RequestReserve == 25
SleepReserve   == 21
RequestLimit   == 120
KillTime       == 2     \* run_bounded waits as long for a killed process

WeeklyStartAssumption ==
    /\ MaxAttempts \in 1..10 /\ Budget \in 1..1795 /\ Wait \in 0..1800
    /\ Week \in Nat /\ MaxRuns \in Nat
    /\ StatusTimes \subseteq 0..StatusReserve /\ Pauses \subseteq Nat /\ Deadlines \subseteq Nat

VARIABLES
    now,
    receipts,       \* per owner and occurrence: attempts charged, first start
    run,            \* the run under way, or how the last one ended
    runs,
    launched        \* history: requests sent, per owner and occurrence

vars == <<now, receipts, run, runs, launched>>

Cycles    == Owners \X Occurrences
NoReceipt == [attempts |-> 0, started_at |-> 0]
(* seen: the statuses of this run *)
NoRun == [stage |-> "idle", occurrence |-> 0, began |-> 0, deadline |-> 0, owner |-> Unknown,
          chain |-> NoChain, seen |-> <<>>, result |-> 1]

Lesser(a, b)  == IF a < b THEN a ELSE b
Greater(a, b) == IF a > b THEN a ELSE b
cycle     == <<run.owner, run.occurrence>>
remaining == run.deadline - now
Ended(r, result) == [r EXCEPT !.stage = "idle", !.result = result]

Init ==
    /\ now = 1 /\ receipts = [c \in Cycles |-> NoReceipt]
    /\ run = NoRun /\ runs = 0 /\ launched = [c \in Cycles |-> 0]

run_hook ==
    /\ run.stage = "idle" /\ runs < MaxRuns
    /\ \E pause \in Pauses, o \in Occurrences :
           /\ now' = now + pause
           /\ run' = [NoRun EXCEPT !.stage = "status", !.occurrence = o,
                                   !.began = now + pause, !.deadline = now + pause + Budget]
    /\ runs' = runs + 1
    /\ UNCHANGED <<receipts, launched>>

-----------------------------------------------------------------------------
(* status: no time is left for it, it fails, or it answers.                *)

StatusTooLate ==
    /\ run.stage = "status" /\ remaining < StatusReserve
    /\ run' = Ended(run, 1)
    /\ UNCHANGED <<now, receipts, runs, launched>>

(* What is incoherent, stale or of no owner fails as well. *)
StatusFails ==
    /\ run.stage = "status" /\ remaining >= StatusReserve
    /\ \E t \in StatusTimes : now' = now + t
    /\ run' = Ended(run, 1)
    /\ UNCHANGED <<receipts, runs, launched>>

Statuses(at) ==
    {[epoch |-> at, owner |-> o, pct |-> [w \in {"weekly"} |-> p], reset |-> [w \in {"weekly"} |-> d]] :
        o \in Owners, p \in {99, 100}, d \in {d \in Deadlines : at < d /\ d <= at + Week}}

(* Faulty: a deadline that has just advanced counts. *)
ActiveAtOnce(s, seen) == s.pct["weekly"] < 100 \/ seen.confirmed # 0 \/ seen.chain.candidate

(* Consumption, or an advanced deadline that was seen again.               *)
Active(s, seen) == s.pct["weekly"] < 100 \/ seen.confirmed # 0

(* Faulty: each run has the whole budget. *)
BudgetOfRun(deadline, receipt, at) == deadline

(* After its first status a run has what its cycle has left.               *)
BudgetLeft(deadline, receipt, at) ==
    IF receipt = NoReceipt THEN Lesser(deadline, at + Budget)
    ELSE Lesser(deadline, at + Greater(0, receipt.started_at + Budget - at))

StatusAnswers ==
    /\ run.stage = "status" /\ remaining >= StatusReserve
    /\ \E t \in StatusTimes : \E s \in Statuses(now + t) :
           LET seen  == observe_full_weekly_reset(run.chain, s)
               first == run.owner = Unknown
               next  == [run EXCEPT !.owner = s.owner, !.chain = seen.chain, !.seen = Append(@, s)]
           IN /\ now' = now + t
              /\ run' = IF ~first /\ s.owner # run.owner THEN Ended(run, 1)
                        ELSE IF Active(s, seen) THEN Ended(next, 0)
                        ELSE [next EXCEPT
                                 !.stage = "charge",
                                 !.deadline =
                                     IF first THEN BudgetLeft(@, receipts[<<s.owner, run.occurrence>>], now + t)
                                     ELSE @]
    /\ UNCHANGED <<receipts, runs, launched>>

-----------------------------------------------------------------------------
(* Requests. *)

MayAsk == receipts[cycle].attempts < MaxAttempts /\ remaining > RequestReserve

Exhausted ==
    /\ run.stage = "charge" /\ ~MayAsk
    /\ run' = Ended(run, 1)
    /\ UNCHANGED <<now, receipts, runs, launched>>

(* Faulty: the request is charged when it has come back. *)
ChargeLater ==
    /\ run.stage = "charge" /\ MayAsk
    /\ run' = [run EXCEPT !.stage = "launch"]
    /\ UNCHANGED <<now, receipts, runs, launched>>

(* The receipt is on disk before the request is sent. *)
Charge ==
    /\ run.stage = "charge" /\ MayAsk
    /\ receipts' = [receipts EXCEPT ![cycle] =
           [attempts |-> @.attempts + 1, started_at |-> IF @ = NoReceipt THEN now ELSE @.started_at]]
    /\ run' = [run EXCEPT !.stage = "launch"]
    /\ UNCHANGED <<now, runs, launched>>

Launch ==
    /\ run.stage = "launch"
    /\ launched' = [launched EXCEPT ![cycle] = @ + 1]
    /\ run' = [run EXCEPT !.stage = "asking"]
    /\ UNCHANGED <<now, receipts, runs>>

Timeout == Lesser(RequestLimit, remaining - RequestReserve)

Sleep(left) == Greater(0, Lesser(Wait, left - SleepReserve))

(* The request ends, by itself or killed; then the hook waits.             *)
Asked ==
    /\ run.stage = "asking"
    /\ \E t \in {0, Timeout, Timeout + KillTime} : now' = now + t + Sleep(remaining - t)
    /\ run' = [run EXCEPT !.stage = "status"]
    /\ UNCHANGED <<receipts, runs, launched>>

(* It cannot be started. *)
NotStarted ==
    /\ run.stage = "launch"
    /\ run' = Ended(run, 1)
    /\ UNCHANGED <<now, receipts, runs, launched>>

(* The hook is stopped, by a signal or by the monitor's own timeout.       *)
Dies ==
    /\ run.stage # "idle"
    /\ run' = Ended(run, 1)
    /\ UNCHANGED <<now, receipts, runs, launched>>

Next ==
    \/ run_hook
    \/ StatusTooLate \/ StatusFails \/ StatusAnswers
    \/ Exhausted \/ Charge \/ Launch \/ Asked \/ NotStarted \/ Dies

Spec == Init /\ [][Next]_vars

-----------------------------------------------------------------------------
TypeOK ==
    /\ \A c \in Cycles : receipts[c].attempts \in 0..MaxAttempts /\ receipts[c].started_at <= now
    /\ run.stage \in {"idle", "status", "charge", "launch", "asking"}
    /\ run.stage \in {"charge", "launch", "asking"} => run.owner \in Owners
    /\ run.deadline <= run.began + Budget

(* However often the hook is run again or killed, no request is sent that   *)
(* is not charged: a cycle gets MaxAttempts requests and no more.          *)
EveryRequestIsCharged ==
    \A c \in Cycles : launched[c] <= receipts[c].attempts /\ launched[c] <= MaxAttempts

(* All requests of a cycle have ended when its budget has, counted from the *)
(* first, whatever run sent them.                                          *)
InBudget ==
    run.stage = "asking" /\ run'.stage = "status" =>
        now' <= receipts[cycle].started_at + Budget

RequestsEndInBudget == [][InBudget]_vars

(* After a request, however long it took, there is time left to look what   *)
(* it did, and that look ends in the budget of the run too.                *)
LookAfterRequest ==
    /\ run.stage = "status" /\ run.owner # Unknown => remaining >= StatusReserve
    /\ run.stage # "idle" => now <= run.began + Budget

(* The hook reports success on evidence only: its last status shows that    *)
(* quota was consumed, or the two last ones of the same owner, both full,   *)
(* show the same deadline and one before them an earlier one.              *)
SuccessIsProven ==
    run.stage = "idle" /\ run.result = 0 =>
        LET n == Len(run.seen)
            Reset(i) == run.seen[i].reset["weekly"]
        IN /\ \A i \in 1..n : run.seen[i].owner = run.owner
           /\ \/ run.seen[n].pct["weekly"] < 100
              \/ /\ n >= 3
                 /\ \A i \in {n - 2, n - 1} : run.seen[i].epoch <= run.seen[i + 1].epoch
                 /\ \E i, j \in 1..(n - 1) :
                        /\ i < j /\ Reset(j) >= Reset(i) + MinAdvance
                        /\ Distance(Reset(n), Reset(j)) <= ConfirmTolerance
=============================================================================
