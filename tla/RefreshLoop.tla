---------------------------- MODULE RefreshLoop ----------------------------
(***************************************************************************)
(* The monitor loop (run_loop, run_once), the refresh requests of the      *)
(* dashboard and the checks that follow a reset.  Three processes share    *)
(* the lock and four files: the loop, the HTTP server, which waits for the *)
(* answer to one request at a time, and a monitor started by hand.         *)
(*                                                                         *)
(* The unit of time is the loop's own poll (5 s), which is also its        *)
(* longest sleep.  Every reported reset lies within the horizon of plan.   *)
(***************************************************************************)
EXTENDS Integers

CONSTANTS
    Windows,        \* "five_h", "weekly"
    Limits,         \* the limit groups a sample may be of
    Resets,         \* the reset times a sample may report
    Grace,          \* from a reset to its check (30 s)
    BusyWait,       \* until the next try after a busy lock (5 s)
    FailWait,       \* ... and after a failed collection (30 s)
    Timeout,        \* of a dashboard request (60 s)
    Interval,       \* between regular cycles
    ActiveInterval, \* between live cycles while a dashboard is visible
    MaxTime, MaxRequests, MaxManual, MaxCrashes    \* bounds

ASSUME RefreshAssumption ==
    /\ MaxTime \in Nat \ {0} /\ MaxRequests \in Nat
    /\ MaxManual \in Nat /\ MaxCrashes \in Nat
    /\ Resets \subseteq 1..MaxTime
    /\ Grace \in Nat /\ BusyWait \in Nat /\ FailWait \in Nat
    /\ Timeout \in Nat /\ Interval \in Nat \ {0} /\ ActiveInterval \in Nat

Times     == 0..MaxTime
Ids       == 0..MaxRequests      \* 0: none ("-")
NoLimit   == "none"
Snapshots == [limit : Limits \cup {NoLimit}, reset : [Windows -> Resets \cup {0}],
              sampled : Times]
Checks    == Windows \X Resets
Schedules == [limit : Limits \cup {NoLimit}, pending : SUBSET Checks, retry : Times,
              completed : [Windows -> Resets \cup {0}]]

VARIABLES
    clock,
    data,       \* data.json
    sched,      \* reset-refresh.json
    request,    \* dashboard-refresh.json
    result,     \* dashboard-refresh-result.json
    lock,       \* who holds the lock file
    held,       \* ... and since when
    loop,       \* the locals of run_loop
    manual,     \* how often the monitor has been started by hand
    http,       \* the request the HTTP server waits for
    issued,     \* the requests made so far
    asked,      \* history: when each of them was made
    crashes

vars == <<clock, data, sched, request, result, lock, held, loop, manual, http,
          issued, asked, crashes>>

NoData == [limit |-> NoLimit, reset |-> [w \in Windows |-> 0], sampled |-> 0]

FreshSchedule(limit) == [limit |-> limit, pending |-> {}, retry |-> 0,
                         completed |-> [w \in Windows |-> 0]]

(* An iteration begins: all its locals but these two are set anew. *)
Iteration(regular, last) ==
    [at |-> "plan", now |-> 0, id |-> 0, full |-> FALSE, quota |-> 1, cycle |-> 0,
     wake |-> 0, regular |-> regular, last |-> last]

(* A loop that begins: the first cycle is due at once. *)
Started(t) == Iteration(t, t)

NextIteration == Iteration(loop.regular, loop.last)

Sleeping(t) == [NextIteration EXCEPT !.at = "sleep", !.wake = t]

Init ==
    /\ clock = 1
    /\ data = NoData
    /\ sched = FreshSchedule(NoLimit)
    /\ request = [id |-> 0, expires |-> 0]
    /\ result = [id |-> 0, success |-> FALSE]
    /\ lock = "free" /\ held = 0
    /\ loop = Started(1)
    /\ manual = 0
    /\ http = 0 /\ issued = 0
    /\ asked = [i \in Ids |-> 0]
    /\ crashes = 0

files  == <<data, sched, request, result>>
locked == <<lock, held>>
asks   == <<http, issued, asked>>

(* What lies beyond the last moment modelled is as good as that moment. *)
Horizon(t) == IF t > MaxTime THEN MaxTime ELSE t

Tick == /\ clock < MaxTime
        /\ clock' = clock + 1
        /\ UNCHANGED <<files, locked, loop, manual, asks, crashes>>

-----------------------------------------------------------------------------
(* refresh.py: the schedule of the reset checks. *)

DueAt(check) == check[2] + Grace

(* Another limit group in data.json starts a new schedule. *)
ForLimit(s, d) == IF d.limit # NoLimit /\ s.limit # d.limit
                  THEN FreshSchedule(d.limit) ELSE s

Announced(d) == {c \in Checks : d.reset[c[1]] = c[2] /\ DueAt(c) > d.sampled}

(* Faulty: a new estimate replaces the check of a reset that has happened. *)
ReplacedAlways(s, d) == {c \in s.pending : \E a \in Announced(d) :
                             c[1] = a[1] /\ c # a}

(* A new estimate replaces the earlier ones that still lie ahead. *)
Replaced(s, d) == {c \in s.pending : \E a \in Announced(d) :
                      c[1] = a[1] /\ c # a /\ c[2] > clock}

New(s, d) == {c \in Announced(d) : c[2] > s.completed[c[1]]}

LatestOf(done, w) == CHOOSE r \in Resets : /\ <<w, r>> \in done
                                           /\ \A c \in done : c[1] = w => c[2] <= r

Latest(done, w) == LatestOf(done, w)

Completed(s, done) ==
    [s EXCEPT !.pending = @ \ done,
              !.completed = [w \in Windows |->
                 IF \E c \in done : c[1] = w /\ c[2] > s.completed[w]
                 THEN Latest(done, w) ELSE s.completed[w]]]

(* A sample taken since its time satisfies a check, whoever took it. *)
Planned(s, d) ==
    LET s1 == ForLimit(s, d)
        s2 == [s1 EXCEPT !.pending = (@ \ Replaced(s1, d)) \cup New(s1, d)]
    IN Completed(s2, {c \in s2.pending : d.sampled >= DueAt(c)})

(* delay = 0 *)
CheckIsDue(s) == s.retry <= clock /\ \E c \in s.pending : DueAt(c) <= clock

ValidRequest == request.expires > clock /\ result.id # request.id

Requested == IF ValidRequest THEN request.id ELSE 0

(* Faulty: the end of the cycle is compared instead of its start. *)
SatisfiedAtEnd(s) == {c \in s.pending : DueAt(c) <= clock}

(* The checks that a successful cycle of the loop satisfies. *)
Satisfied(s) == {c \in s.pending : DueAt(c) <= loop.now}

Finished(s, status) ==
    IF status = 0 THEN [Completed(s, Satisfied(s)) EXCEPT !.retry = 0]
    ELSE [s EXCEPT !.retry = Horizon(clock + (IF status = 75 THEN BusyWait
                                                             ELSE FailWait))]

(* Faulty: the request that is on file by now is answered. *)
AnsweredOnFile == request.id

Answered == loop.id

Acknowledged(status) ==
    IF loop.id # 0 /\ status # 75
    THEN [id |-> Answered, success |-> status = 0] ELSE result

-----------------------------------------------------------------------------
(* run_loop and run_once. *)

Regular == clock >= loop.regular

Live(s) == \/ Requested # 0
           \/ CheckIsDue(s)
           \/ Interval > ActiveInterval /\ clock - loop.last >= ActiveInterval

(* The heartbeat, a file the dashboards touch, may be recent or not. *)
MustRun(s) == Regular \/ Requested # 0 \/ CheckIsDue(s)

Plan ==
    /\ loop.at = "plan"
    /\ sched' = Planned(sched, data)
    /\ \/ /\ Regular \/ Live(sched')
          /\ loop' = [loop EXCEPT !.at = "lock", !.now = clock, !.id = Requested,
                                  !.full = Regular, !.last = clock]
       \/ /\ ~MustRun(sched')
          /\ loop' = Sleeping(Horizon(clock + 1))
    /\ UNCHANGED <<clock, data, request, result, locked, manual, asks, crashes>>

(* The next multiple of the interval; one that lies beyond the last moment
   does not come. *)
NextRegular(l) ==
    LET next == clock + Interval - (clock % Interval)
    IN IF ~l.full THEN l.regular
       ELSE IF next > MaxTime THEN MaxTime + 1 ELSE next

TakeLock ==
    /\ loop.at = "lock"
    /\ lock = "free"
    /\ lock' = "loop" /\ held' = clock
    /\ loop' = [loop EXCEPT !.at = "collect"]
    /\ UNCHANGED <<clock, files, manual, asks, crashes>>

LockIsBusy ==
    /\ loop.at = "lock"
    /\ lock # "free"
    /\ loop' = [loop EXCEPT !.at = "complete", !.cycle = 75,
                            !.regular = NextRegular(loop)]
    /\ UNCHANGED <<clock, files, locked, manual, asks, crashes>>

(* What a collection that began with the lock may find. *)
Samples(since) == [limit : Limits, reset : [Windows -> Resets \cup {0}],
                   sampled : since..clock]

Collect ==
    /\ loop.at = "collect"
    /\ data' \in Samples(held)
    /\ loop' = [loop EXCEPT !.at = "acknowledge", !.quota = 0]
    /\ UNCHANGED <<clock, sched, request, result, locked, manual, asks, crashes>>

CollectFails ==
    /\ loop.at = "collect"
    /\ loop' = [loop EXCEPT !.at = "acknowledge", !.quota = 1, !.cycle = 1]
    /\ UNCHANGED <<clock, files, locked, manual, asks, crashes>>

(* The answer is published before the rest of the cycle; that may fail. *)
Acknowledge ==
    /\ loop.at = "acknowledge"
    /\ \/ result' = Acknowledged(loop.quota) /\ loop' = [loop EXCEPT !.at = "work"]
       \/ result' = result /\ loop' = [loop EXCEPT !.at = "work", !.cycle = 1]
    /\ UNCHANGED <<clock, data, sched, request, locked, manual, asks, crashes>>

(* Gist, alerts and token collection: they may fail, and the lock is free. *)
Work ==
    /\ loop.at = "work"
    /\ \E cycle \in {loop.cycle, 1} :
          loop' = [loop EXCEPT !.at = "complete", !.cycle = cycle,
                               !.regular = NextRegular(loop)]
    /\ lock' = "free" /\ held' = 0
    /\ UNCHANGED <<clock, files, manual, asks, crashes>>

(* Faulty: a cycle that failed after its collection counts as failed. *)
CycleStatus == loop.cycle

CollectionStatus == IF loop.cycle = 75 THEN 75 ELSE loop.quota

Complete ==
    /\ loop.at = "complete"
    /\ sched' = Finished(sched, CollectionStatus)
    /\ result' = Acknowledged(CollectionStatus)
    /\ loop' = IF loop.cycle = 75 THEN Sleeping(Horizon(clock + 1))
                                  ELSE NextIteration
    /\ UNCHANGED <<clock, data, request, locked, manual, asks, crashes>>

Wake ==
    /\ loop.at = "sleep"
    /\ clock >= loop.wake
    /\ loop' = NextIteration
    /\ UNCHANGED <<clock, files, locked, manual, asks, crashes>>

(* The process dies, or leaves at a failed plan or complete, and is started
   again. *)
Crash ==
    /\ crashes < MaxCrashes
    /\ crashes' = crashes + 1
    /\ loop' = Started(clock)
    /\ IF lock = "loop" THEN lock' = "free" /\ held' = 0 ELSE UNCHANGED locked
    /\ UNCHANGED <<clock, files, manual, asks>>

-----------------------------------------------------------------------------
(* The monitor started by hand: one cycle, without request or schedule. *)

OtherStarts ==
    /\ lock = "free"
    /\ manual < MaxManual
    /\ manual' = manual + 1
    /\ lock' = "other" /\ held' = clock
    /\ UNCHANGED <<clock, files, loop, asks, crashes>>

OtherEnds ==
    /\ lock = "other"
    /\ data' \in Samples(held) \cup {data}
    /\ lock' = "free" /\ held' = 0
    /\ UNCHANGED <<clock, sched, request, result, loop, manual, asks, crashes>>

-----------------------------------------------------------------------------
(* The HTTP server: refresh_lock admits one request at a time. *)

Ask ==
    /\ http = 0
    /\ issued < MaxRequests
    /\ issued' = issued + 1
    /\ http' = issued'
    /\ asked' = [asked EXCEPT ![issued'] = clock]
    /\ request' = [id |-> issued', expires |-> clock + Timeout]
    /\ UNCHANGED <<clock, data, sched, result, locked, loop, manual, crashes>>

Hear ==
    /\ http # 0
    /\ clock < asked[http] + Timeout
    /\ result.id = http
    /\ http' = 0
    /\ UNCHANGED <<clock, files, locked, loop, manual, issued, asked, crashes>>

GiveUp ==
    /\ http # 0
    /\ clock >= asked[http] + Timeout
    /\ http' = 0
    /\ UNCHANGED <<clock, files, locked, loop, manual, issued, asked, crashes>>

-----------------------------------------------------------------------------
LoopStep == \/ Plan \/ TakeLock \/ LockIsBusy \/ Collect \/ CollectFails
            \/ Acknowledge \/ Work \/ Complete \/ Wake

Next == \/ Tick
        \/ LoopStep
        \/ OtherStarts \/ OtherEnds
        \/ Ask \/ Hear \/ GiveUp
        \/ Crash

Spec == Init /\ [][Next]_vars

(* The loop and the clock go on, a cycle started by hand ends, and a
   collection that is tried again and again succeeds some day. *)
Fairness == /\ WF_vars(LoopStep) /\ WF_vars(Tick) /\ WF_vars(OtherEnds)
            /\ SF_vars(Collect)

FairSpec == Spec /\ Fairness

-----------------------------------------------------------------------------
LoopStates ==
    [at : {"plan", "lock", "collect", "acknowledge", "work", "complete", "sleep"},
     now : Times, id : Ids, full : BOOLEAN, quota : {0, 1}, cycle : {0, 1, 75},
     regular : Times \cup {MaxTime + 1}, last : Times, wake : Times]

TypeOK ==
    /\ clock \in Times
    /\ data \in Snapshots
    /\ sched \in Schedules
    /\ request \in [id : Ids, expires : Nat]
    /\ result \in [id : Ids, success : BOOLEAN]
    /\ lock \in {"free", "loop", "other"}
    /\ loop \in LoopStates
    /\ held \in Times /\ manual \in 0..MaxManual
    /\ http \in Ids /\ issued \in Ids
    /\ asked \in [Ids -> Times]
    /\ crashes \in 0..MaxCrashes

(* A refresh reported as done has been done: the published sample was taken
   after the dashboard asked for it, also when the request met a busy lock,
   was abandoned, or was asked while a cycle was running. *)
FreshAnswer ==
    result.id # 0 /\ result.success => data.sampled >= asked[result.id]

(* A reset counts as checked only when a sample was taken after its grace
   time: a cycle that began before it and ended after it does not count. *)
CheckedAfterGrace ==
    \A w \in Windows : sched.completed[w] # 0
                         => data.sampled >= sched.completed[w] + Grace

(* What a request was told is not changed afterwards: what fails in the rest
   of the cycle does not turn a done refresh into a failed one. *)
AnswerIsFinal ==
    [][result.id # 0 /\ result'.id = result.id => result' = result]_vars

(* The check of a reset that has happened is dropped only when a sample after
   its grace time exists or the limit group has changed; a new estimate only
   replaces a reset that still lies ahead. *)
ChecksAreKept ==
    [][\A c \in sched.pending \ sched'.pending :
          \/ data.sampled >= DueAt(c)
          \/ sched'.limit # sched.limit
          \/ c[2] > clock]_vars

(* Every announced reset is followed by a sample taken after its grace time,
   or by one that announces another time, without a regular cycle and with
   failing collections, busy locks and restarts on the way. *)
EveryResetIsChecked ==
    \A w \in Windows, r \in Resets :
        data.reset[w] = r ~> data.reset[w] # r \/ data.sampled >= r + Grace
=============================================================================
