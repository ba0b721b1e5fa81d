---------------------------- MODULE WeeklyReset ----------------------------
(***************************************************************************)
(* The evidence for a weekly reset (weekly_reset.py).  A refill with a      *)
(* later deadline is one.  While the quota stays full there is no refill:   *)
(* an advanced deadline is a candidate until the next sample confirms it.   *)
(*                                                                         *)
(* A sample is a record; pct and reset give its value for every window.     *)
(* Sampling intervals are abstracted into GapLimit.                         *)
(***************************************************************************)
EXTENDS Integers

CONSTANTS
    Owners,             \* limit groups whose identity is known
    MinAdvance,         \* MIN_ADVANCE_SECONDS
    ConfirmTolerance,   \* CONFIRMATION_TOLERANCE_SECONDS
    GapLimit,           \* max(3600, 2 * sampling interval)
    MaxAhead            \* 8 days: no weekly deadline lies further ahead

Unknown == "__unknown__"
None    == -1           \* a percentage or a deadline that is missing

ASSUME WeeklyResetAssumption ==
    /\ Unknown \notin Owners
    /\ MinAdvance \in Nat \ {0} /\ ConfirmTolerance \in Nat
    /\ GapLimit \in Nat \ {0} /\ MaxAhead \in Nat \ {0}

Distance(a, b) == IF a < b THEN b - a ELSE a - b
Near(p, c) == c.epoch - p.epoch <= GapLimit

IsRefill(before, after) ==
    after > before /\ (after - before >= 20 \/ after >= 98)

is_weekly_refill(p, pReset, c, cReset) ==
    pReset # None /\ cReset # None /\ cReset >= pReset + MinAdvance /\ IsRefill(p, c)

Ahead(s) == s.reset["weekly"] > s.epoch /\ s.reset["weekly"] <= s.epoch + MaxAhead
Complete(s) == s.pct["weekly"] # None /\ s.reset["weekly"] # None /\ Ahead(s) /\ s.owner # Unknown

-----------------------------------------------------------------------------
(* Full to full: the chain of full samples, its last one perhaps a candidate. *)

NoChain == [epoch |-> 0, reset |-> 0, owner |-> Unknown, candidate |-> FALSE]

IsReplay(chain, s) == chain.owner = s.owner /\ s.epoch <= chain.epoch

(* Faulty: the chain survives a long gap. *)
ContinuedAcrossGap(chain, s) == IF chain.owner = s.owner THEN chain ELSE NoChain

Continued(chain, s) == IF chain.owner = s.owner /\ Near(chain, s) THEN chain ELSE NoChain

Confirms(chain, s) ==
    chain.candidate /\ Distance(s.reset["weekly"], chain.reset) <= ConfirmTolerance

Advances(chain, s) ==
    /\ s.pct["weekly"] = 100 /\ chain # NoChain /\ chain.reset > s.epoch
    /\ s.reset["weekly"] >= chain.reset + MinAdvance

(* The chain after a sample, and the epoch of the candidate it confirms.   *)
observe_full_weekly_reset(chain, s) ==
    LET before == Continued(chain, s)
        full   == [epoch |-> s.epoch, reset |-> s.reset["weekly"], owner |-> s.owner,
                   candidate |-> ~Confirms(before, s) /\ Advances(before, s)]
    IN IF ~Complete(s) THEN [chain |-> NoChain, confirmed |-> 0]
       ELSE IF IsReplay(chain, s) THEN [chain |-> chain, confirmed |-> 0]
       ELSE [chain     |-> IF s.pct["weekly"] = 100 THEN full ELSE NoChain,
             confirmed |-> IF Confirms(before, s) THEN before.epoch ELSE 0]

-----------------------------------------------------------------------------
(* A pair of complete samples of one owner, the second one the later. *)

CrossedOnTime(p, c) ==
    /\ p.epoch < p.reset["weekly"] /\ p.reset["weekly"] <= c.epoch
    /\ c.reset["weekly"] > p.reset["weekly"]
    /\ Near(p, c)

Refilled(p, c) ==
    is_weekly_refill(p.pct["weekly"], p.reset["weekly"], c.pct["weekly"], c.reset["weekly"])

(* The resets a pair is evidence of: none or one.                          *)
ObservedEvents(p, c) ==
    IF p.owner # c.owner \/ p.epoch >= c.epoch THEN {}
    ELSE IF CrossedOnTime(p, c)
         THEN {[method |-> "scheduled_crossing", at |-> p.reset["weekly"], seen |-> c.epoch]}
    ELSE IF Refilled(p, c)
         THEN {[method |-> "random_observed", at |-> c.epoch, seen |-> c.epoch]}
    ELSE {}
=============================================================================
