---------------------------- MODULE OutflowLimit ----------------------------
(***************************************************************************)
(* One rate limiter in use: slots pass, instructions take liquidity out of *)
(* the pool it guards, and the market owner reconfigures it.               *)
(*                                                                         *)
(* meter is a history variable: meter[t] is the total quantity the limiter *)
(* admitted from its creation up to and including slot t, so the outflow   *)
(* of any span of slots is a difference of two readings.                   *)
(***************************************************************************)
EXTENDS RateLimiter

CONSTANTS
    Configs,     \* limiter configurations the owner may choose
    Quantities,  \* quantities (wads) an instruction may take out
    MaxSlot      \* bound on the clock

ASSUME OutflowAssumption ==
    /\ Configs \subseteq RateLimiterConfig
    /\ Quantities \subseteq Nat
    /\ MaxSlot \in Nat

VARIABLES slot, limiter, meter

vars == <<slot, limiter, meter>>

Enabled(l) == l.config.window_duration # 0

Init ==
    /\ slot \in 0..MaxSlot
    /\ \E c \in Configs : limiter = RateLimiterNew(c, slot)
    /\ meter = [t \in 0..MaxSlot |-> 0]

\* The clock sysvar moves on; the reading is carried over.
Tick ==
    /\ slot < MaxSlot
    /\ slot' = slot + 1
    /\ meter' = [meter EXCEPT ![slot + 1] = meter[slot]]
    /\ UNCHANGED limiter

\* RateLimiter::update succeeds for qty and the account is packed.
TakeOut(qty) ==
    /\ RateLimiterAllows(limiter, slot, qty)
    /\ limiter' = RateLimiterUpdate(limiter, slot, qty)
    /\ meter' = IF Enabled(limiter) THEN [meter EXCEPT ![slot] = @ + qty] ELSE meter
    /\ UNCHANGED slot

\* A borrow or withdrawal of u64::MAX is cut down to what the limiter has left.
TakeRemaining ==
    /\ Enabled(limiter)
    /\ RemainingOutflow(limiter, slot) > 0
    /\ TakeOut(RemainingOutflow(limiter, slot))

\* A changed configuration installs a fresh limiter: the history is forgotten.
Reconfigure(c) ==
    /\ c # limiter.config
    /\ limiter' = RateLimiterNew(c, slot)
    /\ meter' = [t \in 0..MaxSlot |-> 0]
    /\ UNCHANGED slot

Next ==
    \/ Tick
    \/ \E qty \in Quantities : TakeOut(qty)
    \/ TakeRemaining
    \/ \E c \in Configs : Reconfigure(c)

Spec == Init /\ [][Next]_vars

-----------------------------------------------------------------------------
(* Readings of the history.                                                *)

\* total admitted through slot t; nothing was admitted before slot 0
Through(t) == IF t < 0 THEN 0 ELSE meter[t]

\* total admitted in the slots from..to, both included
OutflowIn(from, to) == Through(to) - Through(from - 1)

Window == limiter.config.window_duration

MaxOutflow == FromU64(limiter.config.max_outflow)

-----------------------------------------------------------------------------
(* Properties.                                                             *)

\* Every variable has its type (RateLimiter and its config).
TypeOK ==
    /\ slot \in 0..MaxSlot
    /\ limiter \in RateLimiterRec
    /\ limiter.config \in Configs
    /\ meter \in [0..MaxSlot -> Nat]

\* The field comments of RateLimiter: cur_qty is the outflow of
\* [window_start, window_start + W) and prev_qty that of the window before,
\* whatever gaps there were between the updates (_update's three cases).
QuantitiesMatchHistory ==
    Enabled(limiter) =>
        /\ limiter.window_start <= slot
        /\ limiter.cur_qty =
              OutflowIn(limiter.window_start,
                        MinOf(slot, limiter.window_start + Window - 1))
        /\ limiter.prev_qty =
              OutflowIn(limiter.window_start - Window, limiter.window_start - 1)

\* Neither window ever holds more than max_outflow (update's admission test).
EachWindowBounded ==
    Enabled(limiter) => limiter.cur_qty <= MaxOutflow /\ limiter.prev_qty <= MaxOutflow

\* The struct's guarantee, as the code keeps it: the outflow of the closed
\* range [cur_slot - W, cur_slot] is at most twice max_outflow.
ClosedRangeAtMostDouble ==
    Enabled(limiter) => OutflowIn(slot - Window, slot) <= 2 * MaxOutflow

\* The same guarantee in the comment's words, "less than 2x max_outflow"
\* (rate_limiter.rs, lines 13-15).
DocumentedGuarantee ==
    Enabled(limiter) /\ MaxOutflow > 0 => OutflowIn(slot - Window, slot) < 2 * MaxOutflow

\* Any W consecutive slots, the span a window stands for, stay strictly below
\* twice max_outflow: the weighting of prev_qty in current_outflow pays off.
WindowSpanBelowDouble ==
    Enabled(limiter) /\ MaxOutflow > 0 => OutflowIn(slot - Window + 1, slot) < 2 * MaxOutflow

\* remaining_outflow's "cur_outflow > max_outflow" case cannot happen: an
\* admitted quantity stays within the limit when its window becomes the
\* previous one and its weight jumps.
NeverOverdrawn ==
    Enabled(limiter) => CurrentOutflow(RateLimiterSlide(limiter, slot), slot) <= MaxOutflow

\* Two windows without outflow restore the whole allowance (_update's Greater
\* case, or Equal followed by Greater).
QuietPeriodRestores ==
    Enabled(limiter) => RemainingOutflow(limiter, slot + 2 * Window) = MaxOutflow

\* What remaining_outflow tells a borrower or withdrawer is sound at both ends:
\* never negative at any moment, and whole again after a pause.
AllowanceSound == NeverOverdrawn /\ QuietPeriodRestores

\* Time alone never takes allowance away, across window boundaries included.
TimeNeverTightens ==
    [][Tick => RemainingOutflow(limiter', slot') >= RemainingOutflow(limiter, slot)]_vars

=============================================================================
