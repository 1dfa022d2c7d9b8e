---------------------------- MODULE RateLimiter ----------------------------
(***************************************************************************)
(* The sliding-window rate limiter of sdk/src/state/rate_limiter.rs as     *)
(* operators on limiter records.  Both the lending market (in USD) and     *)
(* every reserve (in tokens) own one.                                      *)
(***************************************************************************)
EXTENDS WadMath

\* RateLimiterConfig; window_duration = 0 disables the limiter
RateLimiterConfig == [window_duration : Nat, max_outflow : U64]

RateLimiterRec ==
    [config : RateLimiterConfig, prev_qty : Nat, window_start : Nat, cur_qty : Nat]

\* slot floored to a multiple of the window
WindowOf(config, slot) == (slot \div config.window_duration) * config.window_duration

RateLimiterNew(config, slot) ==
    [config |-> config, prev_qty |-> 0, cur_qty |-> 0,
     window_start |-> IF config.window_duration # 0 THEN WindowOf(config, slot) ELSE slot]

\* mutant: the Greater case of _update treated as Equal
SlideKeepsOldWindow(l, slot) ==
    IF WindowOf(l.config, slot) < l.window_start + l.config.window_duration THEN l
    ELSE [l EXCEPT !.prev_qty = l.cur_qty, !.window_start = WindowOf(l.config, slot),
                   !.cur_qty = 0]

(***************************************************************************)
(* _update: move the current window to the one that holds slot.  Callers   *)
(* have window_duration # 0 and window_start <= slot.                      *)
(***************************************************************************)
RateLimiterSlide(l, slot) ==
    LET start == WindowOf(l.config, slot)
        next  == l.window_start + l.config.window_duration
    IN  IF start < next THEN l
        ELSE [config |-> l.config,
              prev_qty |-> IF start = next THEN l.cur_qty ELSE 0,
              window_start |-> start,
              cur_qty |-> 0]

\* mutant: a fixed window, the previous one forgotten
OutflowOfFixedWindow(l, slot) == l.cur_qty

\* mutant: the previous window weighted by the part of the current one gone
OutflowWeightedByElapsed(l, slot) ==
    DecMul(FromU64(slot - l.window_start + 1) \div l.config.window_duration, l.prev_qty)
        + l.cur_qty

\* current_outflow of a limiter already slid to slot
CurrentOutflow(l, slot) ==
    LET w == l.config.window_duration
        prev_weight == FromU64(w - (slot - l.window_start + 1)) \div w
    IN  DecMul(prev_weight, l.prev_qty) + l.cur_qty

RemainingOutflow(l, slot) ==
    IF l.config.window_duration = 0 THEN FromU64(U64_MAX)
    ELSE LET outflow == CurrentOutflow(RateLimiterSlide(l, slot), slot)
             max     == FromU64(l.config.max_outflow)
         IN  IF outflow > max THEN 0 ELSE max - outflow

\* mutant: the quantity is not counted before it is admitted
AllowsBeforeCounting(l, slot, qty) ==
    l.config.window_duration # 0 =>
        CurrentOutflow(RateLimiterSlide(l, slot), slot) <= FromU64(l.config.max_outflow)

\* RateLimiter::update returns Ok
RateLimiterAllows(l, slot, qty) ==
    l.config.window_duration # 0 =>
        /\ slot >= l.window_start
        /\ CurrentOutflow(RateLimiterSlide(l, slot), slot) + qty
              <= FromU64(l.config.max_outflow)

\* mutant: the quantity taken off the current window instead of added to it
UpdateSubtracts(l, slot, qty) ==
    IF l.config.window_duration = 0 THEN l
    ELSE LET s == RateLimiterSlide(l, slot) IN [s EXCEPT !.cur_qty = @ - qty]

\* ... and leaves the limiter in this state
RateLimiterUpdate(l, slot, qty) ==
    IF l.config.window_duration = 0 THEN l
    ELSE LET s == RateLimiterSlide(l, slot) IN [s EXCEPT !.cur_qty = @ + qty]
=============================================================================
