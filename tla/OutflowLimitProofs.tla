------------------------- MODULE OutflowLimitProofs -------------------------
(***************************************************************************)
(* For every window, limit, scale and quantity: the limiter's two counters *)
(* are the outflow of the two windows they name, the closed range of W + 1 *)
(* slots never lets more than twice max_outflow through and W slots always *)
(* less, the limit is never overdrawn and time never takes allowance away. *)
(***************************************************************************)
EXTENDS OutflowLimit, ReserveProofs

-----------------------------------------------------------------------------
(* The inductive invariant.                                                *)

\* the meter never runs backwards
MeterMonotone == \A s, t \in 0..slot : s <= t => meter[s] <= meter[t]

\* the window starts at a multiple of its length
Aligned == \E k \in Nat : limiter.window_start = k * Window

\* nothing was admitted after the limiter's current window
NothingSince ==
    \A t \in 0..slot : t >= limiter.window_start + Window - 1 => meter[t] = meter[slot]

\* the counters, with the current window read off at the present slot
Counters ==
    /\ limiter.cur_qty = Through(slot) - Through(limiter.window_start - 1)
    /\ limiter.prev_qty =
          Through(limiter.window_start - 1) - Through(limiter.window_start - Window - 1)

IndInv ==
    /\ TypeOK
    /\ MeterMonotone
    /\ Enabled(limiter) =>
          /\ limiter.window_start <= slot
          /\ Aligned
          /\ NothingSince
          /\ Counters
          /\ EachWindowBounded

-----------------------------------------------------------------------------
(* Induction.                                                              *)

\* A limiter just made has empty counters and an empty history.
LEMMA InitIndInv == Init => IndInv
<1> SUFFICES ASSUME Init PROVE IndInv
    OBVIOUS
<1> USE OutflowAssumption
<1>1. PICK c \in Configs : limiter = RateLimiterNew(c, slot)
    BY DEF Init
<1>2. slot \in 0..MaxSlot /\ slot \in Nat /\ meter = [t \in 0..MaxSlot |-> 0]
    BY DEF Init
<1>3. c \in RateLimiterConfig
    BY <1>1
<1>4. /\ limiter \in RateLimiterRec /\ limiter.config = c
      /\ limiter.cur_qty = 0 /\ limiter.prev_qty = 0
      /\ c.window_duration # 0 =>
            /\ limiter.window_start <= slot
            /\ \E k \in Nat : limiter.window_start = k * c.window_duration
    BY <1>1, <1>2, <1>3, NewLimiter
<1>5. TypeOK
    BY <1>1, <1>2, <1>4 DEF TypeOK
<1>6. MeterMonotone
    BY <1>2 DEF MeterMonotone
<1>7. ASSUME Enabled(limiter)
      PROVE  limiter.window_start <= slot /\ Aligned /\ NothingSince /\ Counters /\ EachWindowBounded
    <2>1. c.window_duration \in Nat /\ c.max_outflow \in Nat /\ limiter.window_start \in Nat
        BY <1>3, <1>4, WadAssumption DEF RateLimiterConfig, RateLimiterRec, U64
    <2>2. limiter.window_start <= slot /\ Aligned
        BY <1>4, <1>7 DEF Enabled, Aligned, Window
    <2>3. NothingSince
        BY <1>2 DEF NothingSince
    <2>4. Counters
        <3>1. \A t \in Int : t <= slot => Through(t) = 0
            BY <1>2 DEF Through
        <3>2. /\ limiter.window_start - 1 \in Int /\ limiter.window_start - Window - 1 \in Int
              /\ limiter.window_start - 1 <= slot /\ limiter.window_start - Window - 1 <= slot
            BY <1>2, <1>4, <2>1, <2>2 DEF Window
        <3> QED BY <1>2, <1>4, <3>1, <3>2 DEF Counters
    <2>5. EachWindowBounded
        <3>1. c.max_outflow * WAD \in Nat
            BY <2>1, WadAssumption
        <3> QED BY <1>4, <3>1 DEF EachWindowBounded, MaxOutflow, FromU64
    <2> QED BY <2>2, <2>3, <2>4, <2>5
<1> QED BY <1>5, <1>6, <1>7 DEF IndInv

\* Time passes: the reading is carried over and the counters stand.
LEMMA TickIndInv == IndInv /\ Tick => IndInv'
<1> SUFFICES ASSUME IndInv, Tick PROVE IndInv'
    OBVIOUS
<1>1. /\ slot \in 0..MaxSlot /\ MaxSlot \in Nat /\ meter \in [0..MaxSlot -> Nat]
      /\ limiter \in RateLimiterRec /\ limiter.config \in Configs
    BY OutflowAssumption DEF IndInv, TypeOK
<1>2. /\ slot' = slot + 1 /\ slot < MaxSlot /\ limiter' = limiter
      /\ slot + 1 \in 0..MaxSlot
      /\ meter' = [meter EXCEPT ![slot + 1] = meter[slot]]
    BY <1>1 DEF Tick
<1>3. /\ \A t \in 0..slot : meter'[t] = meter[t]
      /\ meter'[slot + 1] = meter[slot]
      /\ meter' \in [0..MaxSlot -> Nat]
    BY <1>1, <1>2
<1>4. TypeOK'
    BY <1>1, <1>2, <1>3 DEF TypeOK
<1>5. MeterMonotone'
    <2> SUFFICES ASSUME NEW s \in 0..(slot + 1), NEW t \in 0..(slot + 1), s <= t
                 PROVE  meter'[s] <= meter'[t]
        BY <1>2 DEF MeterMonotone
    <2>1. \A x, y \in 0..slot : x <= y => meter[x] <= meter[y]
        BY DEF IndInv, MeterMonotone
    <2>2. slot \in 0..slot /\ \A x \in 0..slot : meter[x] \in Nat
        BY <1>1
    <2>3. CASE t \in 0..slot
        BY <2>1, <2>3, <1>1, <1>3
    <2>4. CASE t = slot + 1 /\ s \in 0..slot
        BY <2>1, <2>2, <2>4, <1>1, <1>3
    <2>5. CASE t = slot + 1 /\ s = slot + 1
        BY <2>2, <2>5, <1>1, <1>3
    <2> QED BY <1>1, <2>3, <2>4, <2>5
<1>6. ASSUME Enabled(limiter)'
      PROVE  (limiter.window_start <= slot /\ Aligned /\ NothingSince /\ Counters /\ EachWindowBounded)'
    <2>1. Enabled(limiter) /\ Window' = Window
        BY <1>2, <1>6 DEF Enabled, Window
    <2>2. limiter.window_start <= slot /\ Aligned /\ NothingSince /\ Counters /\ EachWindowBounded
        BY <2>1 DEF IndInv
    <2>3. limiter.window_start \in Nat /\ Window \in Nat /\ Window # 0
        BY <1>1, <2>1 DEF RateLimiterRec, RateLimiterConfig, Window, Enabled
    <2>4. (limiter.window_start <= slot /\ Aligned /\ EachWindowBounded)'
        BY <1>1, <1>2, <2>1, <2>2, <2>3 DEF Aligned, EachWindowBounded, MaxOutflow, FromU64, Window, Enabled
    <2>5. NothingSince'
        <3> SUFFICES ASSUME NEW t \in 0..(slot + 1), t >= limiter.window_start + Window - 1
                     PROVE  meter'[t] = meter'[slot + 1]
            BY <1>2, <2>1 DEF NothingSince
        <3>1. CASE t = slot + 1
            BY <3>1
        <3>2. CASE t \in 0..slot
            BY <3>2, <1>3, <2>2 DEF NothingSince
        <3> QED BY <1>1, <3>1, <3>2
    <2>6. Counters'
        <3>1. /\ limiter.window_start - 1 <= slot
              /\ limiter.window_start - Window - 1 <= slot
              /\ limiter.window_start - 1 \in Int
              /\ limiter.window_start - Window - 1 \in Int
            BY <1>1, <2>2, <2>3
        <3>2. \A t \in Int : t <= slot => Through(t)' = Through(t)
            BY <1>1, <1>3 DEF Through
        <3>3. Through(slot)' = Through(slot)
            BY <1>1, <1>2, <1>3 DEF Through
        <3>4. /\ Through(limiter.window_start - 1)' = Through(limiter.window_start - 1)
              /\ Through(limiter.window_start - Window - 1)'
                    = Through(limiter.window_start - Window - 1)
            BY <1>2, <2>1, <3>1, <3>2 DEF Through
        <3> QED BY <1>2, <2>1, <2>2, <3>3, <3>4 DEF Counters
    <2> QED BY <2>4, <2>5, <2>6
<1> QED BY <1>4, <1>5, <1>6 DEF IndInv

\* An admitted quantity: one step of _update, then cur_qty and the meter grow.
LEMMA TakeOutIndInv ==
    ASSUME IndInv, NEW qty \in Nat, TakeOut(qty)
    PROVE  IndInv'
<1>1. /\ slot \in 0..MaxSlot /\ slot \in Nat /\ MaxSlot \in Nat /\ meter \in [0..MaxSlot -> Nat]
      /\ limiter \in RateLimiterRec /\ limiter.config \in Configs /\ slot' = slot
    BY OutflowAssumption DEF IndInv, TypeOK, TakeOut
<1>2. CASE ~Enabled(limiter)
    <2>1. limiter' = limiter /\ meter' = meter
        BY <1>2 DEF TakeOut, Enabled, RateLimiterUpdate
    <2> QED BY <1>1, <1>2, <2>1 DEF IndInv, TypeOK, MeterMonotone, Enabled
<1>3. CASE Enabled(limiter)
    <2>w. PICK w : w = limiter.config.window_duration
        OBVIOUS
    <2>r. PICK r : r = RateLimiterSlide(limiter, slot)
        OBVIOUS
    <2>1. PICK k \in Nat : limiter.window_start = k * w
        BY <1>3, <2>w DEF IndInv, Aligned, Window
    <2>2. /\ r \in RateLimiterRec /\ r.config = limiter.config
          /\ \E j \in Nat : r.window_start = j * w
          /\ r.window_start <= slot /\ slot < r.window_start + w
          /\ \/ r = limiter
             \/ /\ r.window_start = limiter.window_start + w
                /\ r.prev_qty = limiter.cur_qty /\ r.cur_qty = 0
             \/ /\ r.window_start >= limiter.window_start + w + w
                /\ r.prev_qty = 0 /\ r.cur_qty = 0
        BY <1>1, <1>3, <2>1, <2>w, <2>r, SlideCases DEF IndInv, Enabled
    <2>3. /\ limiter' = [r EXCEPT !.cur_qty = @ + qty]
          /\ meter' = [meter EXCEPT ![slot] = @ + qty]
          /\ CurrentOutflow(r, slot) + qty <= FromU64(limiter.config.max_outflow)
        BY <1>3, <2>r DEF TakeOut, Enabled, RateLimiterUpdate, RateLimiterAllows
    <2>4. /\ limiter' \in RateLimiterRec /\ limiter'.config = limiter.config
          /\ limiter'.window_start = r.window_start /\ limiter'.prev_qty = r.prev_qty
          /\ limiter'.cur_qty = r.cur_qty + qty
          /\ r.cur_qty \in Nat /\ r.prev_qty \in Nat /\ r.window_start \in Nat
        BY <2>2, <2>3 DEF RateLimiterRec
    <2>5. /\ meter' \in [0..MaxSlot -> Nat] /\ meter'[slot] = meter[slot] + qty
          /\ \A t \in 0..slot : t # slot => meter'[t] = meter[t]
        BY <1>1, <2>3
    <2>6. TypeOK'
        BY <1>1, <2>4, <2>5 DEF TypeOK
    <2>7. MeterMonotone'
        <3> SUFFICES ASSUME NEW s \in 0..slot, NEW t \in 0..slot, s <= t
                     PROVE  meter'[s] <= meter'[t]
            BY <1>1 DEF MeterMonotone
        <3>1. meter[s] <= meter[t] /\ meter[s] \in Nat /\ meter[t] \in Nat
            BY <1>1 DEF IndInv, MeterMonotone
        <3>2. CASE t # slot
            BY <1>1, <2>5, <3>1, <3>2
        <3>3. CASE t = slot /\ s # slot
            BY <1>1, <2>5, <3>1, <3>3
        <3>4. CASE t = slot /\ s = slot
            BY <1>1, <2>5, <3>1, <3>4
        <3> QED BY <3>2, <3>3, <3>4
    <2>8. w \in Nat /\ w # 0 /\ Window = w /\ Window' = w
          /\ limiter.window_start \in Nat /\ limiter.window_start <= slot
          /\ limiter.config.max_outflow \in Nat
        BY <1>1, <1>3, <2>4, <2>w, WadAssumption
           DEF RateLimiterRec, RateLimiterConfig, U64, Window, Enabled, IndInv
    <2>9. (limiter.window_start <= slot /\ Aligned)'
        BY <1>1, <2>2, <2>4, <2>8 DEF Aligned
    <2>10. NothingSince'
        <3> SUFFICES ASSUME NEW t \in 0..slot, t >= r.window_start + w - 1
                     PROVE  meter'[t] = meter'[slot]
            BY <1>1, <2>4, <2>8 DEF NothingSince
        <3>1. /\ slot < r.window_start + w
              /\ r.window_start \in Int /\ w \in Int /\ slot \in Int
            BY <1>1, <2>2, <2>4, <2>8
        <3>2. t \in Int /\ t <= slot
            BY <3>1
        <3>3. t = slot
            BY <3>1, <3>2
        <3> QED BY <3>3
    <2>11. /\ \A t \in Int : t < slot => Through(t)' = Through(t)
           /\ Through(slot)' = Through(slot) + qty /\ Through(slot) = meter[slot]
           /\ \A t \in Int : t <= slot => Through(t) \in Nat
        BY <1>1, <2>5 DEF Through
    <2>12. Counters'
        <3>1. /\ limiter.cur_qty = Through(slot) - Through(limiter.window_start - 1)
              /\ limiter.prev_qty =
                    Through(limiter.window_start - 1) - Through(limiter.window_start - w - 1)
              /\ \A t \in 0..slot : t >= limiter.window_start + w - 1 => meter[t] = meter[slot]
            BY <1>3, <2>8 DEF IndInv, Counters, NothingSince
        <3>2. /\ Through(r.window_start - 1)' = Through(r.window_start - 1)
              /\ Through(r.window_start - w - 1)' = Through(r.window_start - w - 1)
            <4>1. /\ r.window_start - 1 \in Int /\ r.window_start - 1 < slot
                  /\ r.window_start - w - 1 \in Int /\ r.window_start - w - 1 < slot
                BY <1>1, <2>2, <2>4, <2>8
            <4> QED BY <2>11, <4>1
        <3>3. \A t \in Int : t <= slot /\ t >= limiter.window_start + w - 1
                                => Through(t) = Through(slot)
            BY <1>1, <2>8, <2>11, <3>1 DEF Through
        <3>4. /\ r.cur_qty = Through(slot) - Through(r.window_start - 1)
              /\ r.prev_qty = Through(r.window_start - 1) - Through(r.window_start - w - 1)
            <4>1. CASE r = limiter
                BY <3>1, <4>1
            <4>2. CASE r.window_start = limiter.window_start + w
                       /\ r.prev_qty = limiter.cur_qty /\ r.cur_qty = 0
                <5>1. Through(r.window_start - 1) = Through(slot)
                    <6>1. r.window_start - 1 \in Int /\ r.window_start - 1 <= slot
                          /\ r.window_start - 1 >= limiter.window_start + w - 1
                        BY <1>1, <2>2, <2>4, <2>8, <4>2
                    <6> QED BY <3>3, <6>1
                <5>2. r.window_start - w - 1 = limiter.window_start - 1
                    BY <2>8, <4>2
                <5> QED BY <1>1, <2>11, <3>1, <4>2, <5>1, <5>2
            <4>3. CASE r.window_start >= limiter.window_start + w + w
                       /\ r.prev_qty = 0 /\ r.cur_qty = 0
                <5>1. Through(r.window_start - 1) = Through(slot)
                    <6>1. r.window_start - 1 \in Int /\ r.window_start - 1 <= slot
                          /\ r.window_start - 1 >= limiter.window_start + w - 1
                        BY <1>1, <2>2, <2>4, <2>8, <4>3
                    <6> QED BY <3>3, <6>1
                <5>2. Through(r.window_start - w - 1) = Through(slot)
                    BY <1>1, <2>2, <2>4, <2>8, <3>3, <4>3
                <5> QED BY <1>1, <2>11, <4>3, <5>1, <5>2
            <4> QED BY <2>2, <4>1, <4>2, <4>3
        <3>5. /\ Through(limiter.window_start - 1)' = Through(r.window_start - 1)
              /\ Through(limiter.window_start - Window - 1)' = Through(r.window_start - w - 1)
            BY <2>4, <2>8, <3>2 DEF Through
        <3>6. Through(r.window_start - 1) \in Nat /\ Through(slot) \in Nat
            BY <1>1, <2>2, <2>4, <2>11
        <3> QED BY <1>1, <2>4, <2>8, <2>11, <3>4, <3>5, <3>6 DEF Counters
    <2>13. EachWindowBounded'
        <3>1. limiter.cur_qty <= MaxOutflow /\ limiter.prev_qty <= MaxOutflow
            BY <1>3 DEF IndInv, EachWindowBounded
        <3>2. MaxOutflow' = MaxOutflow /\ MaxOutflow = FromU64(limiter.config.max_outflow)
              /\ MaxOutflow \in Nat
            BY <2>4, <2>8, WadAssumption DEF MaxOutflow, FromU64
        <3>3. r.prev_qty <= MaxOutflow
            BY <1>1, <2>2, <2>4, <3>1, <3>2
        <3>4. r.cur_qty + qty <= MaxOutflow
            <4>1. CurrentOutflow(r, slot) \in Nat /\ r.cur_qty <= CurrentOutflow(r, slot)
                <5>1. Enabled(r)
                    BY <1>3, <2>2 DEF Enabled
                <5> QED BY <1>1, <2>2, <2>w, <5>1, OutflowCoversCurrent DEF Enabled
            <4> QED BY <2>3, <2>4, <3>2, <4>1
        <3> QED BY <2>4, <3>2, <3>3, <3>4 DEF EachWindowBounded
    <2> QED BY <2>6, <2>7, <2>9, <2>10, <2>12, <2>13 DEF IndInv
<1> QED BY <1>2, <1>3

\* A new limiter starts with empty counters and an empty meter.
LEMMA ReconfigureIndInv ==
    ASSUME IndInv, NEW c \in Configs, Reconfigure(c)
    PROVE  IndInv'
<1> USE OutflowAssumption
<1>1. slot \in 0..MaxSlot /\ slot \in Nat /\ slot' = slot /\ c \in RateLimiterConfig
    BY DEF IndInv, TypeOK, Reconfigure
<1>2. meter' = [t \in 0..MaxSlot |-> 0] /\ limiter' = RateLimiterNew(c, slot)
    BY DEF Reconfigure
<1>3. /\ limiter' \in RateLimiterRec /\ limiter'.config = c
      /\ limiter'.cur_qty = 0 /\ limiter'.prev_qty = 0
      /\ c.window_duration # 0 =>
            /\ limiter'.window_start <= slot
            /\ \E k \in Nat : limiter'.window_start = k * c.window_duration
    BY <1>1, <1>2, NewLimiter
<1>4. TypeOK'
    BY <1>1, <1>2, <1>3 DEF TypeOK
<1>5. MeterMonotone'
    BY <1>1, <1>2 DEF MeterMonotone
<1>6. ASSUME Enabled(limiter)'
      PROVE  (limiter.window_start <= slot /\ Aligned /\ NothingSince /\ Counters /\ EachWindowBounded)'
    <2>1. c.window_duration \in Nat /\ c.max_outflow \in Nat /\ limiter'.window_start \in Nat
        BY <1>1, <1>3, WadAssumption DEF RateLimiterConfig, RateLimiterRec, U64
    <2>2. (limiter.window_start <= slot /\ Aligned)'
        BY <1>1, <1>3, <1>6 DEF Enabled, Aligned, Window
    <2>3. NothingSince'
        BY <1>1, <1>2 DEF NothingSince
    <2>4. Counters'
        <3>1. \A t \in Int : t <= slot => Through(t)' = 0
            BY <1>1, <1>2 DEF Through
        <3>2. /\ limiter'.window_start - 1 \in Int /\ limiter'.window_start - Window' - 1 \in Int
              /\ limiter'.window_start - 1 <= slot /\ limiter'.window_start - Window' - 1 <= slot
            BY <1>1, <1>3, <2>1, <2>2 DEF Window
        <3>3. /\ Through(limiter.window_start - 1)' = 0
              /\ Through(limiter.window_start - Window - 1)' = 0
              /\ Through(slot)' = 0
            BY <1>1, <1>2, <3>2 DEF Through
        <3> QED BY <1>1, <1>3, <3>3 DEF Counters
    <2>5. EachWindowBounded'
        <3>1. c.max_outflow * WAD \in Nat
            BY <2>1, WadAssumption
        <3> QED BY <1>3, <3>1 DEF EachWindowBounded, MaxOutflow, FromU64
    <2> QED BY <2>2, <2>3, <2>4, <2>5
<1> QED BY <1>4, <1>5, <1>6 DEF IndInv

\* Every step keeps the inductive invariant; TakeRemaining is a TakeOut of
\* remaining_outflow, which is a natural number.
LEMMA NextIndInv == IndInv /\ [Next]_vars => IndInv'
<1> SUFFICES ASSUME IndInv, [Next]_vars PROVE IndInv'
    OBVIOUS
<1>1. CASE Tick
    BY <1>1, TickIndInv
<1>2. ASSUME NEW qty \in Quantities, TakeOut(qty) PROVE IndInv'
    BY <1>2, TakeOutIndInv, OutflowAssumption
<1>3. CASE TakeRemaining
    <2>1. RemainingOutflow(limiter, slot) > 0 /\ TakeOut(RemainingOutflow(limiter, slot))
        BY <1>3 DEF TakeRemaining
    <2>2. RemainingOutflow(limiter, slot) \in Int
        <3> DEFINE r == RateLimiterSlide(limiter, slot)
        <3>1. Enabled(limiter) /\ limiter \in RateLimiterRec /\ slot \in Nat
            BY <1>3, OutflowAssumption DEF TakeRemaining, IndInv, TypeOK
        <3>2. PICK k \in Nat : limiter.window_start = k * limiter.config.window_duration
            BY <3>1 DEF IndInv, Aligned, Window
        <3>3. /\ r \in RateLimiterRec /\ r.config = limiter.config
              /\ r.window_start <= slot /\ slot < r.window_start + limiter.config.window_duration
            BY <3>1, <3>2, SlideCases DEF IndInv, Enabled
        <3>4. Enabled(r)
            BY <3>1, <3>3 DEF Enabled
        <3>5. CurrentOutflow(r, slot) \in Nat
            BY <3>1, <3>3, <3>4, OutflowCoversCurrent DEF Enabled
        <3>6. FromU64(limiter.config.max_outflow) \in Nat /\ FromU64(U64_MAX) \in Nat
            BY <3>1, WadAssumption DEF FromU64, RateLimiterRec, RateLimiterConfig, U64
        <3> QED BY <3>5, <3>6 DEF RemainingOutflow
    <2> QED BY <2>1, <2>2, TakeOutIndInv
<1>4. ASSUME NEW c \in Configs, Reconfigure(c) PROVE IndInv'
    BY <1>4, ReconfigureIndInv
<1>5. CASE UNCHANGED vars
    BY <1>5 DEF IndInv, vars, TypeOK, MeterMonotone, Enabled, Aligned, NothingSince, Counters,
                EachWindowBounded, Through, Window, MaxOutflow
<1> QED BY <1>1, <1>2, <1>3, <1>4, <1>5 DEF Next

\* The inductive invariant holds in every reachable state.
LEMMA IndInvInvariant == Spec => []IndInv
    BY InitIndInv, NextIndInv, PTL DEF Spec

-----------------------------------------------------------------------------
(* Theorems.                                                               *)

\* Whatever is taken out and however the limiter is reconfigured, the fields
\* of RateLimiter keep their types and the clock its range.
THEOREM LimiterTyped == Spec => []TypeOK
<1>1. IndInv => TypeOK
    BY DEF IndInv
<1> QED BY <1>1, IndInvInvariant, PTL

\* RateLimiter::update admits at most max_outflow into either window, however
\* the weight of the previous window is truncated.
THEOREM WindowsBounded == Spec => []EachWindowBounded
<1>1. IndInv => EachWindowBounded
    BY DEF IndInv, EachWindowBounded
<1> QED BY <1>1, IndInvInvariant, PTL

\* cur_qty and prev_qty are the outflows their field comments name, for every
\* window length and every pattern of gaps between two calls of update.
THEOREM CountersMatchHistory == Spec => []QuantitiesMatchHistory
<1>1. IndInv => QuantitiesMatchHistory
    <2> SUFFICES ASSUME IndInv, Enabled(limiter)
                 PROVE  /\ limiter.window_start <= slot
                        /\ limiter.cur_qty =
                              OutflowIn(limiter.window_start,
                                        MinOf(slot, limiter.window_start + Window - 1))
                        /\ limiter.prev_qty =
                              OutflowIn(limiter.window_start - Window, limiter.window_start - 1)
        BY DEF QuantitiesMatchHistory
    <2>1. /\ slot \in Nat /\ limiter.window_start \in Nat /\ Window \in Nat /\ Window # 0
          /\ limiter.window_start <= slot
        BY OutflowAssumption DEF IndInv, TypeOK, RateLimiterRec, RateLimiterConfig, Window, Enabled
    <2> DEFINE last == MinOf(slot, limiter.window_start + Window - 1)
    <2>2. last \in 0..slot /\ (last = slot \/ last >= limiter.window_start + Window - 1)
        BY <2>1 DEF MinOf
    <2>3. Through(last) = Through(slot)
        BY <2>1, <2>2 DEF IndInv, NothingSince, Through
    <2>4. limiter.window_start - Window - 1 = (limiter.window_start - Window) - 1
        BY <2>1
    <2> HIDE DEF last
    <2> QED BY <2>1, <2>3, <2>4 DEF IndInv, Counters, OutflowIn, last
<1> QED BY <1>1, IndInvInvariant, PTL

\* The limiter's guarantee for every window, limit and scale: no closed range
\* [cur_slot - W, cur_slot] lets more than twice max_outflow through.
THEOREM AtMostDouble == Spec => []ClosedRangeAtMostDouble
<1>1. IndInv => ClosedRangeAtMostDouble
    <2> SUFFICES ASSUME IndInv, Enabled(limiter)
                 PROVE  OutflowIn(slot - Window, slot) <= 2 * MaxOutflow
        BY DEF ClosedRangeAtMostDouble
    <2>1. /\ slot \in Nat /\ slot \in 0..MaxSlot /\ MaxSlot \in Nat
          /\ limiter.window_start \in Nat /\ Window \in Nat /\ Window # 0
          /\ limiter.window_start <= slot /\ meter \in [0..MaxSlot -> Nat]
          /\ limiter.config.max_outflow \in Nat
        BY OutflowAssumption, WadAssumption
           DEF IndInv, TypeOK, RateLimiterRec, RateLimiterConfig, U64, Window, Enabled
    <2>2. MaxOutflow \in Nat
        BY <2>1, WadAssumption DEF MaxOutflow, FromU64
    <2>3. \A s, t \in Int : s <= t /\ t <= slot =>
              Through(s) \in Nat /\ Through(t) \in Nat /\ Through(s) <= Through(t)
        BY <2>1 DEF IndInv, MeterMonotone, Through
    <2>4. /\ limiter.window_start - Window - 1 \in Int /\ slot - Window - 1 \in Int
          /\ limiter.window_start - Window - 1 <= slot - Window - 1
          /\ slot - Window - 1 <= slot /\ limiter.window_start - 1 \in Int
          /\ limiter.window_start - 1 <= slot
        BY <2>1
    <2>5. /\ Through(limiter.window_start - Window - 1) <= Through(slot - Window - 1)
          /\ Through(limiter.window_start - Window - 1) \in Nat
          /\ Through(slot - Window - 1) \in Nat
          /\ Through(limiter.window_start - 1) \in Nat /\ Through(slot) \in Nat
        <3>1. /\ Through(limiter.window_start - Window - 1) <= Through(slot - Window - 1)
              /\ Through(limiter.window_start - Window - 1) \in Nat
              /\ Through(slot - Window - 1) \in Nat
            BY <2>3, <2>4
        <3>2. slot \in Int /\ slot <= slot
            BY <2>1
        <3>3. Through(limiter.window_start - 1) \in Nat /\ Through(slot) \in Nat
            BY <2>3, <2>4, <3>2
        <3> QED BY <3>1, <3>3
    <2>6. /\ limiter.cur_qty = Through(slot) - Through(limiter.window_start - 1)
          /\ limiter.prev_qty =
                Through(limiter.window_start - 1) - Through(limiter.window_start - Window - 1)
          /\ limiter.cur_qty <= MaxOutflow /\ limiter.prev_qty <= MaxOutflow
        BY DEF IndInv, Counters, EachWindowBounded
    <2> QED BY <2>2, <2>5, <2>6 DEF OutflowIn
<1> QED BY <1>1, IndInvInvariant, PTL

-----------------------------------------------------------------------------
(* The allowance that remaining_outflow reports.                           *)

\* What the counters say never exceeds the limit, at the present slot.
AllowanceInv == IndInv /\ NeverOverdrawn

\* An enabled limiter is typed, aligned and starts by now.
LEMMA EnabledFacts ==
    ASSUME IndInv, Enabled(limiter)
    PROVE  /\ limiter \in RateLimiterRec /\ slot \in Nat
           /\ limiter.config.window_duration # 0 /\ limiter.window_start <= slot
           /\ \E k \in Nat : limiter.window_start = k * limiter.config.window_duration
           /\ Window = limiter.config.window_duration /\ Window \in Nat /\ Window # 0
           /\ limiter.window_start \in Nat /\ limiter.cur_qty \in Nat /\ limiter.prev_qty \in Nat
           /\ MaxOutflow \in Nat /\ MaxOutflow = FromU64(limiter.config.max_outflow)
<1>1. limiter \in RateLimiterRec /\ slot \in Nat /\ limiter.window_start <= slot /\ Aligned
    BY OutflowAssumption DEF IndInv, TypeOK
<1>2. limiter.config.window_duration \in Nat /\ limiter.config.max_outflow \in Nat
    BY <1>1, WadAssumption DEF RateLimiterRec, RateLimiterConfig, U64
<1>3. FromU64(limiter.config.max_outflow) \in Nat
    BY <1>2, WadAssumption DEF FromU64
<1> QED BY <1>1, <1>2, <1>3 DEF Enabled, Window, MaxOutflow, Aligned, RateLimiterRec

\* A limiter with empty counters counts no outflow.
LEMMA EmptyOutflow ==
    ASSUME NEW l \in RateLimiterRec, NEW s \in Nat, l.config.window_duration # 0,
           l.window_start <= s, s < l.window_start + l.config.window_duration,
           l.prev_qty = 0, l.cur_qty = 0
    PROVE  CurrentOutflow(l, s) = 0
<1>w. PICK w \in Nat : w = l.config.window_duration /\ w # 0
    BY DEF RateLimiterRec, RateLimiterConfig
<1>d. PICK d : d = w - (s - l.window_start + 1)
    OBVIOUS
<1>1. d \in Nat /\ d < w /\ CurrentOutflow(l, s) = DecMul(Share(w, d), 0) + 0
    BY <1>w, <1>d, OutflowShare
<1>2. PICK p \in Nat : p = Share(w, d)
    BY <1>w, <1>1, ShareOrder
<1>3. p * 0 = 0 /\ 0 \div WAD = 0
    BY WadAssumption
<1>4. DecMul(p, 0) = 0
    BY <1>3 DEF DecMul
<1> QED BY <1>1, <1>2, <1>4

\* Two windows later both counters have been dropped.
LEMMA QuietFromInv == IndInv => QuietPeriodRestores
<1> SUFFICES ASSUME IndInv, Enabled(limiter)
             PROVE  RemainingOutflow(limiter, slot + 2 * Window) = MaxOutflow
    BY DEF QuietPeriodRestores
<1>1. /\ limiter \in RateLimiterRec /\ slot \in Nat /\ limiter.window_start <= slot
      /\ limiter.config.window_duration = Window /\ Window \in Nat /\ Window # 0
      /\ limiter.window_start \in Nat
      /\ MaxOutflow \in Nat /\ MaxOutflow = FromU64(limiter.config.max_outflow)
    BY EnabledFacts
<1>k. PICK k \in Nat : limiter.window_start = k * limiter.config.window_duration
    BY EnabledFacts
<1>w. PICK w \in Nat : w = Window /\ w # 0
    BY <1>1
<1>s. PICK s \in Nat : s = slot + 2 * Window
    BY <1>1
<1>r. PICK r : r = RateLimiterSlide(limiter, s)
    OBVIOUS
<1>2. limiter.window_start <= s /\ s >= limiter.window_start + w + w
    BY <1>1, <1>w, <1>s
<1>3. /\ r \in RateLimiterRec /\ r.config = limiter.config
      /\ r.window_start <= s /\ s < r.window_start + w
      /\ \/ r = limiter
         \/ r.window_start = limiter.window_start + w /\ r.prev_qty = limiter.cur_qty /\ r.cur_qty = 0
         \/ /\ r.window_start >= limiter.window_start + w + w
            /\ r.prev_qty = 0 /\ r.cur_qty = 0
    BY <1>1, <1>k, <1>w, <1>r, <1>2, SlideCases
<1>4. r.prev_qty = 0 /\ r.cur_qty = 0
    BY <1>1, <1>w, <1>2, <1>3
<1>5. CurrentOutflow(r, s) = 0
    BY <1>1, <1>w, <1>3, <1>4, EmptyOutflow
<1>6. RemainingOutflow(limiter, s) = MaxOutflow
    BY <1>1, <1>r, <1>5 DEF RemainingOutflow
<1> QED BY <1>6, <1>s

\* Once counted, a quantity is part of the outflow that update admitted it under.
LEMMA TakeOutAllowance ==
    ASSUME AllowanceInv, NEW qty \in Nat, TakeOut(qty)
    PROVE  NeverOverdrawn'
<1> SUFFICES ASSUME Enabled(limiter)'
             PROVE  (CurrentOutflow(RateLimiterSlide(limiter, slot), slot) <= MaxOutflow)'
    BY DEF NeverOverdrawn
<1>1. ASSUME ~Enabled(limiter) PROVE FALSE
    <2>1. limiter' = limiter
        BY <1>1 DEF TakeOut, Enabled, RateLimiterUpdate
    <2> QED BY <1>1, <2>1 DEF Enabled
<1>2. Enabled(limiter) /\ IndInv /\ slot' = slot
    BY <1>1 DEF AllowanceInv, TakeOut
<1>3. /\ limiter \in RateLimiterRec /\ slot \in Nat /\ limiter.window_start <= slot
      /\ limiter.config.window_duration # 0
      /\ MaxOutflow = FromU64(limiter.config.max_outflow) /\ MaxOutflow \in Nat
    BY <1>2, EnabledFacts
<1>w. PICK w \in Nat : w = limiter.config.window_duration /\ w # 0
    BY <1>3 DEF RateLimiterRec, RateLimiterConfig
<1>k. PICK k \in Nat : limiter.window_start = k * limiter.config.window_duration
    BY <1>2, EnabledFacts
<1>r. PICK r : r = RateLimiterSlide(limiter, slot)
    OBVIOUS
<1>4. /\ r \in RateLimiterRec /\ r.config = limiter.config
      /\ \E j \in Nat : r.window_start = j * w
      /\ r.window_start <= slot /\ slot < r.window_start + w
    BY <1>3, <1>w, <1>k, <1>r, SlideCases
<1>5. /\ limiter' = [r EXCEPT !.cur_qty = @ + qty]
      /\ CurrentOutflow(r, slot) + qty <= MaxOutflow
    BY <1>2, <1>3, <1>r DEF TakeOut, Enabled, RateLimiterUpdate, RateLimiterAllows
<1>l. PICK l : l = limiter'
    OBVIOUS
<1>6. /\ l \in RateLimiterRec /\ l.config = limiter.config
      /\ l.window_start = r.window_start /\ l.prev_qty = r.prev_qty
      /\ l.cur_qty = r.cur_qty + qty /\ r.cur_qty \in Nat /\ r.prev_qty \in Nat
      /\ r.window_start \in Nat
    BY <1>4, <1>5, <1>l DEF RateLimiterRec
<1>7. RateLimiterSlide(l, slot) = l
    <2>1. PICK j \in Nat : l.window_start = j * l.config.window_duration
        BY <1>4, <1>6, <1>w
    <2>2. PICK t : t = RateLimiterSlide(l, slot)
        OBVIOUS
    <2>3. /\ t.window_start <= slot
          /\ \/ t = l
             \/ t.window_start = l.window_start + w
             \/ t.window_start >= l.window_start + w + w
        BY <1>3, <1>4, <1>6, <1>w, <2>1, <2>2, SlideCases
    <2>4. t \in RateLimiterRec
        BY <1>3, <1>6, <2>2, SlideTyped
    <2>5. t.window_start \in Nat
        BY <2>4 DEF RateLimiterRec
    <2>6. t = l
        BY <1>3, <1>4, <1>6, <1>w, <2>3, <2>5
    <2> QED BY <2>2, <2>6
<1>8. CurrentOutflow(l, slot) = CurrentOutflow(r, slot) + qty
    <2>d. PICK d : d = w - (slot - r.window_start + 1)
        OBVIOUS
    <2>1. d \in Nat /\ d < w /\ CurrentOutflow(r, slot) = DecMul(Share(w, d), r.prev_qty) + r.cur_qty
        BY <1>3, <1>4, <1>w, <2>d, OutflowShare
    <2>2. CurrentOutflow(l, slot) = DecMul(Share(w, d), l.prev_qty) + l.cur_qty
        BY <1>3, <1>4, <1>6, <1>w, <2>d, OutflowShare
    <2>3. PICK p \in Nat : p = Share(w, d)
        BY <1>w, <2>1, ShareOrder
    <2>4. PICK m \in Nat : m = DecMul(p, r.prev_qty)
        BY <1>6, <2>3, DecMulNat
    <2> QED BY <1>6, <2>1, <2>2, <2>3, <2>4
<1>9. MaxOutflow' = MaxOutflow
    BY <1>6, <1>l DEF MaxOutflow
<1>10. CurrentOutflow(RateLimiterSlide(l, slot), slot) <= MaxOutflow
    BY <1>5, <1>7, <1>8
<1> QED BY <1>2, <1>9, <1>10, <1>l

\* A new limiter has counted nothing.
LEMMA FreshAllowance ==
    ASSUME NEW c \in RateLimiterConfig, c.window_duration # 0, NEW s \in Nat
    PROVE  CurrentOutflow(RateLimiterSlide(RateLimiterNew(c, s), s), s) = 0
<1>l. PICK l : l = RateLimiterNew(c, s)
    OBVIOUS
<1>1. /\ l \in RateLimiterRec /\ l.config = c /\ l.cur_qty = 0 /\ l.prev_qty = 0
      /\ l.window_start <= s
    BY <1>l, NewLimiter
<1>k. PICK k \in Nat : l.window_start = k * l.config.window_duration
    BY <1>l, <1>1, NewLimiter
<1>r. PICK r : r = RateLimiterSlide(l, s)
    OBVIOUS
<1>2. /\ r \in RateLimiterRec /\ r.config = l.config
      /\ r.window_start <= s /\ s < r.window_start + l.config.window_duration
      /\ r.prev_qty = 0 /\ r.cur_qty = 0
    BY <1>1, <1>k, <1>r, SlideCases
<1> QED BY <1>l, <1>1, <1>r, <1>2, EmptyOutflow

\* A limiter is not overdrawn at first.
LEMMA InitAllowance == Init => AllowanceInv
<1> SUFFICES ASSUME Init PROVE NeverOverdrawn
    BY InitIndInv DEF AllowanceInv
<1>1. IndInv
    BY InitIndInv
<1>2. PICK c \in Configs : limiter = RateLimiterNew(c, slot)
    BY DEF Init
<1>3. c \in RateLimiterConfig /\ slot \in Nat
    BY OutflowAssumption DEF Init
<1>4. limiter.config = c
    BY <1>2, <1>3, NewLimiter
<1>5. ASSUME Enabled(limiter)
      PROVE  CurrentOutflow(RateLimiterSlide(limiter, slot), slot) <= MaxOutflow
    <2>1. c.window_duration # 0 /\ MaxOutflow \in Nat
        BY <1>1, <1>4, <1>5, EnabledFacts
    <2>2. CurrentOutflow(RateLimiterSlide(limiter, slot), slot) = 0
        BY <1>2, <1>3, <2>1, FreshAllowance
    <2> QED BY <2>1, <2>2
<1> QED BY <1>5 DEF NeverOverdrawn

\* No step overdraws it.
LEMMA NextAllowance == AllowanceInv /\ [Next]_vars => AllowanceInv'
<1> SUFFICES ASSUME AllowanceInv, [Next]_vars PROVE NeverOverdrawn'
    BY NextIndInv DEF AllowanceInv
<1>1. IndInv /\ NeverOverdrawn /\ IndInv'
    BY NextIndInv DEF AllowanceInv
<1>2. ASSUME Tick PROVE NeverOverdrawn'
    <2> SUFFICES ASSUME Enabled(limiter)'
                 PROVE  (CurrentOutflow(RateLimiterSlide(limiter, slot), slot) <= MaxOutflow)'
        BY DEF NeverOverdrawn
    <2>1. limiter' = limiter /\ slot' = slot + 1 /\ Enabled(limiter)
        BY <1>2 DEF Tick, Enabled
    <2>2. PICK a : a = CurrentOutflow(RateLimiterSlide(limiter, slot), slot)
        OBVIOUS
    <2>3. PICK b : b = CurrentOutflow(RateLimiterSlide(limiter, slot + 1), slot + 1)
        OBVIOUS
    <2>4. a \in Nat /\ b \in Nat /\ b <= a
        <3>1. PICK k \in Nat : limiter.window_start = k * limiter.config.window_duration
            BY <1>1, <2>1, EnabledFacts
        <3> QED BY <1>1, <2>1, <2>2, <2>3, <3>1, EnabledFacts, OutflowFalls
    <2>5. a <= MaxOutflow /\ MaxOutflow \in Nat
        BY <1>1, <2>1, <2>2, EnabledFacts DEF NeverOverdrawn
    <2>6. MaxOutflow' = MaxOutflow
        BY <2>1 DEF MaxOutflow
    <2>7. b <= MaxOutflow
        BY <2>4, <2>5
    <2> QED BY <2>1, <2>3, <2>6, <2>7
<1>3. ASSUME NEW qty \in Quantities, TakeOut(qty) PROVE NeverOverdrawn'
    BY <1>3, TakeOutAllowance, OutflowAssumption
<1>4. ASSUME TakeRemaining PROVE NeverOverdrawn'
    <2>1. limiter \in RateLimiterRec /\ slot \in Nat
        BY <1>1, OutflowAssumption DEF IndInv, TypeOK
    <2>2. RemainingOutflow(limiter, slot) \in Nat
        BY <2>1, RemainingNat
    <2> QED BY <1>4, <2>2, TakeOutAllowance DEF TakeRemaining
<1>5. ASSUME NEW c \in Configs, Reconfigure(c) PROVE NeverOverdrawn'
    <2> SUFFICES ASSUME Enabled(limiter)'
                 PROVE  (CurrentOutflow(RateLimiterSlide(limiter, slot), slot) <= MaxOutflow)'
        BY DEF NeverOverdrawn
    <2>1. c \in RateLimiterConfig /\ slot \in Nat /\ slot' = slot /\ limiter' = RateLimiterNew(c, slot)
        BY <1>1, <1>5, OutflowAssumption DEF Reconfigure, IndInv, TypeOK
    <2>2. limiter'.config = c
        BY <2>1, NewLimiter
    <2>3. c.window_duration # 0
        BY <2>2 DEF Enabled
    <2>4. MaxOutflow' \in Nat
        <3>1. c.max_outflow \in Nat
            BY <2>1, WadAssumption DEF RateLimiterConfig, U64
        <3> QED BY <2>2, <3>1, WadAssumption DEF MaxOutflow, FromU64
    <2>5. CurrentOutflow(RateLimiterSlide(limiter', slot), slot) = 0
        BY <2>1, <2>3, FreshAllowance
    <2> QED BY <2>1, <2>4, <2>5
<1>6. ASSUME UNCHANGED vars PROVE NeverOverdrawn'
    BY <1>1, <1>6 DEF vars, NeverOverdrawn, Enabled, MaxOutflow
<1> QED BY <1>2, <1>3, <1>4, <1>5, <1>6 DEF Next

\* The limit is never overdrawn, in any reachable state.
LEMMA AllowanceInvariant == Spec => []AllowanceInv
    BY InitAllowance, NextAllowance, PTL DEF Spec

\* remaining_outflow never meets its "cur_outflow > max_outflow" case, and two
\* quiet windows give the whole allowance back, for every window and limit.
THEOREM AllowanceAlwaysSound == Spec => []AllowanceSound
<1>1. AllowanceInv => AllowanceSound
    BY QuietFromInv DEF AllowanceInv, AllowanceSound
<1> QED BY <1>1, AllowanceInvariant, PTL

\* A slot that passes never lowers what remaining_outflow reports, whether it
\* falls inside a window or begins one (_update's three cases).
THEOREM TimeOnlyRelaxes == Spec => TimeNeverTightens
<1>1. IndInv /\ [Next]_vars
         => [Tick => RemainingOutflow(limiter', slot') >= RemainingOutflow(limiter, slot)]_vars
    <2> SUFFICES ASSUME IndInv, Tick
                 PROVE  RemainingOutflow(limiter', slot') >= RemainingOutflow(limiter, slot)
        OBVIOUS
    <2>1. limiter' = limiter /\ slot' = slot + 1 /\ limiter \in RateLimiterRec /\ slot \in Nat
        BY OutflowAssumption DEF Tick, IndInv, TypeOK
    <2>2. CASE ~Enabled(limiter)
        <3>1. RemainingOutflow(limiter, slot + 1) = RemainingOutflow(limiter, slot)
            BY <2>2 DEF RemainingOutflow, Enabled
        <3>2. RemainingOutflow(limiter, slot) \in Nat
            BY <2>1, RemainingNat
        <3> QED BY <2>1, <3>1, <3>2
    <2>3. CASE Enabled(limiter)
        <3>1. PICK a : a = CurrentOutflow(RateLimiterSlide(limiter, slot), slot)
            OBVIOUS
        <3>2. PICK b : b = CurrentOutflow(RateLimiterSlide(limiter, slot + 1), slot + 1)
            OBVIOUS
        <3>3. a \in Nat /\ b \in Nat /\ b <= a
            <4>1. PICK k \in Nat : limiter.window_start = k * limiter.config.window_duration
                BY <2>3, EnabledFacts
            <4> QED BY <2>3, <3>1, <3>2, <4>1, EnabledFacts, OutflowFalls
        <3>4. PICK m \in Nat : m = FromU64(limiter.config.max_outflow)
            BY <2>3, EnabledFacts
        <3>5. /\ RemainingOutflow(limiter, slot) = IF a > m THEN 0 ELSE m - a
              /\ RemainingOutflow(limiter, slot + 1) = IF b > m THEN 0 ELSE m - b
            BY <2>3, <3>1, <3>2, <3>4 DEF RemainingOutflow, Enabled
        <3>6. (IF b > m THEN 0 ELSE m - b) >= (IF a > m THEN 0 ELSE m - a)
            BY <3>3, <3>4
        <3> QED BY <2>1, <3>5, <3>6
    <2> QED BY <2>2, <2>3
<1> QED BY <1>1, IndInvInvariant, PTL DEF Spec, TimeNeverTightens

-----------------------------------------------------------------------------
(* The span of one window.                                                 *)

(***************************************************************************)
(* Any W consecutive slots let strictly less than twice max_outflow        *)
(* through, as long as no window is longer than WAD = 10^18 slots.  With a *)
(* longer one prev_weight, truncated to WAD decimals, can be zero while    *)
(* part of the previous window still lies in the span.                     *)
(***************************************************************************)
THEOREM SpanBelowDouble ==
    ASSUME \A c \in Configs : c.window_duration <= WAD
    PROVE  Spec => []WindowSpanBelowDouble
<1>1. AllowanceInv => WindowSpanBelowDouble
    <2> SUFFICES ASSUME AllowanceInv, Enabled(limiter), MaxOutflow > 0
                 PROVE  OutflowIn(slot - Window + 1, slot) < 2 * MaxOutflow
        BY DEF WindowSpanBelowDouble
    <2>1. /\ IndInv /\ limiter \in RateLimiterRec /\ slot \in Nat /\ limiter.window_start <= slot
          /\ limiter.config.window_duration # 0 /\ limiter.config.window_duration = Window
          /\ limiter.prev_qty \in Nat /\ limiter.cur_qty \in Nat /\ limiter.window_start \in Nat
        BY EnabledFacts DEF AllowanceInv
    <2>w. PICK w \in Nat : w = Window /\ w # 0 /\ w <= WAD
        <3>1. limiter.config \in Configs
            BY DEF AllowanceInv, IndInv, TypeOK
        <3> QED BY <2>1, <3>1, EnabledFacts
    <2>m. PICK m \in Nat : m = MaxOutflow /\ m > 0
        BY <2>1, EnabledFacts
    <2>b. PICK b \in Nat : b = limiter.window_start
        BY <2>1
    <2>2. \A s, t \in Int : s <= t /\ t <= slot =>
              Through(s) \in Nat /\ Through(t) \in Nat /\ Through(s) <= Through(t)
        <3>1. slot \in 0..MaxSlot /\ MaxSlot \in Nat /\ meter \in [0..MaxSlot -> Nat]
            BY <2>1, OutflowAssumption DEF IndInv, TypeOK
        <3> QED BY <2>1, <3>1 DEF IndInv, MeterMonotone, Through
    <2>3. /\ limiter.cur_qty = Through(slot) - Through(b - 1)
          /\ limiter.prev_qty = Through(b - 1) - Through(b - w - 1)
          /\ limiter.cur_qty <= m /\ limiter.prev_qty <= m
        BY <2>1, <2>w, <2>m, <2>b DEF IndInv, Counters, EachWindowBounded
    <2>4. OutflowIn(slot - Window + 1, slot) = Through(slot) - Through(slot - w)
        <3>1. (slot - Window + 1) - 1 = slot - w
            BY <2>1, <2>w
        <3> QED BY <3>1 DEF OutflowIn
    <2>5. PICK now \in Nat : now = Through(slot)
        BY <2>1, <2>2
    <2>6. PICK before \in Nat : before = Through(b - 1)
        <3>1. b - 1 \in Int /\ b - 1 <= slot
            BY <2>1, <2>b
        <3> QED BY <2>2, <3>1
    <2>7. PICK cut \in Nat : cut = Through(slot - w)
        <3>1. slot - w \in Int /\ slot - w <= slot
            BY <2>1, <2>w
        <3> QED BY <2>2, <3>1
    <2>8. CASE slot >= b + w - 1
        <3>1. b - 1 \in Int /\ slot - w \in Int /\ b - 1 <= slot - w /\ slot - w <= slot
            BY <2>1, <2>w, <2>b, <2>8
        <3>2. before <= cut
            BY <2>2, <2>6, <2>7, <3>1
        <3> QED BY <2>m, <2>3, <2>4, <2>5, <2>6, <2>7, <3>2
    <2>9. CASE slot < b + w - 1
        <3>1. PICK early \in Nat : early = Through(b - w - 1) /\ early <= cut
            <4>1. b - w - 1 \in Int /\ slot - w \in Int /\ b - w - 1 <= slot - w /\ slot - w <= slot
                BY <2>1, <2>w, <2>b
            <4> QED BY <2>2, <2>7, <4>1
        <3>2. RateLimiterSlide(limiter, slot) = limiter
            <4>1. PICK k \in Nat : limiter.window_start = k * limiter.config.window_duration
                BY <2>1, EnabledFacts
            <4>2. PICK r : r = RateLimiterSlide(limiter, slot)
                OBVIOUS
            <4>3. /\ r.window_start <= slot
                  /\ \/ r = limiter
                     \/ r.window_start = limiter.window_start + w
                     \/ r.window_start >= limiter.window_start + w + w
                BY <2>1, <2>w, <4>1, <4>2, SlideCases
            <4>4. r \in RateLimiterRec
                BY <2>1, <4>2, SlideTyped
            <4>5. r.window_start \in Nat
                BY <4>4 DEF RateLimiterRec
            <4>6. r = limiter
                BY <2>1, <2>w, <2>b, <2>9, <4>3, <4>5
            <4> QED BY <4>2, <4>6
        <3>3. CurrentOutflow(limiter, slot) <= m
            BY <2>m, <3>2 DEF AllowanceInv, NeverOverdrawn
        <3>d. PICK d : d = w - (slot - b + 1)
            OBVIOUS
        <3>4. /\ d \in Nat /\ d < w /\ d >= 1
              /\ CurrentOutflow(limiter, slot) = DecMul(Share(w, d), limiter.prev_qty) + limiter.cur_qty
            <4>1. limiter.window_start <= slot /\ slot < limiter.window_start + w
                BY <2>1, <2>w, <2>b, <2>9
            <4>2. d >= 1
                BY <2>1, <2>w, <2>b, <2>9, <3>d
            <4> QED BY <2>1, <2>w, <2>b, <3>d, <4>1, <4>2, OutflowShare
        <3>5. PICK p \in Nat : p = Share(w, d) /\ p >= 1
            BY <2>w, <3>4, ShareOrder
        <3>6. ASSUME limiter.prev_qty = m, limiter.cur_qty = m PROVE FALSE
            <4>1. PICK n \in Nat : m = n * WAD
                <5>1. limiter.config.max_outflow \in Nat
                    BY <2>1, WadAssumption DEF RateLimiterRec, RateLimiterConfig, U64
                <5>2. m = limiter.config.max_outflow * WAD
                    BY <2>m DEF MaxOutflow, FromU64
                <5> QED BY <5>1, <5>2
            <4>2. WAD \in Nat /\ WAD # 0 /\ n >= 1
                BY <2>m, <4>1, WadAssumption
            <4>3. WAD <= m
                <5>1. 1 * WAD <= n * WAD
                    BY <4>2, TimesOrder
                <5> QED BY <4>1, <4>2, <5>1
            <4>4. WAD <= p * m /\ p * m \in Nat
                <5>1. 1 * m <= p * m
                    BY <3>5, TimesOrder
                <5> QED BY <4>2, <4>3, <5>1
            <4>5. WAD \div WAD <= (p * m) \div WAD /\ WAD \div WAD = 1
                BY <4>2, <4>4, DivOrder
            <4>6. DecMul(p, m) >= 1 /\ DecMul(p, m) \in Nat
                BY <3>5, <4>5, DecMulNat DEF DecMul
            <4> QED BY <3>3, <3>4, <3>5, <3>6, <4>6
        <3> QED BY <2>1, <2>m, <2>3, <2>4, <2>5, <2>6, <2>7, <3>1, <3>6
    <2> QED BY <2>1, <2>w, <2>b, <2>8, <2>9
<1> QED BY <1>1, AllowanceInvariant, PTL
=============================================================================
