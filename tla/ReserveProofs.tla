--------------------------- MODULE ReserveProofs ---------------------------
(***************************************************************************)
(* What the fixed-point arithmetic, the rate limiter and the calculations  *)
(* of reserves return, for every scale, width, price and configuration.    *)
(***************************************************************************)
EXTENDS Reserve, WellFoundedInduction, TLAPS

-----------------------------------------------------------------------------
(* Induction.                                                              *)

\* A set that holds zero and is closed under successors holds every number.
LEMMA NatSetInduction ==
    ASSUME NEW P \in SUBSET Nat, 0 \in P, \A n \in P : n + 1 \in P
    PROVE  \A n \in Nat : n \in P
<1>1. SUFFICES ASSUME Nat \ P # {} PROVE FALSE
    OBVIOUS
<1>2. \E m \in Nat \ P : \A y \in Nat \ P : ~(<<y, m>> \in OpToRel(<, Nat))
    BY <1>1, WFMin, NatLessThanWellFounded
<1>3. PICK m \in Nat \ P : \A y \in Nat \ P : ~(y < m)
    BY <1>2 DEF OpToRel
<1>4. m # 0 /\ m - 1 \in Nat
    BY <1>3
<1>5. m - 1 \in P
    BY <1>3, <1>4
<1> QED BY <1>3, <1>5

-----------------------------------------------------------------------------
(* Quotients and truncated products.                                       *)

(***************************************************************************)
(* Flooring to a window: the window's start is a multiple of W, at most    *)
(* the slot, and the slot lies inside the window.                          *)
(***************************************************************************)
LEMMA DivBounds ==
    ASSUME NEW n \in Nat, NEW w \in Nat, w # 0
    PROVE  /\ n \div w \in Nat
           /\ (n \div w) * w <= n
           /\ n < (n \div w) * w + w
    OBVIOUS

\* Multiples of w that are less than w apart in one direction are ordered.
LEMMA MultipleStep ==
    ASSUME NEW j \in Nat, NEW k \in Nat, NEW w \in Nat, w # 0
    PROVE  /\ j * w \in Nat
           /\ j * w < k * w + w => j * w <= k * w
           /\ j * w > k * w + w => j * w >= k * w + w + w
<1>1. j * w \in Nat /\ k * w \in Nat /\ k * w + w = (k + 1) * w
    OBVIOUS
<1>2. j <= k => j * w <= k * w
    OBVIOUS
<1>3. j >= k + 1 => j * w >= (k + 1) * w
    OBVIOUS
<1>4. j >= k + 2 => j * w >= (k + 2) * w
    OBVIOUS
<1>5. (k + 2) * w = k * w + w + w
    OBVIOUS
<1>6. j <= k + 1 => j * w <= (k + 1) * w
    OBVIOUS
<1> QED BY <1>1, <1>2, <1>3, <1>4, <1>5, <1>6

\* A truncated product of naturals is a natural.
LEMMA DecMulNat ==
    ASSUME NEW a \in Nat, NEW b \in Nat
    PROVE  DecMul(a, b) \in Nat
<1>1. a * b \in Nat
    OBVIOUS
<1> QED BY <1>1, WadAssumption DEF DecMul

\* A truncated product of integers is an integer.
LEMMA DecMulInt ==
    ASSUME NEW a \in Int, NEW b \in Int
    PROVE  DecMul(a, b) \in Int
<1>1. a * b \in Int
    OBVIOUS
<1> QED BY <1>1, WadAssumption DEF DecMul

\* A product is in the order of its factors.
LEMMA TimesOrder ==
    ASSUME NEW a \in Nat, NEW b \in Nat, NEW c \in Nat, a <= b
    PROVE  a * c <= b * c
<1>1. PICK d \in Nat : b = a + d
    <2>1. b - a \in Nat /\ b = a + (b - a)
        OBVIOUS
    <2> QED BY <2>1
<1>2. b * c = a * c + d * c /\ d * c \in Nat /\ a * c \in Nat
    BY <1>1
<1> QED BY <1>2

\* So is a quotient.
LEMMA DivOrder ==
    ASSUME NEW a \in Nat, NEW b \in Nat, NEW w \in Nat, w # 0, a <= b
    PROVE  a \div w <= b \div w
<1>1. PICK p \in Nat : p = a \div w /\ p * w <= a
    BY DivBounds
<1>2. PICK q \in Nat : q = b \div w /\ b < q * w + w
    BY DivBounds
<1>3. ASSUME p > q PROVE FALSE
    <2>1. (q + 1) * w <= p * w
        <3>1. q + 1 \in Nat /\ q + 1 <= p
            BY <1>3
        <3> QED BY <3>1, TimesOrder
    <2>2. (q + 1) * w = q * w + w /\ q * w \in Nat /\ p * w \in Nat
        OBVIOUS
    <2> QED BY <1>1, <1>2, <2>1, <2>2
<1> QED BY <1>1, <1>2, <1>3

\* A truncated product is in the order of its first factor, and a part of a
\* quantity is no more than the quantity.
LEMMA DecMulOrder ==
    ASSUME NEW a \in Nat, NEW b \in Nat, NEW c \in Nat, a <= b
    PROVE  DecMul(a, c) <= DecMul(b, c) /\ (b = WAD => DecMul(a, c) <= c)
<1>1. WAD \in Nat /\ WAD # 0 /\ a * c \in Nat /\ b * c \in Nat /\ a * c <= b * c
    BY TimesOrder, WadAssumption
<1>2. DecMul(a, c) <= DecMul(b, c)
    BY <1>1, DivOrder DEF DecMul
<1>3. DecMul(WAD, c) = c
    <2>1. WAD * c = c * WAD /\ c * WAD \in Nat
        BY <1>1
    <2>2. PICK q \in Nat : q = (c * WAD) \div WAD /\ q * WAD <= c * WAD /\ c * WAD < q * WAD + WAD
        BY <1>1, <2>1, DivBounds
    <2>3. q <= c
        <3>1. ASSUME q >= c + 1 PROVE FALSE
            <4>1. (c + 1) * WAD <= q * WAD /\ (c + 1) * WAD = c * WAD + WAD
                BY <1>1, <3>1, TimesOrder
            <4> QED BY <1>1, <2>1, <2>2, <4>1
        <3> QED BY <3>1
    <2>4. q >= c
        <3>1. ASSUME c >= q + 1 PROVE FALSE
            <4>1. (q + 1) * WAD <= c * WAD /\ (q + 1) * WAD = q * WAD + WAD
                BY <1>1, <3>1, TimesOrder
            <4> QED BY <1>1, <2>1, <2>2, <4>1
        <3> QED BY <3>1
    <2> QED BY <2>1, <2>2, <2>3, <2>4 DEF DecMul
<1> QED BY <1>2, <1>3

-----------------------------------------------------------------------------
(* What the operators of the limiter return.                               *)

\* A freshly made limiter has its type, is aligned and starts by now.
LEMMA NewLimiter ==
    ASSUME NEW c \in RateLimiterConfig, NEW s \in Nat
    PROVE  /\ RateLimiterNew(c, s) \in RateLimiterRec
           /\ RateLimiterNew(c, s).config = c
           /\ RateLimiterNew(c, s).cur_qty = 0
           /\ RateLimiterNew(c, s).prev_qty = 0
           /\ c.window_duration # 0 =>
                 /\ RateLimiterNew(c, s).window_start <= s
                 /\ \E k \in Nat : RateLimiterNew(c, s).window_start = k * c.window_duration
<1> DEFINE w == c.window_duration
<1>1. w \in Nat
    BY DEF RateLimiterConfig
<1>2. CASE w = 0
    BY <1>1, <1>2 DEF RateLimiterNew, RateLimiterRec
<1>3. CASE w # 0
    <2>1. s \div w \in Nat /\ (s \div w) * w <= s
        BY <1>1, <1>3, DivBounds
    <2>2. (s \div w) * w \in Nat
        BY <1>1, <2>1
    <2>3. RateLimiterNew(c, s).window_start = (s \div w) * w
        BY <1>3 DEF RateLimiterNew, WindowOf
    <2> QED BY <1>1, <1>3, <2>1, <2>2, <2>3 DEF RateLimiterNew, RateLimiterRec, WindowOf
<1> QED BY <1>2, <1>3

(***************************************************************************)
(* What _update returns: the same limiter, which then still covers slot,   *)
(* or one whose window starts one length, or at least two, further on.     *)
(***************************************************************************)
LEMMA SlideCases ==
    ASSUME NEW l \in RateLimiterRec, NEW s \in Nat, l.config.window_duration # 0, l.window_start <= s,
           NEW k \in Nat, l.window_start = k * l.config.window_duration
    PROVE  LET r == RateLimiterSlide(l, s)
               w == l.config.window_duration
           IN  /\ r \in RateLimiterRec /\ r.config = l.config
               /\ \E j \in Nat : r.window_start = j * w
               /\ r.window_start <= s /\ s < r.window_start + w
               /\ \/ r = l
                  \/ /\ r.window_start = l.window_start + w
                     /\ r.prev_qty = l.cur_qty /\ r.cur_qty = 0
                  \/ /\ r.window_start >= l.window_start + w + w
                     /\ r.prev_qty = 0 /\ r.cur_qty = 0
<1> DEFINE w == l.config.window_duration
           j == s \div w
           r == RateLimiterSlide(l, s)
<1>1. w \in Nat /\ w # 0 /\ l.window_start \in Nat /\ l.cur_qty \in Nat /\ l.prev_qty \in Nat
    BY DEF RateLimiterRec, RateLimiterConfig
<1>2. j \in Nat /\ j * w <= s /\ s < j * w + w
    BY <1>1, DivBounds
<1>3. /\ j * w \in Nat
      /\ j * w < k * w + w => j * w <= k * w
      /\ j * w > k * w + w => j * w >= k * w + w + w
    BY <1>1, <1>2, MultipleStep
<1>4. WindowOf(l.config, s) = j * w
    BY DEF WindowOf
<1> HIDE DEF j
<1>5. CASE j * w < l.window_start + w
    <2>1. r = l
        BY <1>4, <1>5 DEF RateLimiterSlide
    <2> QED BY <1>1, <1>2, <1>3, <1>5, <2>1
<1>6. CASE ~(j * w < l.window_start + w)
    <2>1. r = [config |-> l.config,
                 prev_qty |-> IF j * w = l.window_start + w THEN l.cur_qty ELSE 0,
                 window_start |-> j * w, cur_qty |-> 0]
        BY <1>4, <1>6 DEF RateLimiterSlide
    <2>2. /\ r.window_start = j * w /\ r.cur_qty = 0 /\ r.config = l.config
          /\ r.prev_qty = IF j * w = l.window_start + w THEN l.cur_qty ELSE 0
          /\ r \in RateLimiterRec
        BY <1>1, <1>3, <2>1 DEF RateLimiterRec
    <2> QED BY <1>1, <1>2, <1>3, <1>6, <2>2
<1> QED BY <1>5, <1>6

\* Wherever its window stands, a limiter slid to a slot has its type.
LEMMA SlideTyped ==
    ASSUME NEW l \in RateLimiterRec, NEW s \in Nat, l.config.window_duration # 0
    PROVE  RateLimiterSlide(l, s) \in RateLimiterRec /\ RateLimiterSlide(l, s).config = l.config
<1>1. l.config.window_duration \in Nat /\ l.cur_qty \in Nat
    BY DEF RateLimiterRec, RateLimiterConfig
<1>2. s \div l.config.window_duration \in Nat
    BY <1>1, DivBounds
<1>3. WindowOf(l.config, s) \in Nat
    BY <1>1, <1>2 DEF WindowOf
<1> QED BY <1>1, <1>3 DEF RateLimiterSlide, RateLimiterRec

\* Inside its window a limiter's weighted outflow is at least cur_qty.
LEMMA OutflowCoversCurrent ==
    ASSUME NEW l \in RateLimiterRec, NEW s \in Nat, l.config.window_duration # 0,
           l.window_start <= s, s < l.window_start + l.config.window_duration
    PROVE  CurrentOutflow(l, s) \in Nat /\ l.cur_qty <= CurrentOutflow(l, s)
<1> DEFINE w == l.config.window_duration
           f == FromU64(w - (s - l.window_start + 1))
<1>1. w \in Nat /\ w # 0 /\ l.window_start \in Nat /\ l.cur_qty \in Nat /\ l.prev_qty \in Nat
    BY DEF RateLimiterRec, RateLimiterConfig
<1>2. w - (s - l.window_start + 1) \in Nat
    BY <1>1
<1>3. f \in Nat
    BY <1>2, WadAssumption DEF FromU64
<1> HIDE DEF f
<1>4. f \div w \in Nat
    BY <1>1, <1>3
<1>5. DecMul(f \div w, l.prev_qty) \in Nat
    BY <1>1, <1>4, DecMulNat
<1>6. CurrentOutflow(l, s) = DecMul(f \div w, l.prev_qty) + l.cur_qty
    BY DEF CurrentOutflow, f
<1> QED BY <1>1, <1>5, <1>6

\* remaining_outflow is a natural number, whatever slot it is asked at.
LEMMA RemainingNat ==
    ASSUME NEW l \in RateLimiterRec, NEW s \in Nat
    PROVE  RemainingOutflow(l, s) \in Nat
<1> DEFINE w == l.config.window_duration
           r == RateLimiterSlide(l, s)
           f == FromU64(w - (s - r.window_start + 1))
<1>1. /\ w \in Nat /\ l.config.max_outflow \in Nat /\ U64_MAX \in Nat /\ WAD \in Nat \ {0}
      /\ l.config \in RateLimiterConfig
    BY WadAssumption DEF RateLimiterRec, RateLimiterConfig, U64
<1>2. CASE w = 0
    BY <1>1, <1>2 DEF RemainingOutflow, FromU64
<1>3. CASE w # 0
    <2>1. r \in RateLimiterRec /\ r.config = l.config
        BY <1>1, <1>3, SlideTyped
    <2>2. r.window_start \in Nat /\ r.cur_qty \in Nat /\ r.prev_qty \in Nat
        BY <2>1 DEF RateLimiterRec
    <2>3. f \in Int
        BY <1>1, <2>2 DEF FromU64
    <2> HIDE DEF f
    <2> DEFINE weight == f \div w
    <2>4. weight \in Int
        BY <1>1, <1>3, <2>3
    <2>5. CurrentOutflow(r, s) = DecMul(weight, r.prev_qty) + r.cur_qty
        BY <2>1 DEF CurrentOutflow, f
    <2> HIDE DEF weight, r
    <2>6. DecMul(weight, r.prev_qty) \in Int
        <3>1. r.prev_qty \in Int
            BY <2>2
        <3> QED BY <2>4, <3>1, DecMulInt
    <2>7. CurrentOutflow(r, s) \in Int
        BY <2>2, <2>5, <2>6
    <2>8. FromU64(l.config.max_outflow) \in Nat
        BY <1>1 DEF FromU64
    <2> QED BY <1>3, <2>7, <2>8 DEF RemainingOutflow, r
<1> QED BY <1>2, <1>3

\* update leaves a limiter behind when the quantity is a natural number.
LEMMA UpdateTyped ==
    ASSUME NEW l \in RateLimiterRec, NEW s \in Nat, NEW qty \in Nat
    PROVE  RateLimiterUpdate(l, s, qty) \in RateLimiterRec
<1>1. CASE l.config.window_duration = 0
    BY <1>1 DEF RateLimiterUpdate
<1>2. CASE l.config.window_duration # 0
    <2>1. RateLimiterSlide(l, s) \in RateLimiterRec
        BY <1>2, SlideTyped
    <2> QED BY <1>2, <2>1 DEF RateLimiterUpdate, RateLimiterRec
<1> QED BY <1>1, <1>2

-----------------------------------------------------------------------------
(* The outflow a limiter counts, as time passes.                           *)

\* the weight of the previous window when d slots of the current one are to come
Share(w, d) == FromU64(d) \div w

\* A share grows with its part and is at most the whole.
LEMMA ShareOrder ==
    ASSUME NEW w \in Nat, w # 0, NEW d \in Nat, NEW e \in Nat, d <= e, e <= w
    PROVE  /\ Share(w, d) \in Nat /\ Share(w, e) \in Nat
           /\ Share(w, d) <= Share(w, e) /\ Share(w, e) <= WAD
           /\ w <= WAD /\ d >= 1 => Share(w, d) >= 1
<1>1. WAD \in Nat /\ d * WAD \in Nat /\ e * WAD \in Nat /\ w * WAD \in Nat
    BY WadAssumption
<1>2. d * WAD <= e * WAD /\ e * WAD <= w * WAD
    BY <1>1, TimesOrder
<1>3. PICK p \in Nat, q \in Nat, u \in Nat :
          /\ p = (d * WAD) \div w /\ q = (e * WAD) \div w /\ u = (w * WAD) \div w
          /\ p <= q /\ q <= u
    <2>1. (d * WAD) \div w \in Nat /\ (e * WAD) \div w \in Nat /\ (w * WAD) \div w \in Nat
        BY <1>1, DivBounds
    <2>2. (d * WAD) \div w <= (e * WAD) \div w /\ (e * WAD) \div w <= (w * WAD) \div w
        BY <1>1, <1>2, DivOrder
    <2> QED BY <2>1, <2>2
<1>4. u <= WAD
    <2>1. u * w <= w * WAD
        BY <1>1, <1>3, DivBounds
    <2>2. ASSUME u >= WAD + 1 PROVE FALSE
        <3>1. (WAD + 1) * w <= u * w /\ (WAD + 1) * w = w * WAD + w /\ u * w \in Nat
            BY <1>1, <2>2, TimesOrder
        <3> QED BY <1>1, <2>1, <3>1
    <2> QED BY <1>1, <2>2
<1>5. ASSUME w <= WAD, d >= 1 PROVE p >= 1
    <2>1. w <= d * WAD
        <3>1. 1 * WAD <= d * WAD
            BY <1>1, <1>5, TimesOrder
        <3> QED BY <1>1, <1>5, <3>1
    <2>2. d * WAD < p * w + w
        BY <1>1, <1>3, DivBounds
    <2>3. p = 0 => p * w = 0
        OBVIOUS
    <2> QED BY <1>1, <2>1, <2>2, <2>3
<1> QED BY <1>1, <1>3, <1>4, <1>5 DEF Share, FromU64

\* current_outflow in terms of the slots to come.
LEMMA OutflowShare ==
    ASSUME NEW l \in RateLimiterRec, NEW s \in Nat, l.config.window_duration # 0,
           l.window_start <= s, s < l.window_start + l.config.window_duration,
           NEW d, d = l.config.window_duration - (s - l.window_start + 1)
    PROVE  /\ d \in Nat /\ d < l.config.window_duration
           /\ CurrentOutflow(l, s) =
                 DecMul(Share(l.config.window_duration, d), l.prev_qty) + l.cur_qty
<1>1. l.config.window_duration \in Nat /\ l.window_start \in Nat
    BY DEF RateLimiterRec, RateLimiterConfig
<1>2. d \in Nat /\ d < l.config.window_duration
    BY <1>1
<1> QED BY <1>2 DEF CurrentOutflow, Share

\* Only one window holds a slot.
LEMMA OneWindow ==
    ASSUME NEW i \in Nat, NEW j \in Nat, NEW w \in Nat, w # 0, NEW s \in Nat,
           i * w <= s, s < i * w + w, j * w <= s, s < j * w + w
    PROVE  i * w = j * w
<1>1. i * w \in Nat /\ j * w \in Nat
    OBVIOUS
<1>2. i * w < j * w + w /\ j * w < i * w + w
    BY <1>1
<1>3. i * w <= j * w /\ j * w <= i * w
    BY <1>2, MultipleStep
<1> QED BY <1>1, <1>3

(***************************************************************************)
(* _update called a slot later gives the same limiter, or, when the slot   *)
(* begins a window, one whose previous window is the one just ended.       *)
(***************************************************************************)
LEMMA SlideOn ==
    ASSUME NEW l \in RateLimiterRec, NEW s \in Nat, l.config.window_duration # 0, l.window_start <= s,
           NEW k \in Nat, l.window_start = k * l.config.window_duration,
           NEW r, r = RateLimiterSlide(l, s), NEW t, t = RateLimiterSlide(l, s + 1)
    PROVE  \/ t = r /\ s + 1 < r.window_start + l.config.window_duration
           \/ /\ s + 1 = r.window_start + l.config.window_duration
              /\ t.window_start = s + 1 /\ t.prev_qty = r.cur_qty /\ t.cur_qty = 0
<1>w. PICK w \in Nat : w = l.config.window_duration /\ w # 0
    BY DEF RateLimiterRec, RateLimiterConfig
<1>1. PICK i \in Nat :
         /\ r \in RateLimiterRec /\ r.config = l.config /\ r.window_start = i * w
         /\ i * w <= s /\ s < i * w + w
         /\ \/ r = l
            \/ /\ r.window_start = l.window_start + w
               /\ r.prev_qty = l.cur_qty /\ r.cur_qty = 0
            \/ /\ r.window_start >= l.window_start + w + w
               /\ r.prev_qty = 0 /\ r.cur_qty = 0
    BY <1>w, SlideCases
<1>2. PICK j \in Nat :
         /\ t \in RateLimiterRec /\ t.config = l.config /\ t.window_start = j * w
         /\ j * w <= s + 1 /\ s + 1 < j * w + w
         /\ \/ t = l
            \/ /\ t.window_start = l.window_start + w
               /\ t.prev_qty = l.cur_qty /\ t.cur_qty = 0
            \/ /\ t.window_start >= l.window_start + w + w
               /\ t.prev_qty = 0 /\ t.cur_qty = 0
    <2>1. s + 1 \in Nat /\ l.window_start <= s + 1
        BY DEF RateLimiterRec
    <2> QED BY <1>w, <2>1, SlideCases
<1>3. i * w \in Nat /\ j * w \in Nat /\ l.window_start \in Nat
    BY DEF RateLimiterRec
<1>4. CASE s + 1 < i * w + w
    <2>1. i * w = j * w
        <3>1. i * w <= s + 1 /\ s + 1 \in Nat
            BY <1>1, <1>3
        <3> QED BY <1>w, <1>2, <1>4, <3>1, OneWindow
    <2>2. r.window_start = t.window_start /\ r.config = t.config
        BY <1>1, <1>2, <2>1
    <2>3. r.prev_qty = t.prev_qty /\ r.cur_qty = t.cur_qty
        BY <1>w, <1>1, <1>2, <1>3, <2>2
    <2>4. t = r
        BY <1>1, <1>2, <2>2, <2>3 DEF RateLimiterRec
    <2> QED BY <1>w, <1>1, <1>4, <2>4
<1>5. CASE s + 1 = i * w + w
    <2>1. j * w = i * w + w
        <3>1. PICK h \in Nat : h = i + 1
            OBVIOUS
        <3>2. h * w = i * w + w
            BY <3>1
        <3>3. h * w <= s + 1 /\ s + 1 < h * w + w /\ s + 1 \in Nat
            BY <1>w, <1>3, <1>5, <3>2
        <3> QED BY <1>w, <1>2, <3>2, <3>3, OneWindow
    <2>2. t.window_start = s + 1 /\ t # l /\ t.cur_qty = 0
        BY <1>1, <1>2, <1>3, <1>5, <2>1
    <2>3. t.prev_qty = r.cur_qty
        BY <1>w, <1>1, <1>2, <1>3, <2>1, <2>2
    <2> QED BY <1>w, <1>1, <1>5, <2>2, <2>3
<1>6. s + 1 <= i * w + w
    BY <1>w, <1>1, <1>3
<1> QED BY <1>w, <1>3, <1>4, <1>5, <1>6

(***************************************************************************)
(* Time alone never adds to the outflow that a limiter counts: inside a    *)
(* window the weight of the previous one falls, and at a boundary what was *)
(* counted in full becomes a part.                                         *)
(***************************************************************************)
LEMMA OutflowFalls ==
    ASSUME NEW l \in RateLimiterRec, NEW s \in Nat, l.config.window_duration # 0, l.window_start <= s,
           NEW k \in Nat, l.window_start = k * l.config.window_duration
    PROVE  /\ CurrentOutflow(RateLimiterSlide(l, s), s) \in Nat
           /\ CurrentOutflow(RateLimiterSlide(l, s + 1), s + 1) \in Nat
           /\ CurrentOutflow(RateLimiterSlide(l, s + 1), s + 1)
                 <= CurrentOutflow(RateLimiterSlide(l, s), s)
<1>w. PICK w \in Nat : w = l.config.window_duration /\ w # 0
    BY DEF RateLimiterRec, RateLimiterConfig
<1>1. PICK r : /\ r = RateLimiterSlide(l, s) /\ r \in RateLimiterRec /\ r.config = l.config
               /\ r.window_start <= s /\ s < r.window_start + w
    BY <1>w, SlideCases
<1>2. PICK t : /\ t = RateLimiterSlide(l, s + 1) /\ t \in RateLimiterRec /\ t.config = l.config
               /\ t.window_start <= s + 1 /\ s + 1 < t.window_start + w
    <2>1. s + 1 \in Nat /\ l.window_start <= s + 1
        BY DEF RateLimiterRec
    <2> QED BY <1>w, <2>1, SlideCases
<1>3. /\ r.config.window_duration = w /\ t.config.window_duration = w
      /\ r.prev_qty \in Nat /\ r.cur_qty \in Nat /\ r.window_start \in Nat
      /\ t.prev_qty \in Nat /\ t.cur_qty \in Nat /\ s + 1 \in Nat
    BY <1>w, <1>1, <1>2 DEF RateLimiterRec
<1>4. CurrentOutflow(r, s) \in Nat /\ r.cur_qty <= CurrentOutflow(r, s)
      /\ CurrentOutflow(t, s + 1) \in Nat
    BY <1>w, <1>1, <1>2, <1>3, OutflowCoversCurrent
<1>5. PICK d : d = w - (s - r.window_start + 1)
    OBVIOUS
<1>6. d \in Nat /\ d < w /\ CurrentOutflow(r, s) = DecMul(Share(w, d), r.prev_qty) + r.cur_qty
    BY <1>w, <1>1, <1>3, <1>5, OutflowShare
<1>7. PICK e : e = w - ((s + 1) - t.window_start + 1)
    OBVIOUS
<1>8. e \in Nat /\ e < w /\ CurrentOutflow(t, s + 1) = DecMul(Share(w, e), t.prev_qty) + t.cur_qty
    BY <1>w, <1>2, <1>3, <1>7, OutflowShare
<1>9. \/ t = r /\ s + 1 < r.window_start + w
      \/ /\ s + 1 = r.window_start + w
         /\ t.window_start = s + 1 /\ t.prev_qty = r.cur_qty /\ t.cur_qty = 0
    BY <1>w, <1>1, <1>2, SlideOn
<1>10. ASSUME t = r PROVE CurrentOutflow(t, s + 1) <= CurrentOutflow(r, s)
    <2>1. e <= d
        BY <1>3, <1>5, <1>7, <1>10
    <2>2. PICK p \in Nat, q \in Nat : p = Share(w, e) /\ q = Share(w, d) /\ p <= q
        BY <1>w, <1>6, <1>8, <2>1, ShareOrder
    <2>3. DecMul(p, r.prev_qty) <= DecMul(q, r.prev_qty)
        BY <1>3, <2>2, DecMulOrder
    <2>4. DecMul(p, r.prev_qty) \in Nat /\ DecMul(q, r.prev_qty) \in Nat
        BY <1>3, <2>2, DecMulNat
    <2> QED BY <1>3, <1>6, <1>8, <1>10, <2>2, <2>3, <2>4
<1>11. ASSUME t.prev_qty = r.cur_qty, t.cur_qty = 0
       PROVE  CurrentOutflow(t, s + 1) <= CurrentOutflow(r, s)
    <2>1. PICK p \in Nat : p = Share(w, e) /\ p <= WAD
        BY <1>w, <1>8, ShareOrder
    <2>2. DecMul(p, r.cur_qty) <= r.cur_qty
        BY <1>3, <2>1, DecMulOrder, WadAssumption
    <2>3. DecMul(p, r.cur_qty) \in Nat
        BY <1>3, <2>1, DecMulNat
    <2> QED BY <1>3, <1>4, <1>8, <1>11, <2>1, <2>2, <2>3
<1> QED BY <1>1, <1>2, <1>4, <1>9, <1>10, <1>11

-----------------------------------------------------------------------------
(* Conversions.                                                            *)

\* Conversions of a natural number are natural numbers.
LEMMA ConversionsNat ==
    ASSUME NEW n \in Nat
    PROVE  /\ FromU64(n) \in Nat /\ TryFloor(n) \in Nat /\ TryCeil(n) \in Nat
           /\ TryRound(n) \in Nat /\ FromPercent(n) \in Nat /\ FromBps(n) \in Nat
<1>1. WAD \in Nat /\ WAD >= 1 /\ PercentsPerOne \in Nat /\ PercentsPerOne >= 1
      /\ BpsPerOne \in Nat /\ BpsPerOne >= 1
    BY WadAssumption
<1>2. WAD \div PercentsPerOne \in Nat /\ WAD \div BpsPerOne \in Nat /\ WAD \div 2 \in Nat
    BY <1>1
<1>3. FromU64(n) \in Nat /\ FromPercent(n) \in Nat /\ FromBps(n) \in Nat
    BY <1>1, <1>2 DEF FromU64, FromPercent, FromBps
<1>4. TryFloor(n) \in Nat
    BY <1>1 DEF TryFloor
<1>5. WAD - 1 + n \in Nat /\ (WAD \div 2) + n \in Nat
    BY <1>1, <1>2
<1>6. TryCeil(n) \in Nat /\ TryRound(n) \in Nat
    BY <1>1, <1>5 DEF TryCeil, TryRound
<1> QED BY <1>3, <1>4, <1>6

\* Dividing by a positive number gives a natural number.
LEMMA DecDivNat ==
    ASSUME NEW a \in Nat, NEW b \in Nat, b > 0
    PROVE  DecDiv(a, b) \in Nat
<1>1. a * WAD \in Nat
    BY WadAssumption
<1> QED BY <1>1 DEF DecDiv

\* A whole number of tokens survives the round trip through wads.
LEMMA FloorOfWhole ==
    ASSUME NEW n \in Nat
    PROVE  TryFloor(FromU64(n)) = n
<1>1. WAD \in Nat /\ WAD >= 1 /\ n * WAD \in Nat
    BY WadAssumption
<1>2. (n * WAD) \div WAD \in Nat /\ ((n * WAD) \div WAD) * WAD <= n * WAD
      /\ n * WAD < ((n * WAD) \div WAD) * WAD + WAD
    BY <1>1, DivBounds
<1> DEFINE q == (n * WAD) \div WAD
<1> HIDE DEF q
<1>3. q \in Nat /\ q * WAD <= n * WAD /\ n * WAD < q * WAD + WAD
    BY <1>2 DEF q
<1>4. q * WAD + WAD = (q + 1) * WAD
    BY <1>1, <1>3
<1>5. q >= n + 1 => q * WAD >= (n + 1) * WAD
    BY <1>1, <1>3
<1>6. n >= q + 1 => n * WAD >= (q + 1) * WAD
    BY <1>1, <1>3
<1>7. (n + 1) * WAD = n * WAD + WAD
    BY <1>1
<1>8. q = n
    BY <1>1, <1>3, <1>4, <1>5, <1>6, <1>7
<1> QED BY <1>8 DEF TryFloor, FromU64, q

-----------------------------------------------------------------------------
(* Reserves.                                                               *)

\* The fields of a packed reserve are natural numbers.
LEMMA ReserveNat ==
    ASSUME NEW res \in ReserveRec
    PROVE  /\ res.available_amount \in Nat /\ res.borrowed_amount_wads \in Nat
           /\ res.accumulated_protocol_fees_wads \in Nat /\ res.mint_total_supply \in Nat
           /\ res.market_price \in Nat /\ res.smoothed_market_price \in Nat
           /\ PriceUpper(res) \in Nat /\ PriceLower(res) \in Nat
<1> QED BY WadAssumption DEF ReserveRec, U64, U128, PriceUpper, PriceLower, MaxOf, MinOf

\* A redemption pays a natural number of tokens when there is an exchange rate.
LEMMA LiquidityForNat ==
    ASSUME NEW res, HasExchangeRate(res), NEW c \in Nat
    PROVE  LiquidityFor(res, c) \in Nat
<1>1. ExchangeRate(res) \in Nat /\ ExchangeRate(res) > 0
    BY WadAssumption DEF HasExchangeRate
<1>2. FromU64(c) \in Nat
    BY ConversionsNat
<1>3. CollateralToLiquidity(res, FromU64(c)) \in Nat
    BY <1>1, <1>2, DecDivNat DEF CollateralToLiquidity
<1> QED BY <1>3, ConversionsNat DEF LiquidityFor

\* Liquidity, and collateral for it, are natural numbers of wads.
LEMMA LiquidityToCollateralNat ==
    ASSUME NEW res, HasExchangeRate(res), NEW amount \in Nat
    PROVE  /\ LiquidityToCollateral(res, amount) \in Nat
           /\ TryFloor(LiquidityToCollateral(res, amount)) \in Nat
<1>1. ExchangeRate(res) \in Nat
    BY WadAssumption DEF HasExchangeRate
<1>2. LiquidityToCollateral(res, amount) \in Nat
    BY <1>1, DecMulNat DEF LiquidityToCollateral
<1> QED BY <1>2, ConversionsNat

\* The dollar value a limiter is charged with is a natural number.
LEMMA ValueNat ==
    ASSUME NEW res \in ReserveRec, NEW amount \in Nat
    PROVE  MarketValueUpperBound(res, amount) \in Nat
<1> QED BY ReserveNat, DecMulNat DEF MarketValueUpperBound

\* So is the number of tokens a dollar amount buys at the upper price.
LEMMA UsdToLiquidityNat ==
    ASSUME NEW res \in ReserveRec, NEW quote \in Nat,
           NEW tokens \in UsdToLiquidityLowerBound(res, quote)
    PROVE  tokens \in Nat
<1>1. PriceUpper(res) \in Nat
    BY ReserveNat
<1>2. PriceUpper(res) > 0 /\ tokens = DecDiv(quote, PriceUpper(res))
    BY DEF UsdToLiquidityLowerBound, Result
<1> QED BY <1>1, <1>2, DecDivNat

\* calculate_fees returns natural numbers.
LEMMA FeesNat ==
    ASSUME NEW cfg \in ReserveConfig, NEW amount \in Nat, NEW fee_wad \in Nat,
           NEW inclusive \in BOOLEAN, NEW f \in CalculateFees(cfg, amount, fee_wad, inclusive)
    PROVE  f[1] \in Nat /\ f[2] \in Nat
<1>1. CASE fee_wad = 0 \/ amount = 0
    BY <1>1 DEF CalculateFees
<1>2. CASE ~(fee_wad = 0 \/ amount = 0)
    <2> DEFINE host    == FromPercent(cfg.host_fee_percentage)
               rate    == IF inclusive THEN DecDiv(fee_wad, fee_wad + WAD) ELSE fee_wad
               minimum == IF host > 0 THEN 2 ELSE 1
               fee     == MaxOf(DecMul(amount, rate), FromU64(minimum))
    <2>1. f = <<TryRound(fee), IF host > 0 THEN MaxOf(TryRound(DecMul(fee, host)), 1) ELSE 0>>
        BY <1>2 DEF CalculateFees, Result
    <2>2. host \in Nat
        BY ConversionsNat DEF ReserveConfig
    <2>3. rate \in Nat
        <3>1. fee_wad + WAD \in Nat /\ fee_wad + WAD > 0
            BY WadAssumption
        <3> QED BY <3>1, DecDivNat
    <2>4. minimum \in Nat
        OBVIOUS
    <2> HIDE DEF host, rate, minimum
    <2>5. DecMul(amount, rate) \in Nat /\ FromU64(minimum) \in Nat
        BY <2>3, <2>4, DecMulNat, ConversionsNat
    <2>6. fee \in Nat
        BY <2>5 DEF MaxOf
    <2> HIDE DEF fee
    <2>7. TryRound(fee) \in Nat /\ TryRound(DecMul(fee, host)) \in Nat
        BY <2>2, <2>6, DecMulNat, ConversionsNat
    <2> QED BY <2>1, <2>7 DEF MaxOf
<1> QED BY <1>1, <1>2

(***************************************************************************)
(* What calculate_borrow promises: the tokens the borrower receives and    *)
(* the fee are together the whole tokens of the borrowed amount, whether   *)
(* the fee comes on top of an exact amount or out of the largest possible. *)
(***************************************************************************)
LEMMA BorrowSplit ==
    ASSUME NEW cfg \in ReserveConfig, NEW res \in ReserveRec, NEW amount \in Nat,
           NEW value \in Nat, NEW capacity \in Nat,
           NEW terms \in CalculateBorrow(cfg, res, amount, value, capacity)
    PROVE  /\ terms.borrow_amount \in Nat /\ terms.receive_amount \in Nat
           /\ terms.borrow_fee \in Nat /\ terms.host_fee \in Nat
           /\ terms.receive_amount + terms.borrow_fee = TryFloor(terms.borrow_amount)
<1>1. cfg.borrow_fee_wad \in Nat /\ BorrowWeight(cfg) \in Nat /\ BorrowWeight(cfg) > 0
    <2>1. cfg.added_borrow_weight_bps \in Nat /\ cfg.borrow_fee_wad \in Nat
        BY WadAssumption DEF ReserveConfig, U64
    <2>2. FromBps(cfg.added_borrow_weight_bps) \in Nat
        BY <2>1, ConversionsNat
    <2> QED BY <2>1, <2>2, WadAssumption DEF BorrowWeight
<1>2. CASE amount = U64_MAX
    <2> DEFINE Most(tokens) == MinOf(MinOf(DecDiv(tokens, BorrowWeight(cfg)), capacity),
                                     FromU64(res.available_amount))
               Terms(m) ==
               UNION {Result(TryFloor(m) >= f[1],
                             [borrow_amount |-> m, receive_amount |-> TryFloor(m) - f[1],
                              borrow_fee |-> f[1], host_fee |-> f[2]])
                      : f \in CalculateFees(cfg, m, cfg.borrow_fee_wad, TRUE)}
    <2>0. terms \in UNION {Terms(Most(tokens)) : tokens \in UsdToLiquidityLowerBound(res, value)}
        BY <1>2 DEF CalculateBorrow, MaxBorrow
    <2> HIDE DEF Terms, Most
    <2>1. PICK tokens \in UsdToLiquidityLowerBound(res, value) : terms \in Terms(Most(tokens))
        BY <2>0
    <2>2. PICK m : m = Most(tokens)
        OBVIOUS
    <2>3. m \in Nat
        <3>1. tokens \in Nat
            BY UsdToLiquidityNat
        <3>2. DecDiv(tokens, BorrowWeight(cfg)) \in Nat
            BY <1>1, <3>1, DecDivNat
        <3>3. FromU64(res.available_amount) \in Nat
            BY ReserveNat, ConversionsNat
        <3> QED BY <2>2, <3>2, <3>3 DEF MinOf, Most
    <2>4. PICK f \in CalculateFees(cfg, m, cfg.borrow_fee_wad, TRUE) :
            /\ TryFloor(m) >= f[1]
            /\ terms = [borrow_amount |-> m, receive_amount |-> TryFloor(m) - f[1],
                         borrow_fee |-> f[1], host_fee |-> f[2]]
        BY <2>1, <2>2 DEF Result, Terms
    <2>5. f[1] \in Nat /\ f[2] \in Nat
        BY <1>1, <2>3, FeesNat
    <2>6. TryFloor(m) \in Nat
        BY <2>3, ConversionsNat
    <2> QED BY <2>3, <2>4, <2>5, <2>6
<1>3. CASE amount # U64_MAX
    <2>1. PICK f \in CalculateFees(cfg, FromU64(amount), cfg.borrow_fee_wad, FALSE) :
            terms = [borrow_amount |-> FromU64(amount + f[1]), receive_amount |-> amount,
                     borrow_fee |-> f[1], host_fee |-> f[2]]
        BY <1>3 DEF CalculateBorrow, ExactBorrow, Result
    <2>2. f[1] \in Nat /\ f[2] \in Nat
        BY <1>1, FeesNat, ConversionsNat
    <2>3. amount + f[1] \in Nat
        BY <2>2
    <2>4. FromU64(amount + f[1]) \in Nat /\ TryFloor(FromU64(amount + f[1])) = amount + f[1]
        BY <2>3, ConversionsNat, FloorOfWhole
    <2> QED BY <2>1, <2>2, <2>4
<1> QED BY <1>2, <1>3

-----------------------------------------------------------------------------
(* Interest.                                                               *)

\* Multiplying by one or more never makes less.
LEMMA DecMulGrows ==
    ASSUME NEW a \in Nat, NEW b \in Nat, b >= WAD
    PROVE  DecMul(a, b) \in Nat /\ DecMul(a, b) >= a
<1>1. WAD \in Nat /\ WAD >= 1 /\ a * b \in Nat
    BY WadAssumption
<1>2. PICK q \in Nat : q = (a * b) \div WAD /\ q * WAD <= a * b /\ a * b < q * WAD + WAD
    BY <1>1, DivBounds
<1>3. a * b >= a * WAD
    <2>1. PICK d \in Nat : b = WAD + d
        <3>1. b - WAD \in Nat /\ b = WAD + (b - WAD)
            BY <1>1
        <3> QED BY <3>1
    <2>2. a * b = a * WAD + a * d /\ a * d \in Nat /\ a * WAD \in Nat
        BY <1>1, <2>1
    <2> QED BY <2>2
<1>4. q * WAD + WAD = (q + 1) * WAD
    BY <1>1
<1>5. ASSUME q < a
      PROVE  (q + 1) * WAD <= a * WAD
    <2>1. PICK d \in Nat : a = (q + 1) + d
        <3>1. a - (q + 1) \in Nat /\ a = (q + 1) + (a - (q + 1))
            BY <1>5
        <3> QED BY <3>1
    <2>2. a * WAD = (q + 1) * WAD + d * WAD /\ d * WAD \in Nat /\ (q + 1) * WAD \in Nat
        BY <1>1, <2>1
    <2> QED BY <2>2
<1>6. q >= a
    BY <1>1, <1>2, <1>3, <1>4, <1>5
<1> QED BY <1>2, <1>6 DEF DecMul

\* Multiplying by exactly one changes nothing.
LEMMA DecMulOne ==
    ASSUME NEW a \in Nat
    PROVE  DecMul(a, WAD) = a
<1> QED BY FloorOfWhole DEF DecMul, TryFloor, FromU64

\* The state of try_pow's loop: a base and a result of at least one.
PowState == {p \in [exp : Nat, base : Nat, ret : Nat] : p.base >= WAD /\ p.ret >= WAD}

\* A pass of the loop of try_pow keeps base and result at least one.
LEMMA PowPassKeeps ==
    ASSUME NEW p \in PowState
    PROVE  PowPass(p) \in PowState
<1>1. p.exp \in Nat /\ p.base \in Nat /\ p.ret \in Nat /\ p.base >= WAD /\ p.ret >= WAD
    BY DEF PowState
<1>2. WAD \in Nat
    BY WadAssumption
<1>3. PICK e \in Nat : e = p.exp \div 2
    BY <1>1
<1>b. PICK b \in Nat : b = DecMul(p.base, p.base)
    BY <1>1, DecMulNat
<1>4. b >= WAD
    <2>1. b >= p.base
        BY <1>1, <1>b, DecMulGrows
    <2> QED BY <1>1, <1>2, <2>1
<1>5. PICK r \in Nat : r = (IF e % 2 # 0 THEN DecMul(p.ret, b) ELSE p.ret) /\ r >= WAD
    <2>1. DecMul(p.ret, b) \in Nat /\ DecMul(p.ret, b) >= p.ret
        BY <1>1, <1>4, DecMulGrows
    <2> QED BY <1>1, <1>2, <2>1
<1>6. PowPass(p) = [exp |-> e, base |-> b, ret |-> r]
    BY <1>3, <1>b, <1>5 DEF PowPass
<1> QED BY <1>4, <1>5, <1>6 DEF PowState

\* g is try_pow's loop: it holds the state after each number of passes.
PowFun(rate, exp, g) ==
    g = [n \in 0..exp |->
            IF n = 0
            THEN [exp |-> exp, base |-> rate, ret |-> IF exp % 2 # 0 THEN rate ELSE WAD]
            ELSE IF g[n - 1].exp = 0 THEN g[n - 1] ELSE PowPass(g[n - 1])]

\* the same, pass by pass, for the first N passes
Powers(rate, exp, N, g) ==
    \A n \in 0..N :
        g[n] = IF n = 0
               THEN [exp |-> exp, base |-> rate, ret |-> IF exp % 2 # 0 THEN rate ELSE WAD]
               ELSE IF g[n - 1].exp = 0 THEN g[n - 1] ELSE PowPass(g[n - 1])

\* Any number of passes can be run.
LEMMA PowersExist ==
    ASSUME NEW rate, NEW exp, NEW N \in Nat
    PROVE  \E g : Powers(rate, exp, N, g)
<1> DEFINE first == [exp |-> exp, base |-> rate, ret |-> IF exp % 2 # 0 THEN rate ELSE WAD]
           Pass(p) == IF p.exp = 0 THEN p ELSE PowPass(p)
           P == {n \in Nat : \E g : Powers(rate, exp, n, g)}
<1>0. \A n \in Nat : \A g : Powers(rate, exp, n, g) <=>
          \A k \in 0..n : g[k] = IF k = 0 THEN first ELSE Pass(g[k - 1])
    BY DEF Powers
<1> HIDE DEF first, Pass
<1>1. 0 \in P
    <2>1. Powers(rate, exp, 0, [k \in 0..0 |-> first])
        BY <1>0
    <2> QED BY <2>1
<1>2. ASSUME NEW n \in P PROVE n + 1 \in P
    <2>1. PICK g : Powers(rate, exp, n, g)
        BY <1>2
    <2>2. PICK h : h = [k \in 0..(n + 1) |-> IF k <= n THEN g[k] ELSE Pass(g[k - 1])]
        OBVIOUS
    <2>3. \A k \in 0..n : h[k] = g[k]
        BY <2>2
    <2>4. h[n + 1] = Pass(g[n])
        BY <2>2
    <2>5. \A k \in 0..(n + 1) : h[k] = IF k = 0 THEN first ELSE Pass(h[k - 1])
        <3> SUFFICES ASSUME NEW k \in 0..(n + 1)
            PROVE  h[k] = IF k = 0 THEN first ELSE Pass(h[k - 1])
            OBVIOUS
        <3>1. CASE k = n + 1
            BY <2>3, <2>4, <3>1
        <3>2. CASE k \in 1..n
            BY <1>0, <2>1, <2>3, <3>2
        <3>3. CASE k = 0
            BY <1>0, <2>1, <2>3, <3>3
        <3> QED BY <3>1, <3>2, <3>3
    <2>6. Powers(rate, exp, n + 1, h)
        BY <1>0, <2>5
    <2> QED BY <2>6
<1>3. N \in P
    BY <1>1, <1>2, NatSetInduction
<1> QED BY <1>3

(***************************************************************************)
(* Rate::try_pow of a rate of at least one is at least one, for every      *)
(* number of slots and whatever the truncations on the way.                *)
(***************************************************************************)
LEMMA PowAtLeastOne ==
    ASSUME NEW rate \in Nat, rate >= WAD, NEW exp \in Nat
    PROVE  TryPow(rate, exp) \in Nat /\ TryPow(rate, exp) >= WAD
<1>1. \E g : PowFun(rate, exp, g)
    <2>1. PICK g : Powers(rate, exp, exp, g)
        BY PowersExist
    <2>2. PICK h : h = [n \in 0..exp |-> g[n]]
        OBVIOUS
    <2>3. \A n \in 0..exp : h[n] = g[n]
        BY <2>2
    <2>4. \A n \in 0..exp : n # 0 => n - 1 \in 0..exp
        OBVIOUS
    <2>5. Powers(rate, exp, exp, h)
        BY <2>1, <2>3, <2>4 DEF Powers
    <2>6. PowFun(rate, exp, h)
        BY <2>2, <2>5 DEF PowFun, Powers
    <2> QED BY <2>6
<1>2. PICK g : PowFun(rate, exp, g) /\ TryPow(rate, exp) = g[exp].ret
    BY <1>1, Zenon DEF TryPow, PowFun
<1>3. Powers(rate, exp, exp, g)
    BY <1>2 DEF PowFun, Powers
<1> DEFINE P == {n \in Nat : n <= exp => g[n] \in PowState}
<1>4. 0 \in P
    <2>1. WAD \in Nat
        BY WadAssumption
    <2>2. g[0] = [exp |-> exp, base |-> rate, ret |-> IF exp % 2 # 0 THEN rate ELSE WAD]
        BY <1>3 DEF Powers
    <2> QED BY <2>1, <2>2 DEF PowState
<1>5. ASSUME NEW n \in P PROVE n + 1 \in P
    <2> SUFFICES ASSUME n + 1 <= exp PROVE g[n + 1] \in PowState
        OBVIOUS
    <2>1. g[n] \in PowState /\ n + 1 \in 0..exp /\ n + 1 # 0 /\ (n + 1) - 1 = n
        BY <1>5
    <2>2. g[n + 1] = IF g[n].exp = 0 THEN g[n] ELSE PowPass(g[n])
        BY <1>3, <2>1 DEF Powers
    <2> QED BY <2>1, <2>2, PowPassKeeps
<1>6. exp \in P
    BY <1>4, <1>5, NatSetInduction
<1> QED BY <1>2, <1>6 DEF PowState

\* What validate_reserve_config says of the borrow rate curve.
CurveOrdered(cfg) ==
    /\ cfg.optimal_utilization_rate <= cfg.max_utilization_rate
    /\ cfg.max_utilization_rate <= PercentsPerOne
    /\ cfg.min_borrow_rate <= cfg.optimal_borrow_rate
    /\ cfg.optimal_borrow_rate <= cfg.max_borrow_rate
    /\ cfg.max_borrow_rate <= cfg.super_max_borrow_rate

\* Percents are in the order of their numbers, and a hundred of them is one.
LEMMA PercentOrder ==
    /\ FromPercent(PercentsPerOne) = WAD
    /\ \A p \in Nat : FromPercent(p) \in Nat
    /\ \A p, q \in Nat : p <= q => FromPercent(p) <= FromPercent(q)
    /\ \A p \in Nat : p > 0 => FromPercent(p) > 0
<1>1. PICK k \in Nat : k = WAD \div PercentsPerOne /\ PercentsPerOne * k = WAD /\ k > 0
    <2>1. WAD \in Nat /\ PercentsPerOne \in Nat /\ PercentsPerOne > 0 /\ WAD > 0
          /\ WAD % PercentsPerOne = 0
        BY WadAssumption
    <2>2. WAD \div PercentsPerOne \in Nat
        BY <2>1, DivBounds
    <2>3. PercentsPerOne * (WAD \div PercentsPerOne) = WAD
        BY <2>1
    <2>4. WAD \div PercentsPerOne # 0
        BY <2>1, <2>3
    <2> QED BY <2>2, <2>3, <2>4
<1>2. \A p : FromPercent(p) = p * k
    BY <1>1 DEF FromPercent
<1>3. PercentsPerOne \in Nat
    BY WadAssumption
<1>4. \A p \in Nat : p * k \in Nat
    OBVIOUS
<1>5. ASSUME NEW p \in Nat, NEW q \in Nat, p <= q
      PROVE  p * k <= q * k
    <2>1. PICK d \in Nat : q = p + d
        <3>1. q - p \in Nat /\ q = p + (q - p)
            BY <1>5
        <3> QED BY <3>1
    <2>2. q * k = p * k + d * k /\ d * k \in Nat /\ p * k \in Nat
        BY <2>1
    <2> QED BY <2>2
<1>6. ASSUME NEW p \in Nat, p > 0
      PROVE  p * k > 0
    BY <1>1, <1>6
<1> QED BY <1>1, <1>2, <1>4, <1>5, <1>6

\* The utilization of a reserve is a part of one.
LEMMA UtilizationPart ==
    ASSUME NEW res \in ReserveRec
    PROVE  UtilizationRate(res) \in Nat /\ UtilizationRate(res) <= WAD
<1>1. WAD \in Nat /\ WAD > 0
    BY WadAssumption
<1>2. PICK b \in Nat : b = res.borrowed_amount_wads
    BY ReserveNat
<1>3. PICK a \in Nat : a = FromU64(res.available_amount)
    BY ReserveNat, ConversionsNat
<1>4. CASE TotalSupply(res) = 0 \/ b = 0
    BY <1>1, <1>2, <1>4 DEF UtilizationRate
<1>5. CASE ~(TotalSupply(res) = 0 \/ b = 0)
    <2>1. UtilizationRate(res) = (b * WAD) \div (b + a)
        BY <1>2, <1>3, <1>5 DEF UtilizationRate, DecDiv
    <2>2. b * WAD \in Nat /\ a * WAD \in Nat /\ b + a \in Nat /\ b + a # 0 /\ a * WAD >= 0
        BY <1>1, <1>5
    <2>3. PICK q \in Nat : q = (b * WAD) \div (b + a) /\ q * (b + a) <= b * WAD
        BY <2>2, DivBounds
    <2>4. b * WAD <= WAD * (b + a)
        BY <1>1, <2>2
    <2>5. ASSUME q > WAD PROVE FALSE
        <3>1. PICK d \in Nat : q = WAD + 1 + d
            <4>1. q - (WAD + 1) \in Nat /\ q = WAD + 1 + (q - (WAD + 1))
                BY <1>1, <2>5
            <4> QED BY <4>1
        <3>2. q * (b + a) = WAD * (b + a) + (b + a) + d * (b + a)
            BY <1>1, <3>1
        <3>3. d * (b + a) \in Nat /\ WAD * (b + a) \in Nat /\ q * (b + a) \in Nat
            BY <1>1, <2>2
        <3> QED BY <2>2, <2>3, <2>4, <3>2, <3>3
    <2> QED BY <1>1, <2>1, <2>3, <2>5
<1> QED BY <1>4, <1>5

(***************************************************************************)
(* A configuration with its curve in order charges no negative rate: no    *)
(* subtraction of current_borrow_rate underflows and no division is by     *)
(* zero, in any of the three segments.                                     *)
(***************************************************************************)
LEMMA BorrowRateNat ==
    ASSUME NEW cfg \in ReserveConfig, NEW res \in ReserveRec, CurveOrdered(cfg)
    PROVE  CurrentBorrowRate(cfg, res) \in Nat
<1>1. PICK u \in Nat : u = UtilizationRate(res) /\ u <= WAD
    BY UtilizationPart
<1>2. PICK optimal \in Nat : optimal = FromPercent(cfg.optimal_utilization_rate)
    BY PercentOrder DEF ReserveConfig
<1>3. PICK max \in Nat : max = FromPercent(cfg.max_utilization_rate)
    BY PercentOrder DEF ReserveConfig
<1>4. PICK rest \in Int : rest = FromPercent(PercentsPerOne - cfg.max_utilization_rate)
    BY WadAssumption DEF ReserveConfig, FromPercent
<1> DEFINE Between(lo, hi, weight) ==
            DecMul(weight, FromPercent(hi) - FromPercent(lo)) + FromPercent(lo)
<1>5. CurrentBorrowRate(cfg, res) =
        IF u <= optimal
        THEN IF optimal = 0 THEN FromPercent(cfg.min_borrow_rate)
             ELSE Between(cfg.min_borrow_rate, cfg.optimal_borrow_rate, DecDiv(u, optimal))
        ELSE IF u <= max
        THEN Between(cfg.optimal_borrow_rate, cfg.max_borrow_rate,
                     DecDiv(u - optimal, max - optimal))
        ELSE Between(cfg.max_borrow_rate, cfg.super_max_borrow_rate, DecDiv(u - max, rest))
    BY <1>1, <1>2, <1>3, <1>4 DEF CurrentBorrowRate
<1>6. ASSUME NEW lo \in Nat, NEW hi \in Nat, NEW weight \in Nat, lo <= hi
      PROVE  Between(lo, hi, weight) \in Nat
    <2>1. PICK l \in Nat : l = FromPercent(lo)
        BY PercentOrder
    <2>2. PICK h \in Nat : h = FromPercent(hi)
        BY PercentOrder
    <2>3. h - l \in Nat
        <3>1. l <= h
            BY <1>6, <2>1, <2>2, PercentOrder
        <3> QED BY <3>1
    <2>4. DecMul(weight, h - l) \in Nat
        BY <2>3, DecMulNat
    <2> QED BY <2>1, <2>2, <2>4
<1> HIDE DEF Between
<1>7. /\ cfg.min_borrow_rate \in Nat /\ cfg.optimal_borrow_rate \in Nat
      /\ cfg.max_borrow_rate \in Nat /\ cfg.super_max_borrow_rate \in Nat
      /\ cfg.max_utilization_rate \in Nat
    BY DEF ReserveConfig
<1>8. CASE u <= optimal
    <2>1. FromPercent(cfg.min_borrow_rate) \in Nat
        BY <1>7, PercentOrder
    <2>2. ASSUME optimal # 0 PROVE DecDiv(u, optimal) \in Nat
        BY <2>2, DecDivNat
    <2>3. optimal # 0 => Between(cfg.min_borrow_rate, cfg.optimal_borrow_rate, DecDiv(u, optimal)) \in Nat
        BY <1>6, <1>7, <2>2 DEF CurveOrdered
    <2> QED BY <1>5, <1>8, <2>1, <2>3
<1>9. CASE u > optimal /\ u <= max
    <2>1. u - optimal \in Nat /\ max - optimal \in Nat /\ max - optimal # 0
        BY <1>9
    <2>2. DecDiv(u - optimal, max - optimal) \in Nat
        BY <2>1, DecDivNat
    <2>3. Between(cfg.optimal_borrow_rate, cfg.max_borrow_rate,
                  DecDiv(u - optimal, max - optimal)) \in Nat
        BY <1>6, <1>7, <2>2 DEF CurveOrdered
    <2> QED BY <1>5, <1>9, <2>3
<1>10. CASE u > optimal /\ u > max
    <2>1. u - max \in Nat
        BY <1>10
    <2>2. rest \in Nat /\ rest # 0
        <3>1. max < WAD
            BY <1>1, <1>10, WadAssumption
        <3>2. cfg.max_utilization_rate # PercentsPerOne
            BY <1>3, <3>1, PercentOrder, WadAssumption
        <3>3. PercentsPerOne - cfg.max_utilization_rate \in Nat
              /\ PercentsPerOne - cfg.max_utilization_rate > 0
            BY <1>7, <3>2, WadAssumption DEF CurveOrdered
        <3> QED BY <1>4, <3>3, PercentOrder
    <2>3. DecDiv(u - max, rest) \in Nat
        BY <2>1, <2>2, DecDivNat
    <2>4. Between(cfg.max_borrow_rate, cfg.super_max_borrow_rate, DecDiv(u - max, rest)) \in Nat
        BY <1>6, <1>7, <2>3 DEF CurveOrdered
    <2> QED BY <1>5, <1>10, <2>4
<1> QED BY <1>8, <1>9, <1>10

(***************************************************************************)
(* accrue_interest under such a configuration lowers neither the reserve's *)
(* cumulative borrow rate nor what is borrowed from it.                    *)
(***************************************************************************)
LEMMA InterestGrows ==
    ASSUME NEW cfg \in ReserveConfig, NEW res \in ReserveRec, CurveOrdered(cfg),
           NEW slots \in Nat, NEW t \in AccrueInterest(cfg, res, slots)
    PROVE  /\ t.cumulative_borrow_rate_wads \in Nat
           /\ res.cumulative_borrow_rate_wads <= t.cumulative_borrow_rate_wads
           /\ t.borrowed_amount_wads \in Nat
           /\ res.borrowed_amount_wads <= t.borrowed_amount_wads
<1>1. PICK c \in Nat, b \in Nat : c = res.cumulative_borrow_rate_wads /\ b = res.borrowed_amount_wads
    BY WadAssumption DEF ReserveRec, U128
<1>2. CASE slots = 0
    BY <1>1, <1>2 DEF AccrueInterest
<1>3. CASE slots # 0
    <2>1. t = CompoundInterest(cfg, res, slots)
        BY <1>3 DEF AccrueInterest, Result
    <2>2. PICK i \in Nat : i = CurrentBorrowRate(cfg, res) \div SLOTS_PER_YEAR
        <3>1. SLOTS_PER_YEAR \in Nat /\ SLOTS_PER_YEAR # 0
            BY ReserveAssumption
        <3> QED BY <3>1, BorrowRateNat, DivBounds
    <2>3. WAD + i \in Nat /\ WAD + i >= WAD
        BY WadAssumption
    <2>4. PICK rate \in Nat : rate = TryPow(WAD + i, slots) /\ rate >= WAD
        BY <2>3, PowAtLeastOne
    <2>5. DecMul(c, rate) \in Nat /\ DecMul(c, rate) >= c
        BY <2>4, DecMulGrows
    <2>6. DecMul(b, rate) \in Nat /\ DecMul(b, rate) >= b
        BY <2>4, DecMulGrows
    <2>7. /\ t.cumulative_borrow_rate_wads = DecMul(c, rate)
          /\ t.borrowed_amount_wads = b + (DecMul(b, rate) - b)
        BY <1>1, <2>1, <2>2, <2>4 DEF CompoundInterest, ReserveRec
    <2> QED BY <1>1, <2>5, <2>6, <2>7
<1> QED BY <1>2, <1>3
=============================================================================
