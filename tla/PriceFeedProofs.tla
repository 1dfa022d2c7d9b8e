-------------------------- MODULE PriceFeedProofs --------------------------
(***************************************************************************)
(* For any feeds, exponents, scales, confidence ratio and staleness bound: *)
(* a usable reserve is priced by an oracle it is configured with, its two  *)
(* prices belong together, and a stored price is the published one,        *)
(* truncated.                                                              *)
(***************************************************************************)
EXTENDS PriceFeed, ReserveProofs

-----------------------------------------------------------------------------
(* Powers of ten.                                                          *)

\* g holds the first n powers
Tens(n, g) == g = [i \in 0..n |-> IF i = 0 THEN 1 ELSE 10 * g[i - 1]]

\* There are powers of ten up to any exponent.
LEMMA TensExist ==
    ASSUME NEW N \in Nat
    PROVE  \E g : Tens(N, g)
<1> DEFINE P == {n \in Nat : \E g : Tens(n, g)}
<1>1. 0 \in P
    <2>1. PICK g : g = [i \in 0..0 |-> 1]
        OBVIOUS
    <2>2. [i \in 0..0 |-> IF i = 0 THEN 1 ELSE 10 * g[i - 1]] = [i \in 0..0 |-> 1]
        OBVIOUS
    <2> QED BY <2>1, <2>2 DEF Tens
<1>2. ASSUME NEW n \in P PROVE n + 1 \in P
    <2>1. PICK g : Tens(n, g)
        BY <1>2
    <2>2. PICK h : h = [i \in 0..(n + 1) |-> IF i <= n THEN g[i] ELSE 10 * g[i - 1]]
        OBVIOUS
    <2>3. \A i \in 0..n : h[i] = g[i] /\ g[i] = IF i = 0 THEN 1 ELSE 10 * g[i - 1]
        BY <2>1, <2>2 DEF Tens
    <2>4. ASSUME NEW i \in 0..(n + 1) PROVE h[i] = IF i = 0 THEN 1 ELSE 10 * h[i - 1]
        <3>1. CASE i = n + 1
            BY <2>2, <2>3, <3>1
        <3>2. CASE i \in 1..n
            BY <2>3, <3>2
        <3>3. CASE i = 0
            BY <2>3, <3>3
        <3> QED BY <3>1, <3>2, <3>3
    <2>5. h = [i \in 0..(n + 1) |-> IF i = 0 THEN 1 ELSE 10 * h[i - 1]]
        BY <2>2, <2>4
    <2> QED BY <2>5 DEF Tens
<1>3. N \in P
    BY <1>1, <1>2, NatSetInduction
<1> QED BY <1>3

\* A power of ten is a positive number, and the one of zero is one.
LEMMA TenToPositive ==
    ASSUME NEW n \in Nat
    PROVE  TenTo(n) \in Nat /\ TenTo(n) >= 1 /\ (n = 0 => TenTo(n) = 1)
<1>1. \E g : Tens(n, g)
    BY TensExist
<1>2. PICK g : Tens(n, g) /\ TenTo(n) = g[n]
    BY <1>1, Zenon DEF TenTo, Tens
<1>3. \A i \in 0..n : g[i] = IF i = 0 THEN 1 ELSE 10 * g[i - 1]
    BY <1>2 DEF Tens
<1> DEFINE P == {i \in Nat : i <= n => g[i] \in Nat /\ g[i] >= 1}
<1>4. 0 \in P
    BY <1>3
<1>5. ASSUME NEW i \in P PROVE i + 1 \in P
    <2> SUFFICES ASSUME i + 1 <= n PROVE g[i + 1] \in Nat /\ g[i + 1] >= 1
        OBVIOUS
    <2>1. g[i] \in Nat /\ g[i] >= 1 /\ i + 1 \in 0..n /\ i + 1 # 0 /\ (i + 1) - 1 = i
        BY <1>5
    <2>2. g[i + 1] = 10 * g[i]
        BY <1>3, <2>1
    <2> QED BY <2>1, <2>2
<1>6. n \in P
    BY <1>4, <1>5, NatSetInduction
<1> QED BY <1>2, <1>3, <1>6

-----------------------------------------------------------------------------
(* What the readers return.                                                *)

\* price m stands for what feed f published, a: PriceIsPublished for one price
Stands(f, a, m) ==
    /\ a < 0 => f \in SwitchboardV1
    /\ m * Denominator(f) <= MaxOf(0, a) * Numerator(f) * WAD
    /\ MaxOf(0, a) * Numerator(f) * WAD < (m + Precision(f)) * Denominator(f)

\* A truncated quotient stands for the number divided.
LEMMA QuotientStands ==
    ASSUME NEW n \in Nat, NEW d \in Nat, d >= 1, NEW m, m = n \div d
    PROVE  m \in Nat /\ m * d <= n /\ n < (m + 1) * d
<1>1. m \in Nat /\ m * d <= n /\ n < m * d + d
    BY DivBounds
<1>2. (m + 1) * d = m * d + d
    BY <1>1
<1> QED BY <1>1, <1>2

\* pyth_price_to_decimal, for exponents of either sign
LEMMA PythStands ==
    ASSUME NEW f \in PythFeeds, NEW a \in Int, NEW m \in PythPriceToDecimal(a, Expo[f])
    PROVE  Stands(f, a, m)
<1>1. Expo[f] \in Int /\ f \notin SwitchboardV1 /\ WAD \in Nat /\ WAD >= 1
    BY PriceFeedAssumption, WadAssumption DEF SwitchboardFeeds
<1>e. PICK e \in Int : e = Expo[f]
    BY <1>1
<1>2. a >= 0 /\ MaxOf(0, a) = a /\ Precision(f) = 1
    <2>1. a >= 0
        <3>1. CASE e >= 0
            BY <1>e, <3>1 DEF PythPriceToDecimal, PriceIf
        <3>2. CASE ~(e >= 0)
            BY <1>e, <3>2 DEF PythPriceToDecimal, PriceIf
        <3> QED BY <3>1, <3>2
    <2> QED BY <1>1, <2>1 DEF MaxOf, Precision
<1>3. CASE e >= 0
    <2>1. PICK t \in Nat : t = TenTo(e) /\ t >= 1 /\ (e = 0 => t = 1)
        BY <1>3, TenToPositive
    <2>2. m = (a * WAD) * t
        BY <1>e, <1>3, <2>1 DEF PythPriceToDecimal, PriceIf, FromU64
    <2>3. Denominator(f) = 1 /\ Numerator(f) = t
        BY <1>e, <1>3, <2>1 DEF Denominator, Numerator
    <2>4. m = a * t * WAD /\ m \in Nat
        BY <1>1, <1>2, <2>2
    <2> QED BY <1>1, <1>2, <2>3, <2>4 DEF Stands
<1>4. CASE ~(e >= 0)
    <2>1. PICK t \in Nat : t = TenTo(-e) /\ t >= 1
        <3>1. -e \in Nat
            BY <1>4
        <3> QED BY <3>1, TenToPositive
    <2>2. PICK n \in Nat : n = a * WAD
        BY <1>1, <1>2
    <2>3. m = n \div t
        BY <1>e, <1>4, <2>1, <2>2 DEF PythPriceToDecimal, PriceIf, FromU64
    <2>4. Denominator(f) = t /\ Numerator(f) = 1
        BY <1>e, <1>4, <2>1 DEF Denominator, Numerator
    <2>5. m * t <= n /\ n < (m + 1) * t
        BY <2>1, <2>3, QuotientStands
    <2>6. a * 1 * WAD = n
        BY <1>1, <1>2, <2>2
    <2> QED BY <1>2, <2>4, <2>5, <2>6 DEF Stands
<1> QED BY <1>3, <1>4

\* get_switchboard_price_v2
LEMMA SwitchboardV2Stands ==
    ASSUME NEW f \in SwitchboardV2, f \notin SwitchboardV1, NEW p, p.price \in Int,
           NEW m \in GetSwitchboardPriceV2(f, p)
    PROVE  Stands(f, p.price, m)
<1>1. Scale[f] \in Nat /\ f \notin PythFeeds /\ WAD \in Nat
    BY PriceFeedAssumption, WadAssumption DEF SwitchboardFeeds
<1>2. PICK t \in Nat : t = TenTo(Scale[f]) /\ t >= 1
    BY <1>1, TenToPositive
<1>3. p.price >= 0
    BY DEF GetSwitchboardPriceV2, PriceIf
<1>a. PICK a \in Nat : a = p.price
    BY <1>3
<1>4. PICK n \in Nat : n = a * WAD
    BY <1>1
<1>5. m = n \div t
    BY <1>2, <1>a, <1>4 DEF GetSwitchboardPriceV2, PriceIf, FromU64
<1>6. Denominator(f) = t /\ Numerator(f) = 1 /\ Precision(f) = 1 /\ MaxOf(0, a) = a
    BY <1>1, <1>2 DEF Denominator, Numerator, Precision, MaxOf
<1>7. m * t <= n /\ n < (m + 1) * t
    BY <1>2, <1>5, QuotientStands
<1>8. a * 1 * WAD = n
    BY <1>1, <1>4
<1> QED BY <1>a, <1>6, <1>7, <1>8 DEF Stands

\* get_switchboard_price: nine decimals of a float, negative ones cast to zero
LEMMA SwitchboardV1Stands ==
    ASSUME NEW f \in SwitchboardV1, NEW p, p.price \in Int, NEW m \in GetSwitchboardPriceV1(p)
    PROVE  Stands(f, p.price, m)
<1>1. /\ f \notin PythFeeds /\ WAD \in Nat /\ WAD >= 1
      /\ PRICE_QUOTIENT \in Nat /\ PRICE_QUOTIENT >= 1 /\ FloatUnit \in Nat /\ FloatUnit >= 1
      /\ WAD % PRICE_QUOTIENT = 0
    BY PriceFeedAssumption, WadAssumption DEF SwitchboardFeeds
<1>a. PICK a \in Nat : a = MaxOf(p.price, 0) /\ a = MaxOf(0, p.price)
    BY DEF MaxOf
<1>q. PICK q \in Nat : q = PRICE_QUOTIENT /\ q >= 1
    BY <1>1
<1>u. PICK u \in Nat : u = FloatUnit /\ u >= 1
    BY <1>1
<1>2. PICK c \in Nat : c = WAD \div q /\ c * q = WAD
    BY <1>1, <1>q
<1>3. PICK b \in Nat : b = (a * q) \div u /\ b * u <= a * q /\ a * q < (b + 1) * u
    <2>1. a * q \in Nat
        OBVIOUS
    <2> QED BY <1>u, <2>1, QuotientStands
<1>4. m = (b * WAD) \div q
    BY <1>a, <1>q, <1>u, <1>3 DEF GetSwitchboardPriceV1, FromU64
<1>5. m = b * c
    <2>1. PICK n \in Nat : n = b * c
        BY <1>2
    <2>2. b * WAD = n * q
        BY <1>2, <2>1
    <2>3. PICK k \in Nat : k = (n * q) \div q /\ k * q <= n * q /\ n * q < (k + 1) * q
        <3>1. n * q \in Nat
            OBVIOUS
        <3> QED BY <1>q, <3>1, QuotientStands
    <2>4. ASSUME k < n PROVE FALSE
        <3>1. (k + 1) * q <= n * q
            BY <2>4, TimesOrder
        <3>2. (k + 1) * q \in Nat /\ n * q \in Nat
            OBVIOUS
        <3> QED BY <2>3, <3>1, <3>2
    <2>5. ASSUME k > n PROVE FALSE
        <3>1. (n + 1) * q <= k * q
            BY <2>5, TimesOrder
        <3>2. (n + 1) * q = n * q + q /\ n * q \in Nat /\ k * q \in Nat
            OBVIOUS
        <3> QED BY <1>q, <2>3, <3>1, <3>2
    <2> QED BY <1>4, <2>1, <2>2, <2>3, <2>4, <2>5
<1>6. a * WAD = (a * q) * c
    <2>1. (a * q) * c = a * (c * q)
        BY <1>2
    <2> QED BY <1>2, <2>1
<1>7. m * u <= a * WAD
    <2>1. (b * u) * c <= (a * q) * c
        <3>1. b * u \in Nat /\ a * q \in Nat
            OBVIOUS
        <3> QED BY <1>2, <1>3, <3>1, TimesOrder
    <2>2. (b * u) * c = (b * c) * u
        BY <1>2
    <2> QED BY <1>5, <1>6, <2>1, <2>2
<1>8. a * WAD < (m + c) * u
    <2>1. c >= 1
        <3>1. c = 0 => c * q = 0
            OBVIOUS
        <3> QED BY <1>1, <1>2, <3>1
    <2>2. PICK x \in Nat, y \in Nat : x = a * q /\ y = (b + 1) * u /\ x + 1 <= y
        <3>1. a * q \in Nat /\ (b + 1) * u \in Nat
            OBVIOUS
        <3> QED BY <1>3, <3>1
    <2>3. (x + 1) * c <= y * c
        BY <2>2, TimesOrder
    <2>4. (x + 1) * c = x * c + c /\ x * c \in Nat /\ y * c \in Nat
        OBVIOUS
    <2>5. y * c = (b * c + c) * u
        <3>1. ((b + 1) * u) * c = ((b + 1) * c) * u
            BY <1>2
        <3>2. (b + 1) * c = b * c + c
            BY <1>2
        <3> QED BY <2>2, <3>1, <3>2
    <2> QED BY <1>5, <1>6, <2>1, <2>2, <2>3, <2>4, <2>5
<1>9. Denominator(f) = u /\ Numerator(f) = 1 /\ Precision(f) = c
    BY <1>1, <1>q, <1>u, <1>2 DEF Denominator, Numerator, Precision
<1>10. MaxOf(0, p.price) * 1 * WAD = a * WAD
    BY <1>1, <1>a
<1> QED BY <1>7, <1>8, <1>9, <1>10 DEF Stands

(***************************************************************************)
(* What get_price answers: a price that stands for the last publication of *)
(* a configured feed, one that is recent; and it is the Switchboard feed   *)
(* when there is no moving average.                                        *)
(***************************************************************************)
LEMMA PriceAnswered ==
    ASSUME TypeOK, NEW k \in Keys, NEW passed, NEW a \in GetPrice(k, passed)
    PROVE  /\ a.feed \in Feeds /\ a.feed \in {k.pyth, k.switchboard} \ {NULL_PUBKEY}
           /\ slot - feed[a.feed].slot <= STALE_AFTER_SLOTS_ELAPSED
           /\ Stands(a.feed, feed[a.feed].price, a.answer.market)
           /\ a.answer.smoothed = {} => a.feed = k.switchboard
<1> USE DEF TypeOK
<1>1. /\ k.pyth \in PythFeeds \cup {NULL_PUBKEY}
      /\ k.switchboard \in SwitchboardFeeds \cup {NULL_PUBKEY}
      /\ NULL_PUBKEY \notin Feeds /\ slot \in Int /\ STALE_AFTER_SLOTS_ELAPSED \in Nat
    BY PriceFeedAssumption DEF Keys
<1>2. ASSUME NEW f \in Feeds
      PROVE  feed[f].price \in Int /\ feed[f].slot \in Int
    <2>1. feed[f] \in Publication
        BY <1>2
    <2> QED BY <2>1, PriceFeedAssumption DEF Publication
<1>3. CASE GetPythPrice(k.pyth) # {}
    <2>1. PICK x \in GetPythPrice(k.pyth) : a = [feed |-> k.pyth, answer |-> x]
        BY <1>3 DEF GetPrice
    <2>2. k.pyth # NULL_PUBKEY
        BY <2>1 DEF GetPythPrice
    <2>3. PICK f \in PythFeeds : f = k.pyth /\ f \in Feeds
        BY <1>1, <2>2 DEF Feeds
    <2>4. PICK m \in PythPriceToDecimal(feed[f].price, Expo[f]),
               s \in PythPriceToDecimal(feed[f].ema, Expo[f]) :
             /\ slot - feed[f].slot <= STALE_AFTER_SLOTS_ELAPSED
             /\ x = [market |-> m, smoothed |-> {s}]
        BY <2>1, <2>2, <2>3 DEF GetPythPrice
    <2>5. Stands(f, feed[f].price, m)
        BY <1>2, <2>3, PythStands
    <2>6. a.feed = f /\ a.answer.market = m /\ a.answer.smoothed # {}
        BY <2>1, <2>3, <2>4
    <2> QED BY <2>2, <2>3, <2>4, <2>5, <2>6
<1>4. CASE ~(GetPythPrice(k.pyth) # {})
    <2>1. PICK x \in GetSwitchboardPrice(k.switchboard) : a = [feed |-> k.switchboard, answer |-> x]
        BY <1>4 DEF GetPrice
    <2>2. k.switchboard # NULL_PUBKEY
        BY <2>1 DEF GetSwitchboardPrice
    <2>3. PICK f \in SwitchboardFeeds : f = k.switchboard /\ f \in Feeds
        BY <1>1, <2>2 DEF Feeds
    <2>p. PICK p : p = feed[f]
        OBVIOUS
    <2>4. PICK m \in IF f \in SwitchboardV1 THEN GetSwitchboardPriceV1(p)
                     ELSE GetSwitchboardPriceV2(f, p) :
             /\ slot - p.slot < STALE_AFTER_SLOTS_ELAPSED
             /\ x = [market |-> m, smoothed |-> {}]
        BY <2>1, <2>2, <2>3, <2>p DEF GetSwitchboardPrice
    <2>5. p.price \in Int /\ p.slot \in Int
        BY <1>2, <2>3, <2>p
    <2>6. Stands(f, p.price, m)
        <3>1. CASE f \in SwitchboardV1
            BY <2>4, <2>5, <3>1, SwitchboardV1Stands
        <3>2. CASE f \notin SwitchboardV1
            <4>1. f \in SwitchboardV2
                BY <3>2 DEF SwitchboardFeeds
            <4> QED BY <2>4, <2>5, <3>2, <4>1, SwitchboardV2Stands
        <3> QED BY <3>1, <3>2
    <2>7. a.feed = f /\ a.answer.market = m
        BY <2>1, <2>3, <2>4
    <2> QED BY <1>1, <2>2, <2>3, <2>p, <2>4, <2>5, <2>6, <2>7
<1> QED BY <1>3, <1>4

-----------------------------------------------------------------------------
(* The inductive invariant: the three properties hold together.            *)

PriceInv == TypeOK /\ PricedByConfiguredOracle /\ SmoothedPriceBelongs /\ PriceIsPublished

\* PriceIsPublished is about one price.
LEMMA PublishedStands ==
    /\ PriceIsPublished <=> (live => Stands(market_from.feed, market_from.price, market_price))
    /\ PriceIsPublished' <=>
          (live' => Stands(market_from'.feed, market_from'.price, market_price'))
<1>1. PriceIsPublished <=> (live => Stands(market_from.feed, market_from.price, market_price))
    BY DEF PriceIsPublished, Stands
<1>2. PriceIsPublished' <=>
          (live' => Stands(market_from'.feed, market_from'.price, market_price'))
    BY DEF PriceIsPublished, Stands, Denominator, Numerator, Precision
<1> QED BY <1>1, <1>2

\* The reading a price is taken from is a source.
LEMMA FromSource ==
    ASSUME TypeOK, NEW f \in Feeds
    PROVE  /\ From(f) \in Source /\ From(f).feed = f
           /\ From(f).slot = feed[f].slot /\ From(f).price = feed[f].price
<1>1. feed[f] \in Publication
    BY DEF TypeOK
<1> QED BY <1>1 DEF From, Source, Publication

\* No reserve is priced at first.
LEMMA InitPriceInv == Init => PriceInv
<1> SUFFICES ASSUME Init PROVE PriceInv
    OBVIOUS
<1>1. live = FALSE
    BY DEF Init
<1>2. TypeOK
    <2>1. /\ slot \in 1..MaxSlot /\ updated \in 0..MaxSlot /\ market_price \in U128
          /\ smoothed_market_price \in U128
        BY PriceFeedAssumption, WadAssumption DEF Init, U128
    <2>2. At(0, Plain(0)) \in Publication
        BY PriceFeedAssumption DEF At, Plain, Publication
    <2>3. feed \in [Feeds -> Publication]
        BY <2>2 DEF Init
    <2>4. keys \in Keys
        BY DEF Init, Keys
    <2>5. market_from \in Source /\ smoothed_from \in Source
        BY PriceFeedAssumption DEF Init, Nowhere, Source
    <2>6. live \in BOOLEAN /\ stale \in BOOLEAN
        BY DEF Init
    <2> QED BY <2>1, <2>3, <2>4, <2>5, <2>6 DEF TypeOK
<1>3. PriceIsPublished
    BY <1>1, PublishedStands
<1> QED BY <1>1, <1>2, <1>3 DEF PriceInv, PricedByConfiguredOracle, SmoothedPriceBelongs

\* What the reserve holds is as it was: a publication, the clock.
LEMMA ReserveUntouched ==
    ASSUME PriceInv, TypeOK', UNCHANGED <<keys, live, stale, updated, priceVars>>
    PROVE  PriceInv'
<1>1. /\ keys' = keys /\ live' = live /\ stale' = stale /\ updated' = updated
      /\ market_price' = market_price /\ market_from' = market_from
      /\ smoothed_from' = smoothed_from
    BY DEF priceVars
<1>2. PriceIsPublished'
    BY <1>1, PublishedStands DEF PriceInv
<1>3. PricedByConfiguredOracle' /\ SmoothedPriceBelongs'
    BY <1>1 DEF PriceInv, PricedByConfiguredOracle, SmoothedPriceBelongs
<1> QED BY <1>2, <1>3 DEF PriceInv

\* A publication changes no price.
LEMMA PublishPriceInv ==
    ASSUME PriceInv, NEW f \in Feeds, NEW reading, Publish(f, reading),
           reading.price \in Int, reading.conf \in Nat, reading.ema \in Int
    PROVE  PriceInv'
<1>1. TypeOK /\ UNCHANGED <<slot, keys, live, stale, updated, priceVars>>
    BY DEF Publish, PriceInv
<1>2. feed' \in [Feeds -> Publication]
    <2>1. slot \in 0..MaxSlot
        BY <1>1, PriceFeedAssumption DEF TypeOK
    <2>2. At(slot, reading) \in Publication
        BY <2>1 DEF At, Publication
    <2>3. feed' = [feed EXCEPT ![f] = At(slot, reading)] /\ feed \in [Feeds -> Publication]
        BY <1>1 DEF Publish, TypeOK
    <2> QED BY <2>2, <2>3
<1>3. TypeOK'
    BY <1>1, <1>2 DEF TypeOK, priceVars
<1> QED BY <1>1, <1>3, ReserveUntouched DEF priceVars

\* A price is taken at initialisation; the reserve is stale until refreshed.
LEMMA InitReservePriceInv ==
    ASSUME PriceInv, NEW k \in OracleKeys, InitReserve(k)
    PROVE  PriceInv'
<1>0. TypeOK /\ k \in Keys
    BY DEF PriceInv, OracleKeys
<1>1. PICK p \in GetPrice(k, TRUE) :
         /\ p.answer.market \in U128 /\ p.answer.smoothed \subseteq U128
         /\ market_price' = p.answer.market /\ market_from' = From(p.feed)
         /\ smoothed_market_price' \in IF p.answer.smoothed = {} THEN {p.answer.market}
                                       ELSE p.answer.smoothed
         /\ smoothed_from' = From(p.feed)
    BY DEF InitReserve
<1>2. /\ live' = TRUE /\ keys' = k /\ stale' = TRUE /\ updated' = slot /\ slot' = slot
      /\ feed' = feed
    BY DEF InitReserve
<1>3. p.feed \in Feeds /\ Stands(p.feed, feed[p.feed].price, p.answer.market)
    BY <1>0, PriceAnswered
<1>4. From(p.feed) \in Source /\ From(p.feed).feed = p.feed
      /\ From(p.feed).price = feed[p.feed].price
    BY <1>0, <1>3, FromSource
<1>5. TypeOK'
    <2>1. smoothed_market_price' \in U128 /\ market_price' \in U128
        BY <1>1
    <2>2. slot \in 1..MaxSlot /\ slot \in 0..MaxSlot
        BY <1>0, PriceFeedAssumption DEF TypeOK
    <2>3. live' \in BOOLEAN /\ stale' \in BOOLEAN
        BY <1>2
    <2> QED BY <1>0, <1>1, <1>2, <1>4, <2>1, <2>2, <2>3 DEF TypeOK
<1>6. PriceIsPublished'
    BY <1>1, <1>3, <1>4, PublishedStands
<1>7. PricedByConfiguredOracle' /\ SmoothedPriceBelongs'
    BY <1>2 DEF PricedByConfiguredOracle, SmoothedPriceBelongs
<1> QED BY <1>5, <1>6, <1>7 DEF PriceInv

\* A refresh takes the price of a feed configured now.
LEMMA RefreshPriceInv ==
    ASSUME PriceInv, NEW passed, RefreshReserve(passed)
    PROVE  PriceInv'
<1>0. TypeOK /\ keys \in Keys
    BY DEF PriceInv, TypeOK
<1>1. PICK p \in GetPrice(keys, passed) :
         /\ p.answer.market \in U128 /\ p.answer.smoothed \subseteq U128
         /\ market_price' = p.answer.market /\ market_from' = From(p.feed)
         /\ SetSmoothed(p)
    BY DEF RefreshReserve
<1>2. /\ live' = live /\ keys' = keys /\ stale' = FALSE /\ updated' = slot /\ slot' = slot
      /\ feed' = feed
    BY DEF RefreshReserve
<1>3. /\ p.feed \in Feeds /\ p.feed \in {keys.pyth, keys.switchboard} \ {NULL_PUBKEY}
      /\ slot - feed[p.feed].slot <= STALE_AFTER_SLOTS_ELAPSED
      /\ Stands(p.feed, feed[p.feed].price, p.answer.market)
      /\ p.answer.smoothed = {} => p.feed = keys.switchboard
    BY <1>0, PriceAnswered
<1>4. /\ From(p.feed) \in Source /\ From(p.feed).feed = p.feed
      /\ From(p.feed).price = feed[p.feed].price /\ From(p.feed).slot = feed[p.feed].slot
    BY <1>0, <1>3, FromSource
<1>5. \/ smoothed_from' = From(p.feed) /\ smoothed_market_price' \in U128
      \/ /\ smoothed_from' = smoothed_from /\ smoothed_market_price' = smoothed_market_price
         /\ keys.pyth # NULL_PUBKEY /\ p.answer.smoothed = {}
    BY <1>1 DEF SetSmoothed
<1>6. TypeOK'
    <2>1. smoothed_market_price' \in U128 /\ market_price' \in U128 /\ smoothed_from' \in Source
        BY <1>0, <1>1, <1>4, <1>5 DEF TypeOK
    <2>2. slot \in 1..MaxSlot /\ slot \in 0..MaxSlot
        BY <1>0, PriceFeedAssumption DEF TypeOK
    <2>3. live' \in BOOLEAN /\ stale' \in BOOLEAN
        BY <1>0, <1>2 DEF TypeOK
    <2> QED BY <1>0, <1>1, <1>2, <1>4, <2>1, <2>2, <2>3 DEF TypeOK
<1>7. PriceIsPublished'
    BY <1>1, <1>3, <1>4, PublishedStands
<1>8. PricedByConfiguredOracle'
    BY <1>1, <1>2, <1>3, <1>4 DEF PricedByConfiguredOracle
<1>9. SmoothedPriceBelongs'
    BY <1>1, <1>2, <1>3, <1>4, <1>5 DEF SmoothedPriceBelongs
<1> QED BY <1>6, <1>7, <1>8, <1>9 DEF PriceInv

\* New keys leave the old price behind, and mark it stale.
LEMMA OraclesPriceInv ==
    ASSUME PriceInv, NEW k \in OracleKeys, UpdateReserveOracles(k)
    PROVE  PriceInv'
<1>1. /\ TypeOK /\ k \in Keys /\ keys' = k /\ stale' = TRUE /\ live' = live /\ slot' = slot
      /\ updated' = updated /\ feed' = feed /\ UNCHANGED priceVars
    BY DEF PriceInv, OracleKeys, UpdateReserveOracles
<1>2. stale' \in BOOLEAN
    BY <1>1
<1>3. TypeOK'
    BY <1>1, <1>2 DEF TypeOK, priceVars
<1>4. PriceIsPublished'
    BY <1>1, PublishedStands DEF PriceInv, priceVars
<1>5. PricedByConfiguredOracle' /\ SmoothedPriceBelongs'
    BY <1>1 DEF PricedByConfiguredOracle, SmoothedPriceBelongs
<1> QED BY <1>3, <1>4, <1>5 DEF PriceInv

\* Every step keeps the prices what feeds published.
LEMMA NextPriceInv == PriceInv /\ [Next]_vars => PriceInv'
<1> SUFFICES ASSUME PriceInv, [Next]_vars PROVE PriceInv'
    OBVIOUS
<1>0. TypeOK
    BY DEF PriceInv
<1>1. ASSUME Tick PROVE PriceInv'
    <2>1. /\ slot < MaxSlot /\ slot' = slot + 1 /\ feed' = feed
          /\ UNCHANGED <<keys, live, stale, updated, priceVars>>
        BY <1>1 DEF Tick
    <2>2. slot' \in 1..MaxSlot
        BY <1>0, <2>1, PriceFeedAssumption DEF TypeOK
    <2>3. TypeOK'
        BY <1>0, <2>1, <2>2 DEF TypeOK, priceVars
    <2> QED BY <2>1, <2>3, ReserveUntouched
<1>2. ASSUME NEW f \in PythFeeds, NEW reading \in PythReadings[f], Publish(f, reading)
      PROVE  PriceInv'
    <2>1. f \in Feeds /\ reading \in [price : Int, conf : Nat, ema : Int]
        BY PriceFeedAssumption DEF Feeds
    <2> QED BY <1>2, <2>1, PublishPriceInv
<1>3. ASSUME NEW f \in SwitchboardFeeds, NEW price \in SwitchboardReadings[f], Publish(f, Plain(price))
      PROVE  PriceInv'
    <2>1. f \in Feeds /\ price \in Int
        BY PriceFeedAssumption DEF Feeds
    <2>2. Plain(price).price \in Int /\ Plain(price).conf \in Nat /\ Plain(price).ema \in Int
        BY <2>1 DEF Plain
    <2> QED BY <1>3, <2>1, <2>2, PublishPriceInv
<1>4. ASSUME NEW k \in OracleKeys, InitReserve(k) \/ UpdateReserveOracles(k) PROVE PriceInv'
    BY <1>4, InitReservePriceInv, OraclesPriceInv
<1>5. ASSUME NEW passed \in BOOLEAN, RefreshReserve(passed) PROVE PriceInv'
    BY <1>5, RefreshPriceInv
<1>6. ASSUME UNCHANGED vars PROVE PriceInv'
    <2>1. UNCHANGED <<keys, live, stale, updated, priceVars>> /\ slot' = slot /\ feed' = feed
        BY <1>6 DEF vars, priceVars
    <2>2. TypeOK'
        BY <1>0, <2>1 DEF TypeOK, priceVars
    <2> QED BY <2>1, <2>2, ReserveUntouched
<1> QED BY <1>1, <1>2, <1>3, <1>4, <1>5, <1>6 DEF Next

\* The invariant holds always.
LEMMA PriceInvariant == Spec => []PriceInv
    BY InitPriceInv, NextPriceInv, PTL DEF Spec

-----------------------------------------------------------------------------
(* Theorems.                                                               *)

\* However publications, refreshes and changes of the oracle keys interleave,
\* a reserve that is not stale was priced by a feed it is configured with, from
\* a publication that was recent (get_price, process_update_reserve_config).
THEOREM AlwaysPricedByOracle == Spec => []PricedByConfiguredOracle
<1>1. PriceInv => PricedByConfiguredOracle
    BY DEF PriceInv
<1> QED BY <1>1, PriceInvariant, PTL

\* The market price and the smoothed price of a usable reserve come from one
\* publication, unless Switchboard stands in for a configured Pyth feed
\* (_refresh_reserve's three cases).
THEOREM SmoothedAlwaysBelongs == Spec => []SmoothedPriceBelongs
<1>1. PriceInv => SmoothedPriceBelongs
    BY DEF PriceInv
<1> QED BY <1>1, PriceInvariant, PTL

\* pyth_price_to_decimal and both Switchboard readers truncate: for every
\* exponent, scale and publication the stored price is below the published one
\* by less than the reader's precision, and never negative.
THEOREM PricesArePublished == Spec => []PriceIsPublished
<1>1. PriceInv => PriceIsPublished
    BY DEF PriceInv
<1> QED BY <1>1, PriceInvariant, PTL
=============================================================================
