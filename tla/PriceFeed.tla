----------------------------- MODULE PriceFeed -----------------------------
(***************************************************************************)
(* Where a reserve's two prices come from: sdk/src/oracles.rs, the oracle  *)
(* part of program/src/processor.rs, and the feeds they read.  A Pyth feed *)
(* publishes a price, its confidence interval and a moving average;        *)
(* Switchboard feeds (versions 1 and 2) publish a price only and are asked *)
(* when Pyth does not answer.  Feeds, refreshes and the owner's changes of *)
(* the oracle keys interleave freely.                                      *)
(*                                                                         *)
(* market_from and smoothed_from are history variables: the feed, slot and *)
(* reading a stored price was taken from.                                  *)
(***************************************************************************)
EXTENDS WadMath

CONSTANTS
    PythFeeds, SwitchboardV1, SwitchboardV2,  \* price accounts
    NULL_PUBKEY,
    Expo,                       \* Expo[f]: decimal exponent of a Pyth feed
    Scale,                      \* Scale[f]: decimal scale of a version 2 feed
    PythReadings,               \* by feed, its publications: [price, conf, ema], integers
    SwitchboardReadings,        \* by feed, its results in units of 10^-Scale, or of 1/FloatUnit
    PRICE_QUOTIENT,             \* 10^9: decimals kept of a version 1 result
    FloatUnit,                  \* version 1 results are multiples of 1/FloatUnit
    PYTH_CONFIDENCE_RATIO,
    STALE_AFTER_SLOTS_ELAPSED,
    MaxSlot                     \* bound on the clock

SwitchboardFeeds == SwitchboardV1 \cup SwitchboardV2

Feeds == PythFeeds \cup SwitchboardFeeds

ASSUME PriceFeedAssumption ==
    /\ NULL_PUBKEY \notin Feeds /\ MaxSlot \in Nat \ {0}
    /\ Expo \in [PythFeeds -> Int] /\ Scale \in [SwitchboardV2 -> Nat]
    /\ DOMAIN PythReadings = PythFeeds /\ DOMAIN SwitchboardReadings = SwitchboardFeeds
    /\ \A f \in PythFeeds : PythReadings[f] \subseteq [price : Int, conf : Nat, ema : Int]
    /\ \A f \in SwitchboardFeeds : SwitchboardReadings[f] \subseteq Int
    /\ PRICE_QUOTIENT \in Nat \ {0} /\ FloatUnit \in Nat \ {0}
    /\ PythFeeds \cap SwitchboardFeeds = {} /\ WAD % PRICE_QUOTIENT = 0
    /\ PYTH_CONFIDENCE_RATIO \in Nat /\ STALE_AFTER_SLOTS_ELAPSED \in Nat

VARIABLES
    slot,
    feed,           \* feed[f]: the last usable publication and its slot
    keys,           \* the oracle keys of the reserve
    live,           \* the reserve is initialised
    stale,          \* last_update.stale
    updated,        \* last_update.slot
    market_price, smoothed_market_price,
    market_from, smoothed_from

priceVars == <<market_price, smoothed_market_price, market_from, smoothed_from>>
vars == <<slot, feed, keys, live, stale, updated, market_price, smoothed_market_price,
          market_from, smoothed_from>>

Keys == [pyth : PythFeeds \cup {NULL_PUBKEY}, switchboard : SwitchboardFeeds \cup {NULL_PUBKEY}]

OracleKeys == {k \in Keys : k.pyth # NULL_PUBKEY \/ k.switchboard # NULL_PUBKEY}

Publication ==
    [slot : 0..MaxSlot, price : Int, conf : Nat, ema : Int]

\* a result of a Switchboard feed as a publication
Plain(price) == [price |-> price, conf |-> 0, ema |-> price]

At(s, reading) == [slot |-> s, price |-> reading.price, conf |-> reading.conf,
                   ema |-> reading.ema]

Nowhere == [feed |-> NULL_PUBKEY, slot |-> 0, price |-> 0]

-----------------------------------------------------------------------------
(* Reading a feed: {} when it gives no price, else one [market, smoothed]. *)

PriceIf(ok, value) == IF ok THEN {value} ELSE {}

\* 10u64.pow
TenTo(n) ==
    LET power[i \in 0..n] == IF i = 0 THEN 1 ELSE 10 * power[i - 1]
    IN  power[n]

\* mutant: the quotient rounded to the nearest wad
ToDecimalRounded(price, expo) ==
    IF expo >= 0 THEN PriceIf(price >= 0, FromU64(price) * TenTo(expo))
    ELSE PriceIf(price >= 0, (FromU64(price) + TenTo(-expo) \div 2) \div TenTo(-expo))

\* pyth_price_to_decimal
PythPriceToDecimal(price, expo) ==
    IF expo >= 0
    THEN PriceIf(price >= 0 /\ TenTo(expo) <= U64_MAX, FromU64(price) * TenTo(expo))
    ELSE PriceIf(price >= 0 /\ TenTo(-expo) <= U64_MAX, FromU64(price) \div TenTo(-expo))

\* get_pyth_price; the moving average is taken without a check of its own
GetPythPrice(f) ==
    IF f = NULL_PUBKEY THEN {}
    ELSE LET p == feed[f]
         IN  {[market |-> m, smoothed |-> {s}] :
                m \in {x \in PythPriceToDecimal(p.price, Expo[f]) :
                          /\ slot - p.slot <= STALE_AFTER_SLOTS_ELAPSED
                          /\ MinOf(p.conf * PYTH_CONFIDENCE_RATIO, U64_MAX) <= p.price},
                s \in PythPriceToDecimal(p.ema, Expo[f])}

\* version 1 casts a float to u128: a negative result becomes zero
GetSwitchboardPriceV1(p) ==
    {FromU64((MaxOf(p.price, 0) * PRICE_QUOTIENT) \div FloatUnit) \div PRICE_QUOTIENT}

GetSwitchboardPriceV2(f, p) == PriceIf(p.price >= 0, FromU64(p.price) \div TenTo(Scale[f]))

GetSwitchboardPrice(f) ==
    IF f = NULL_PUBKEY THEN {}
    ELSE LET p == feed[f]
         IN  {[market |-> m, smoothed |-> {}] :
                m \in {x \in IF f \in SwitchboardV1 THEN GetSwitchboardPriceV1(p)
                             ELSE GetSwitchboardPriceV2(f, p) :
                          slot - p.slot < STALE_AFTER_SLOTS_ELAPSED}}

\* get_price: Pyth, and Switchboard when Pyth gives none and it was passed
\* in; the feed that answered is kept for the history
GetPrice(k, passed) ==
    IF GetPythPrice(k.pyth) # {}
    THEN {[feed |-> k.pyth, answer |-> a] : a \in GetPythPrice(k.pyth)}
    ELSE {[feed |-> k.switchboard, answer |-> a] :
             a \in IF passed THEN GetSwitchboardPrice(k.switchboard) ELSE {}}

From(f) == [feed |-> f, slot |-> feed[f].slot, price |-> feed[f].price]

-----------------------------------------------------------------------------

Init ==
    /\ slot = 1
    /\ feed = [f \in Feeds |-> At(0, Plain(0))]
    /\ keys = [pyth |-> NULL_PUBKEY, switchboard |-> NULL_PUBKEY]
    /\ live = FALSE /\ stale = FALSE /\ updated = 0
    /\ market_price = 0 /\ smoothed_market_price = 0
    /\ market_from = Nowhere /\ smoothed_from = Nowhere

Tick ==
    /\ slot < MaxSlot
    /\ slot' = slot + 1
    /\ UNCHANGED <<feed, keys, live, stale, updated, priceVars>>

\* A feed publishes.  A Pyth publication that is not trading leaves the last
\* one that was in use, so it is no step here.
Publish(f, reading) ==
    /\ feed' = [feed EXCEPT ![f] = At(slot, reading)]
    /\ UNCHANGED <<slot, keys, live, stale, updated, priceVars>>

\* the price part of process_init_reserve
InitReserve(k) ==
    /\ ~live
    /\ \E p \in GetPrice(k, TRUE) :
          /\ p.answer.market \in U128 /\ p.answer.smoothed \subseteq U128
          /\ market_price' = p.answer.market /\ market_from' = From(p.feed)
          /\ smoothed_market_price' \in IF p.answer.smoothed = {} THEN {p.answer.market}
                                        ELSE p.answer.smoothed
          /\ smoothed_from' = From(p.feed)
    /\ live' = TRUE /\ keys' = k /\ stale' = TRUE /\ updated' = slot
    /\ UNCHANGED <<slot, feed>>

\* mutant: the case of a reserve without Pyth forgotten
SmoothedNeverReset(p) ==
    IF p.answer.smoothed # {}
    THEN smoothed_market_price' \in p.answer.smoothed /\ smoothed_from' = From(p.feed)
    ELSE UNCHANGED <<smoothed_market_price, smoothed_from>>

\* without Pyth there is one price; with it, the average of its last answer
SetSmoothed(p) ==
    IF keys.pyth = NULL_PUBKEY
    THEN smoothed_market_price' = p.answer.market /\ smoothed_from' = From(p.feed)
    ELSE IF p.answer.smoothed # {}
    THEN smoothed_market_price' \in p.answer.smoothed /\ smoothed_from' = From(p.feed)
    ELSE UNCHANGED <<smoothed_market_price, smoothed_from>>

\* the price part of _refresh_reserve; the caller may leave Switchboard out
RefreshReserve(passed) ==
    /\ live
    /\ \E p \in GetPrice(keys, passed) :
          /\ p.answer.market \in U128 /\ p.answer.smoothed \subseteq U128
          /\ market_price' = p.answer.market /\ market_from' = From(p.feed)
          /\ SetSmoothed(p)
    /\ stale' = FALSE /\ updated' = slot
    /\ UNCHANGED <<slot, feed, keys, live>>

\* mutant: the mark_stale at the end forgotten
KeysChangedQuietly(k) ==
    /\ live /\ keys' = k
    /\ UNCHANGED <<slot, feed, live, stale, updated, priceVars>>

\* the oracle part of process_update_reserve_config, by the market owner
UpdateReserveOracles(k) ==
    /\ live
    /\ keys' = k
    /\ stale' = TRUE
    /\ UNCHANGED <<slot, feed, live, updated, priceVars>>

Next ==
    \/ Tick
    \/ \E f \in PythFeeds : \E reading \in PythReadings[f] : Publish(f, reading)
    \/ \E f \in SwitchboardFeeds : \E price \in SwitchboardReadings[f] : Publish(f, Plain(price))
    \/ \E k \in OracleKeys : InitReserve(k) \/ UpdateReserveOracles(k)
    \/ \E passed \in BOOLEAN : RefreshReserve(passed)

Spec == Init /\ [][Next]_vars

-----------------------------------------------------------------------------
(* Properties.                                                             *)

Source == [feed : Feeds \cup {NULL_PUBKEY}, slot : 0..MaxSlot, price : Int]

TypeOK ==
    /\ slot \in 1..MaxSlot /\ updated \in 0..MaxSlot
    /\ feed \in [Feeds -> Publication]
    /\ keys \in Keys /\ live \in BOOLEAN /\ stale \in BOOLEAN
    /\ market_price \in U128 /\ smoothed_market_price \in U128
    /\ market_from \in Source /\ smoothed_from \in Source

(***************************************************************************)
(* A reserve that is not marked stale is priced by an oracle it is         *)
(* configured with now, with a publication that was recent when the        *)
(* reserve was refreshed: no order of publications, refreshes and key      *)
(* changes leaves the price of a replaced feed, or of a silent one, usable.*)
(***************************************************************************)
PricedByConfiguredOracle ==
    live /\ ~stale =>
        /\ market_from.feed \in {keys.pyth, keys.switchboard} \ {NULL_PUBKEY}
        /\ updated - market_from.slot <= STALE_AFTER_SLOTS_ELAPSED

(***************************************************************************)
(* The two prices of a usable reserve belong together: without Pyth they   *)
(* are one price, and when Pyth gave the market price the smoothed one is  *)
(* the average of the same publication.  Only while Switchboard stands in  *)
(* for a configured Pyth feed may the smoothed price be older (or of a     *)
(* feed configured before).                                                *)
(***************************************************************************)
SmoothedPriceBelongs ==
    live /\ ~stale =>
        \/ smoothed_from = market_from
        \/ /\ keys.pyth # NULL_PUBKEY
           /\ market_from.feed = keys.switchboard

(***************************************************************************)
(* A stored price is the published one, truncated: exponents and scales of *)
(* either sign lose less than one wad, a version 1 float less than one     *)
(* unit of its quotient.  A negative publication never becomes a price,    *)
(* but for version 1, whose cast turns it into 0.                          *)
(***************************************************************************)
Denominator(f) ==
    IF f \in PythFeeds THEN IF Expo[f] < 0 THEN TenTo(-Expo[f]) ELSE 1
    ELSE IF f \in SwitchboardV1 THEN FloatUnit ELSE TenTo(Scale[f])

Numerator(f) ==
    IF f \in PythFeeds /\ Expo[f] > 0 THEN TenTo(Expo[f]) ELSE 1

Precision(f) == IF f \in SwitchboardV1 THEN WAD \div PRICE_QUOTIENT ELSE 1

PriceIsPublished ==
    live =>
        LET f     == market_from.feed
            exact == MaxOf(0, market_from.price) * Numerator(f) * WAD
        IN  /\ market_from.price < 0 => f \in SwitchboardV1
            /\ market_price * Denominator(f) <= exact
            /\ exact < (market_price + Precision(f)) * Denominator(f)
=============================================================================
