------------------------ MODULE StoredAccountsProofs ------------------------
(***************************************************************************)
(* Proofs about the accounts as bytes, for every number of positions,      *)
(* every set of reserves and keys, and every layout an older program left. *)
(***************************************************************************)
EXTENDS StoredAccounts, TLAPS

-----------------------------------------------------------------------------
(* Fields and their slots.                                                 *)

\* A field that is in the order has a slot.
LEMMA SlotIn ==
    ASSUME NEW order, NEW f \in Range(order)
    PROVE  Slot(order, f) \in DOMAIN order /\ order[Slot(order, f)] = f
<1>1. \E k \in DOMAIN order : order[k] = f
    BY DEF Range
<1> QED BY <1>1, Zenon DEF Slot

\* What is written in an order and read back in the same one is what was written.
LEMMA ReadWritten ==
    ASSUME NEW order, NEW rec
    PROVE  ReadFrom(SlotsOf(order), Written(order, rec)) = [f \in Range(order) |-> rec[f]]
<1>1. PICK R, at : R = Range(order) /\ at = SlotsOf(order)
    OBVIOUS
<1>2. DOMAIN at = R /\ \A f \in R : at[f] = Slot(order, f)
    BY <1>1 DEF SlotsOf
<1>3. \A f \in R : Written(order, rec)[at[f]] = rec[f]
    <2>1. ASSUME NEW f \in R PROVE Written(order, rec)[at[f]] = rec[f]
        <3>1. at[f] \in DOMAIN order /\ order[at[f]] = f
            BY <1>1, <1>2, SlotIn
        <3> QED BY <3>1 DEF Written
    <2> QED BY <2>1
<1> QED BY <1>1, <1>2, <1>3 DEF ReadFrom

\* A function on the first numbers is a sequence.
LEMMA ListIsSeq ==
    ASSUME NEW X, NEW n \in Nat, NEW s \in [1..n -> X]
    PROVE  s \in Seq(X)
    OBVIOUS

\* The entries of two sequences put together.
LEMMA ConcatAt ==
    ASSUME NEW X, NEW s \in Seq(X), NEW t \in Seq(X)
    PROVE  /\ s \o t \in Seq(X) /\ Len(s \o t) = Len(s) + Len(t)
           /\ \A k \in 1..Len(s) : (s \o t)[k] = s[k]
           /\ \A k \in 1..Len(t) : (s \o t)[Len(s) + k] = t[k]
    OBVIOUS

\* An order put together from two.
LEMMA ConcatRange ==
    ASSUME NEW X, NEW s \in Seq(X), NEW t \in Seq(X)
    PROVE  s \o t \in Seq(X) /\ Range(s \o t) = Range(s) \cup Range(t)
<1>1. PICK m \in Nat, n \in Nat : m = Len(s) /\ n = Len(t)
    OBVIOUS
<1>2. PICK c : c = s \o t
    OBVIOUS
<1>3. /\ c \in Seq(X) /\ DOMAIN c = 1..(m + n) /\ DOMAIN s = 1..m /\ DOMAIN t = 1..n
      /\ \A k \in 1..(m + n) : c[k] = IF k <= m THEN s[k] ELSE t[k - m]
    BY <1>1, <1>2
<1>4. Range(c) \subseteq Range(s) \cup Range(t)
    <2>1. ASSUME NEW k \in 1..(m + n) PROVE c[k] \in Range(s) \cup Range(t)
        <3>1. CASE k <= m
            <4>1. k \in DOMAIN s /\ c[k] = s[k]
                BY <1>3, <3>1
            <4> QED BY <4>1 DEF Range
        <3>2. CASE ~(k <= m)
            <4>1. k - m \in DOMAIN t /\ c[k] = t[k - m]
                BY <1>3, <3>2
            <4> QED BY <4>1 DEF Range
        <3> QED BY <3>1, <3>2
    <2> QED BY <1>3, <2>1 DEF Range
<1>5. Range(s) \subseteq Range(c)
    <2>1. ASSUME NEW k \in 1..m PROVE s[k] = c[k] /\ k \in 1..(m + n)
        BY <1>3
    <2> QED BY <1>3, <2>1 DEF Range
<1>6. Range(t) \subseteq Range(c)
    <2>1. ASSUME NEW k \in 1..n PROVE t[k] = c[m + k] /\ m + k \in 1..(m + n)
        <3>1. PICK j : j = m + k
            OBVIOUS
        <3>2. j \in 1..(m + n) /\ ~(j <= m) /\ j - m = k
            BY <3>1
        <3>3. c[j] = t[j - m]
            BY <1>3, <3>2
        <3> QED BY <3>1, <3>2, <3>3
    <2>2. \A k \in DOMAIN t : \E j \in DOMAIN c : c[j] = t[k]
        BY <1>3, <2>1
    <2> QED BY <2>2 DEF Range
<1> QED BY <1>2, <1>3, <1>4, <1>5, <1>6

-----------------------------------------------------------------------------
(* A reserve.                                                              *)

\* the fields that unpack_from_slice repairs, and those they are compared with
PairFields ==
    {"optimal_utilization_rate", "max_utilization_rate", "liquidation_bonus",
     "max_liquidation_bonus", "liquidation_threshold", "max_liquidation_threshold",
     "max_borrow_rate", "super_max_borrow_rate", "protocol_liquidation_fee"}

\* Both orders have them.
LEMMA ReserveFields ==
    ReservePacked = ReserveUnpacked /\ PairFields \subseteq Range(ReserveUnpacked)
<1>1. PICK a, b, c :
         /\ a = <<"version", "slot", "stale", "lending_market", "liquidity_mint", "mint_decimals",
                  "liquidity_supply", "pyth_oracle", "switchboard_oracle", "available_amount",
                  "borrowed_amount_wads", "cumulative_borrow_rate_wads", "market_price",
                  "collateral_mint", "mint_total_supply", "collateral_supply",
                  "optimal_utilization_rate", "loan_to_value_ratio", "liquidation_bonus",
                  "liquidation_threshold", "min_borrow_rate", "optimal_borrow_rate",
                  "max_borrow_rate", "borrow_fee_wad", "flash_loan_fee_wad",
                  "host_fee_percentage", "deposit_limit", "borrow_limit", "fee_receiver",
                  "protocol_liquidation_fee", "protocol_take_rate",
                  "accumulated_protocol_fees_wads">>
         /\ b = RateLimiterUnpacked
         /\ c = <<"added_borrow_weight_bps", "smoothed_market_price", "asset_type",
                  "max_utilization_rate", "super_max_borrow_rate", "max_liquidation_bonus",
                  "max_liquidation_threshold">>
    OBVIOUS
<1>2. ReserveUnpacked = a \o b \o c
    BY <1>1 DEF ReserveUnpacked
<1>3. PICK X : a \in Seq(X) /\ b \in Seq(X) /\ c \in Seq(X)
    <2>1. PICK X : X = Range(a) \cup Range(b) \cup Range(c)
        OBVIOUS
    <2>2. /\ a = [k \in 1..32 |-> a[k]] /\ b = [k \in 1..5 |-> b[k]] /\ c = [k \in 1..7 |-> c[k]]
        BY <1>1 DEF RateLimiterUnpacked
    <2>3. /\ \A k \in 1..32 : a[k] \in X
          /\ \A k \in 1..5 : b[k] \in X
          /\ \A k \in 1..7 : c[k] \in X
        BY <2>1, <2>2 DEF Range
    <2>4. a \in [1..32 -> X] /\ b \in [1..5 -> X] /\ c \in [1..7 -> X]
        BY <2>2, <2>3
    <2>5. 32 \in Nat /\ 5 \in Nat /\ 7 \in Nat
        OBVIOUS
    <2>6. a \in Seq(X) /\ b \in Seq(X) /\ c \in Seq(X)
        BY <2>4, <2>5, ListIsSeq
    <2> QED BY <2>6
<1>4. Range(ReserveUnpacked) = Range(a) \cup Range(b) \cup Range(c)
    <2>0. a \o b \in Seq(X) /\ Range(a \o b) = Range(a) \cup Range(b)
        BY <1>3, ConcatRange
    <2>1. PICK ab : ab = a \o b
        OBVIOUS
    <2>2. ab \in Seq(X) /\ Range(ab) = Range(a) \cup Range(b)
        BY <2>0, <2>1
    <2>3. ab \o c \in Seq(X) /\ Range(ab \o c) = Range(ab) \cup Range(c)
        BY <1>3, <2>2, ConcatRange
    <2> QED BY <1>2, <2>1, <2>2, <2>3
<1>5. {"optimal_utilization_rate", "liquidation_bonus", "liquidation_threshold",
       "max_borrow_rate", "protocol_liquidation_fee"} \subseteq Range(a)
    <2>1. DOMAIN a = 1..32 /\ a[17] = "optimal_utilization_rate" /\ a[19] = "liquidation_bonus"
          /\ a[20] = "liquidation_threshold" /\ a[23] = "max_borrow_rate"
          /\ a[30] = "protocol_liquidation_fee"
        BY <1>1
    <2> QED BY <2>1 DEF Range
<1>6. {"max_utilization_rate", "super_max_borrow_rate", "max_liquidation_bonus",
       "max_liquidation_threshold"} \subseteq Range(c)
    <2>1. DOMAIN c = 1..7 /\ c[4] = "max_utilization_rate" /\ c[5] = "super_max_borrow_rate"
          /\ c[6] = "max_liquidation_bonus" /\ c[7] = "max_liquidation_threshold"
        BY <1>1
    <2> QED BY <2>1 DEF Range
<1>7. ReservePacked = ReserveUnpacked
    BY Zenon DEF ReservePacked, ReserveUnpacked, RateLimiterPacked, RateLimiterUnpacked
<1> QED BY <1>4, <1>5, <1>6, <1>7 DEF PairFields

\* a reserve the program works with
ReserveState(r) ==
    /\ r = [f \in Range(ReserveUnpacked) |-> r[f]]
    /\ \A f \in PairFields : r[f] \in Nat

\* Whatever is in the slots, the reserve that is read from them is in order.
LEMMA UnpackOrder ==
    ASSUME StoredAssumption, NEW s, \A f \in PairFields : s[ReserveSlots[f]] \in Nat
    PROVE  ReserveState(UnpackReserve(s)) /\ PairsInOrder(UnpackReserve(s))
<1>1. PICK raw : raw = ReadFrom(ReserveSlots, s)
    OBVIOUS
<1>2. PICK r : r = UnpackReserve(s)
    OBVIOUS
<1>3. r = [raw EXCEPT
             !.max_utilization_rate = Larger(raw.optimal_utilization_rate, @),
             !.max_liquidation_bonus = Larger(raw.liquidation_bonus, @),
             !.max_liquidation_threshold = Larger(raw.liquidation_threshold, @),
             !.super_max_borrow_rate = Larger(raw.max_borrow_rate, @),
             !.protocol_liquidation_fee = Smaller(@, FeeCap)]
    BY <1>1, <1>2, Zenon DEF UnpackReserve
<1>4. raw = [f \in Range(ReserveUnpacked) |-> s[ReserveSlots[f]]]
    BY <1>1 DEF ReadFrom, ReserveSlots, SlotsOf
<1>5. PairFields \subseteq Range(ReserveUnpacked)
    BY ReserveFields
<1>6. DOMAIN raw = Range(ReserveUnpacked) /\ \A f \in PairFields : raw[f] \in Nat
    BY <1>4, <1>5
<1>7. r = [f \in Range(ReserveUnpacked) |-> r[f]]
    <2>1. PICK R : R = Range(ReserveUnpacked)
        OBVIOUS
    <2>2. DOMAIN raw = R
        BY <1>6, <2>1
    <2> QED BY <1>3, <2>1, <2>2
<1>8. /\ r.optimal_utilization_rate = raw.optimal_utilization_rate
      /\ r.liquidation_bonus = raw.liquidation_bonus
      /\ r.liquidation_threshold = raw.liquidation_threshold
      /\ r.max_borrow_rate = raw.max_borrow_rate
      /\ r.max_utilization_rate = Larger(raw.optimal_utilization_rate, raw.max_utilization_rate)
      /\ r.max_liquidation_bonus = Larger(raw.liquidation_bonus, raw.max_liquidation_bonus)
      /\ r.max_liquidation_threshold
            = Larger(raw.liquidation_threshold, raw.max_liquidation_threshold)
      /\ r.super_max_borrow_rate = Larger(raw.max_borrow_rate, raw.super_max_borrow_rate)
      /\ r.protocol_liquidation_fee = Smaller(raw.protocol_liquidation_fee, FeeCap)
    BY <1>3, <1>5, <1>6 DEF PairFields
<1>9. \A x, y \in Nat : /\ Larger(x, y) \in Nat /\ x <= Larger(x, y)
                        /\ Smaller(x, y) \in Nat /\ Smaller(x, y) <= y
    BY DEF Larger, Smaller
<1>10. FeeCap \in Nat
    BY DEF StoredAssumption
<1>11. /\ raw.optimal_utilization_rate \in Nat /\ raw.max_utilization_rate \in Nat
       /\ raw.liquidation_bonus \in Nat /\ raw.max_liquidation_bonus \in Nat
       /\ raw.liquidation_threshold \in Nat /\ raw.max_liquidation_threshold \in Nat
       /\ raw.max_borrow_rate \in Nat /\ raw.super_max_borrow_rate \in Nat
       /\ raw.protocol_liquidation_fee \in Nat
    BY <1>6 DEF PairFields
<1>12. PairsInOrder(r)
    <2>1. r.optimal_utilization_rate <= r.max_utilization_rate
        <3>1. PICK x \in Nat, y \in Nat : x = raw.optimal_utilization_rate /\ y = raw.max_utilization_rate
            BY <1>11
        <3>2. x <= Larger(x, y)
            BY <1>9
        <3> QED BY <1>8, <3>1, <3>2
    <2>2. r.liquidation_bonus <= r.max_liquidation_bonus
        <3>1. PICK x \in Nat, y \in Nat : x = raw.liquidation_bonus /\ y = raw.max_liquidation_bonus
            BY <1>11
        <3>2. x <= Larger(x, y)
            BY <1>9
        <3> QED BY <1>8, <3>1, <3>2
    <2>3. r.liquidation_threshold <= r.max_liquidation_threshold
        <3>1. PICK x \in Nat, y \in Nat : x = raw.liquidation_threshold /\ y = raw.max_liquidation_threshold
            BY <1>11
        <3>2. x <= Larger(x, y)
            BY <1>9
        <3> QED BY <1>8, <3>1, <3>2
    <2>4. r.max_borrow_rate <= r.super_max_borrow_rate
        <3>1. PICK x \in Nat, y \in Nat : x = raw.max_borrow_rate /\ y = raw.super_max_borrow_rate
            BY <1>11
        <3>2. x <= Larger(x, y)
            BY <1>9
        <3> QED BY <1>8, <3>1, <3>2
    <2>5. r.protocol_liquidation_fee <= FeeCap
        BY <1>8, <1>9, <1>10, <1>11
    <2> QED BY <2>1, <2>2, <2>3, <2>4, <2>5 DEF PairsInOrder
<1>13. \A f \in PairFields : r[f] \in Nat
    <2>1. /\ r.optimal_utilization_rate \in Nat /\ r.max_utilization_rate \in Nat
          /\ r.liquidation_bonus \in Nat /\ r.max_liquidation_bonus \in Nat
          /\ r.liquidation_threshold \in Nat /\ r.max_liquidation_threshold \in Nat
          /\ r.max_borrow_rate \in Nat /\ r.super_max_borrow_rate \in Nat
          /\ r.protocol_liquidation_fee \in Nat
        BY <1>8, <1>9, <1>10, <1>11
    <2> QED BY <2>1 DEF PairFields
<1> QED BY <1>2, <1>7, <1>12, <1>13 DEF ReserveState

\* A reserve in order is read back as it was saved.
LEMMA UnpackPackReserve ==
    ASSUME StoredAssumption, NEW r, ReserveState(r), PairsInOrder(r)
    PROVE  UnpackReserve(PackReserve(r)) = r
<1>1. PICK raw : raw = ReadFrom(ReserveSlots, PackReserve(r))
    OBVIOUS
<1>2. raw = [f \in Range(ReserveUnpacked) |-> r[f]]
    BY <1>1, ReserveFields, ReadWritten DEF ReserveSlots, PackReserve
<1>3. raw = r
    BY <1>2 DEF ReserveState
<1>4. UnpackReserve(PackReserve(r))
         = [r EXCEPT
             !.max_utilization_rate = Larger(r.optimal_utilization_rate, r.max_utilization_rate),
             !.max_liquidation_bonus = Larger(r.liquidation_bonus, r.max_liquidation_bonus),
             !.max_liquidation_threshold =
                 Larger(r.liquidation_threshold, r.max_liquidation_threshold),
             !.super_max_borrow_rate = Larger(r.max_borrow_rate, r.super_max_borrow_rate),
             !.protocol_liquidation_fee = Smaller(r.protocol_liquidation_fee, FeeCap)]
    BY <1>1, <1>3 DEF UnpackReserve
<1>5. \A x, y \in Nat : x <= y => Larger(x, y) = y /\ Smaller(x, y) = x
    BY DEF Larger, Smaller
<1>6. /\ Larger(r.optimal_utilization_rate, r.max_utilization_rate) = r.max_utilization_rate
      /\ Larger(r.liquidation_bonus, r.max_liquidation_bonus) = r.max_liquidation_bonus
      /\ Larger(r.liquidation_threshold, r.max_liquidation_threshold)
            = r.max_liquidation_threshold
      /\ Larger(r.max_borrow_rate, r.super_max_borrow_rate) = r.super_max_borrow_rate
      /\ Smaller(r.protocol_liquidation_fee, FeeCap) = r.protocol_liquidation_fee
    BY <1>5 DEF PairsInOrder, ReserveState, PairFields, StoredAssumption
<1>7. \A f \in DOMAIN r : UnpackReserve(PackReserve(r))[f] = r[f]
    BY <1>4, <1>6
<1> QED BY <1>2, <1>3, <1>4, <1>7

\* The reserves the program may find at first.
LEMMA OlderReserveNat ==
    ASSUME StoredAssumption, NEW s \in OlderReserves, NEW f \in PairFields
    PROVE  s[ReserveSlots[f]] \in Nat
<1>1. PICK c \in Percents \X Percents \X Percents \X Percents \X {0, 1},
           fee \in {0, FeeCap, FeeCap + 1}, n \in OlderLengths :
         s = Older(ReservePacked, ReserveWith(c, fee), n)
    BY DEF OlderReserves
<1>2. PICK base, rec :
         /\ base = Marked(ReservePacked)
         /\ rec = [base EXCEPT
                      !.optimal_utilization_rate = c[1], !.max_utilization_rate = c[1] + c[5],
                      !.liquidation_bonus = c[2], !.max_liquidation_bonus = c[2] + c[5],
                      !.liquidation_threshold = c[3], !.max_liquidation_threshold = c[3] + c[5],
                      !.max_borrow_rate = c[4], !.super_max_borrow_rate = c[4] + c[5],
                      !.protocol_liquidation_fee = fee, !.stale = 1, !.asset_type = 0]
         /\ s = Older(ReservePacked, rec, n)
    BY <1>1 DEF ReserveWith
<1>3. f \in Range(ReservePacked) /\ ReserveSlots[f] = Slot(ReservePacked, f)
    BY ReserveFields DEF ReserveSlots, SlotsOf
<1>4. DOMAIN base = Range(ReservePacked) /\ PairFields \subseteq DOMAIN base
    BY <1>2, ReserveFields DEF Marked
<1>5. /\ c[1] \in Nat /\ c[2] \in Nat /\ c[3] \in Nat /\ c[4] \in Nat /\ c[5] \in Nat /\ fee \in Nat
      /\ c[1] + c[5] \in Nat /\ c[2] + c[5] \in Nat /\ c[3] + c[5] \in Nat /\ c[4] + c[5] \in Nat
    <2>1. /\ c[1] \in Percents /\ c[2] \in Percents /\ c[3] \in Percents /\ c[4] \in Percents
          /\ c[5] \in {0, 1}
        OBVIOUS
    <2>2. Percents \subseteq Nat /\ FeeCap \in Nat
        BY DEF StoredAssumption
    <2>3. c[1] \in Nat /\ c[2] \in Nat /\ c[3] \in Nat /\ c[4] \in Nat
        BY <2>1, <2>2
    <2>4. c[5] \in Nat
        <3>1. PICK x : x = c[5] /\ x \in {0, 1}
            BY <2>1
        <3> QED BY <3>1
    <2>5. fee \in Nat
        BY <2>2
    <2> QED BY <2>3, <2>4, <2>5
<1>6. rec[f] \in Nat
    <2>1. /\ rec.optimal_utilization_rate = c[1] /\ rec.max_utilization_rate = c[1] + c[5]
          /\ rec.liquidation_bonus = c[2] /\ rec.max_liquidation_bonus = c[2] + c[5]
          /\ rec.liquidation_threshold = c[3] /\ rec.max_liquidation_threshold = c[3] + c[5]
          /\ rec.max_borrow_rate = c[4] /\ rec.super_max_borrow_rate = c[4] + c[5]
          /\ rec.protocol_liquidation_fee = fee
        BY <1>2, <1>4 DEF PairFields
    <2> QED BY <1>5, <2>1 DEF PairFields
<1>7. PICK k : k = Slot(ReservePacked, f) /\ k \in DOMAIN ReservePacked /\ ReservePacked[k] = f
    BY <1>3, SlotIn
<1>8. s[k] = IF k <= n THEN rec[ReservePacked[k]] ELSE 0
    BY <1>2, <1>7 DEF Older
<1> QED BY <1>3, <1>6, <1>7, <1>8

-----------------------------------------------------------------------------
(* A lending market.                                                       *)

\* the fields that are read as something else than they are stored
MarketKeys == {"owner", "whitelisted_liquidator", "risk_authority"}

\* The last two fields were added after the first release, the owner was not.
LEMMA MarketOrder ==
    /\ MarketPacked = MarketUnpacked /\ MarketKeys \subseteq Range(MarketUnpacked)
    /\ Len(MarketUnpacked) = 14 /\ DOMAIN MarketUnpacked = 1..14
    /\ MarketUnpacked[13] = "whitelisted_liquidator" /\ MarketUnpacked[14] = "risk_authority"
<1>1. PICK a, b, c :
         /\ a = <<"version", "bump_seed", "owner", "quote_currency", "token_program_id",
                  "oracle_program_id", "switchboard_oracle_program_id">>
         /\ b = RateLimiterUnpacked
         /\ c = <<"whitelisted_liquidator", "risk_authority">>
    OBVIOUS
<1>2. MarketUnpacked = a \o b \o c
    BY <1>1 DEF MarketUnpacked
<1>3. PICK X : X = Range(a) \cup Range(b) \cup Range(c)
    OBVIOUS
<1>4. a = [k \in 1..7 |-> a[k]] /\ b = [k \in 1..5 |-> b[k]] /\ c = [k \in 1..2 |-> c[k]]
    BY <1>1 DEF RateLimiterUnpacked
<1>5. a \in [1..7 -> X] /\ b \in [1..5 -> X] /\ c \in [1..2 -> X]
    BY <1>3, <1>4 DEF Range
<1>6. /\ a \in Seq(X) /\ b \in Seq(X) /\ c \in Seq(X)
      /\ Len(a) = 7 /\ Len(b) = 5 /\ Len(c) = 2
    <2>1. 7 \in Nat /\ 5 \in Nat /\ 2 \in Nat
        OBVIOUS
    <2>2. a \in Seq(X) /\ b \in Seq(X) /\ c \in Seq(X)
        BY <1>5, <2>1, ListIsSeq
    <2> QED BY <1>1, <2>2 DEF RateLimiterUnpacked
<1>7. PICK ab : ab = a \o b
    OBVIOUS
<1>8. ab \in Seq(X) /\ Len(ab) = 12 /\ ab[3] = a[3]
    <2>1. /\ a \o b \in Seq(X) /\ Len(a \o b) = Len(a) + Len(b)
          /\ \A k \in 1..Len(a) : (a \o b)[k] = a[k]
        BY <1>6, ConcatAt
    <2> QED BY <1>6, <1>7, <2>1
<1>9. PICK d : d = ab \o c
    OBVIOUS
<1>12. d \in Seq(X) /\ Len(d) = 14 /\ d[3] = ab[3] /\ d[12 + 1] = c[1] /\ d[12 + 2] = c[2]
    <2>1. ab \in Seq(X) /\ c \in Seq(X)
        BY <1>6, <1>8
    <2>2. /\ ab \o c \in Seq(X) /\ Len(ab \o c) = Len(ab) + Len(c)
          /\ \A k \in 1..Len(ab) : (ab \o c)[k] = ab[k]
          /\ \A k \in 1..Len(c) : (ab \o c)[Len(ab) + k] = c[k]
        BY <2>1, ConcatAt
    <2> QED BY <1>6, <1>8, <1>9, <2>2
<1>13. DOMAIN d = 1..14 /\ d[13] = c[1] /\ d[14] = c[2]
    BY <1>12
<1>10. MarketKeys \subseteq Range(d)
    <2>1. d[3] = "owner" /\ d[13] = "whitelisted_liquidator" /\ d[14] = "risk_authority"
        BY <1>1, <1>8, <1>12, <1>13
    <2> QED BY <1>13, <2>1 DEF MarketKeys, Range
<1>11. MarketPacked = MarketUnpacked
    BY Zenon DEF MarketPacked, MarketUnpacked, RateLimiterPacked, RateLimiterUnpacked
<1> QED BY <1>1, <1>2, <1>7, <1>9, <1>10, <1>11, <1>12, <1>13

\* a key that is not the null key, and an optional one
SomeKey == Nat \ {0}
OptionalKey == {<< >>} \cup {<<k>> : k \in SomeKey}

\* a market the program works with
MarketState(m) ==
    /\ m = [f \in Range(MarketUnpacked) |-> m[f]]
    /\ m.whitelisted_liquidator \in OptionalKey /\ m.risk_authority \in SomeKey

\* A market is read back as it was saved.
LEMMA UnpackPackMarket ==
    ASSUME NEW m, MarketState(m)
    PROVE  UnpackMarket(PackMarket(m)) = m
<1>1. PICK R : R = Range(MarketUnpacked)
    OBVIOUS
<1>2. m = [f \in R |-> m[f]] /\ DOMAIN m = R
    BY <1>1 DEF MarketState
<1>3. PICK l : l = IF m.whitelisted_liquidator = << >> THEN 0 ELSE m.whitelisted_liquidator[1]
    OBVIOUS
<1>4. PICK e : e = [m EXCEPT !.whitelisted_liquidator = l]
    OBVIOUS
<1>5. PackMarket(m) = Written(MarketUnpacked, e)
    BY <1>3, <1>4, MarketOrder DEF PackMarket
<1>6. PICK raw : raw = ReadFrom(MarketSlots, PackMarket(m))
    OBVIOUS
<1>7. raw = [f \in R |-> e[f]]
    BY <1>1, <1>5, <1>6, ReadWritten DEF MarketSlots
<1>8. raw = e
    BY <1>2, <1>4, <1>7
<1>9. UnpackMarket(PackMarket(m))
         = [e EXCEPT !.whitelisted_liquidator =
                         IF e.whitelisted_liquidator = 0 THEN << >>
                         ELSE <<e.whitelisted_liquidator>>,
                     !.risk_authority =
                         IF e.risk_authority = 0 THEN e.owner ELSE e.risk_authority]
    BY <1>6, <1>8 DEF UnpackMarket
<1>10. "whitelisted_liquidator" \in R /\ "risk_authority" \in R
    BY <1>1, MarketOrder DEF MarketKeys
<1>11. e.whitelisted_liquidator = l /\ e.risk_authority = m.risk_authority /\ m.risk_authority # 0
    BY <1>2, <1>4, <1>10 DEF MarketState, SomeKey
<1>12. (IF l = 0 THEN << >> ELSE <<l>>) = m.whitelisted_liquidator
    <2>1. CASE m.whitelisted_liquidator = << >>
        BY <1>3, <2>1
    <2>2. CASE m.whitelisted_liquidator # << >>
        <3>1. PICK k \in SomeKey : m.whitelisted_liquidator = <<k>>
            BY <2>2 DEF MarketState, OptionalKey
        <3>2. l = k /\ k # 0
            BY <1>3, <2>2, <3>1 DEF SomeKey
        <3> QED BY <3>1, <3>2
    <2> QED BY <2>1, <2>2
<1>13. UnpackMarket(PackMarket(m))
          = [e EXCEPT !.whitelisted_liquidator = m.whitelisted_liquidator,
                      !.risk_authority = m.risk_authority]
    BY <1>9, <1>11, <1>12
<1> QED BY <1>2, <1>4, <1>13

\* The markets the program may find at first.
LEMMA UnpackedMarket ==
    ASSUME NEW s, s[MarketSlots["owner"]] \in SomeKey,
           s[MarketSlots["whitelisted_liquidator"]] \in Nat,
           s[MarketSlots["risk_authority"]] \in Nat
    PROVE  MarketState(UnpackMarket(s))
<1>1. PICK R, raw : R = Range(MarketUnpacked) /\ raw = ReadFrom(MarketSlots, s)
    OBVIOUS
<1>2. raw = [f \in R |-> s[MarketSlots[f]]]
    BY <1>1 DEF ReadFrom, MarketSlots, SlotsOf
<1>3. "whitelisted_liquidator" \in R /\ "risk_authority" \in R /\ "owner" \in R
    BY <1>1, MarketOrder DEF MarketKeys
<1>4. PICK x, y : /\ x = IF raw.whitelisted_liquidator = 0 THEN << >> ELSE <<raw.whitelisted_liquidator>>
                  /\ y = IF raw.risk_authority = 0 THEN raw.owner ELSE raw.risk_authority
    OBVIOUS
<1>5. x \in OptionalKey /\ y \in SomeKey
    BY <1>2, <1>3, <1>4 DEF OptionalKey, SomeKey
<1>6. PICK m : m = UnpackMarket(s)
    OBVIOUS
<1>7. m = [raw EXCEPT !.whitelisted_liquidator = x, !.risk_authority = y]
    BY <1>1, <1>4, <1>6 DEF UnpackMarket
<1>8. m = [f \in R |-> m[f]] /\ m.whitelisted_liquidator = x /\ m.risk_authority = y
    BY <1>2, <1>3, <1>7
<1> QED BY <1>1, <1>5, <1>6, <1>8 DEF MarketState

-----------------------------------------------------------------------------
(* An obligation.                                                          *)

DepositRec == [reserve : Nat, amount : Nat, value : Nat]
BorrowRec == [reserve : Nat, rate : Nat, amount : Nat, value : Nat]

Lists(o) == o.deposits \in Seq(DepositRec) /\ o.borrows \in Seq(BorrowRec)

\* the value in cell j of a position
DepositPart(p, j) == IF j = 1 THEN p.reserve ELSE IF j = 2 THEN p.amount ELSE p.value
BorrowPart(p, j) ==
    IF j = 1 THEN p.reserve ELSE IF j = 2 THEN p.rate ELSE IF j = 3 THEN p.amount ELSE p.value

\* the places of those cells in the region
DepositAt(k, j) == (k - 1) * 4 + j
BorrowAt(n, k, j) == n * 4 + (k - 1) * 5 + j

IsDepositCell(o, c) ==
    \E k \in 1..Len(o.deposits), j \in 1..3 :
        c[1] = DepositAt(k, j) /\ c[2] = DepositPart(o.deposits[k], j)

IsBorrowCell(o, c) ==
    \E k \in 1..Len(o.borrows), j \in 1..4 :
        c[1] = BorrowAt(Len(o.deposits), k, j) /\ c[2] = BorrowPart(o.borrows[k], j)

\* The cells are those of the deposits and of the borrows behind them.
LEMMA CellsAre ==
    ASSUME NEW o, Lists(o)
    PROVE  /\ \A k \in 1..Len(o.deposits), j \in 1..3 :
                 <<DepositAt(k, j), DepositPart(o.deposits[k], j)>> \in Cells(o)
           /\ \A k \in 1..Len(o.borrows), j \in 1..4 :
                 <<BorrowAt(Len(o.deposits), k, j), BorrowPart(o.borrows[k], j)>> \in Cells(o)
           /\ \A c \in Cells(o) : IsDepositCell(o, c) \/ IsBorrowCell(o, c)
<1>1. PICK d \in Nat, b \in Nat : d = Len(o.deposits) /\ b = Len(o.borrows)
    BY DEF Lists
<1>2. DOMAIN o.deposits = 1..d /\ DOMAIN o.borrows = 1..b
    BY <1>1 DEF Lists
<1>3. ASSUME NEW k \in 1..d
      PROVE  DepositCells(o, k) = {<<DepositAt(k, j), DepositPart(o.deposits[k], j)>> : j \in 1..3}
    <2>1. 1..3 = {1, 2, 3}
        OBVIOUS
    <2>2. DepositCells(o, k) = {<<(k - 1) * 4 + 1, o.deposits[k].reserve>>,
                                <<(k - 1) * 4 + 2, o.deposits[k].amount>>,
                                <<(k - 1) * 4 + 3, o.deposits[k].value>>}
        BY DEF DepositCells, OBLIGATION_COLLATERAL_LEN
    <2> QED BY <2>1, <2>2 DEF DepositAt, DepositPart
<1>4. ASSUME NEW k \in 1..b
      PROVE  BorrowCells(o, k) = {<<BorrowAt(d, k, j), BorrowPart(o.borrows[k], j)>> : j \in 1..4}
    <2>1. 1..4 = {1, 2, 3, 4}
        OBVIOUS
    <2>2. BorrowCells(o, k) = {<<d * 4 + (k - 1) * 5 + 1, o.borrows[k].reserve>>,
                               <<d * 4 + (k - 1) * 5 + 2, o.borrows[k].rate>>,
                               <<d * 4 + (k - 1) * 5 + 3, o.borrows[k].amount>>,
                               <<d * 4 + (k - 1) * 5 + 4, o.borrows[k].value>>}
        BY <1>1 DEF BorrowCells, OBLIGATION_COLLATERAL_LEN, OBLIGATION_LIQUIDITY_LEN
    <2> QED BY <2>1, <2>2 DEF BorrowAt, BorrowPart
<1>5. \A c : c \in Cells(o) <=> \/ \E k \in 1..d : c \in DepositCells(o, k)
                                \/ \E k \in 1..b : c \in BorrowCells(o, k)
    BY <1>2 DEF Cells
<1>6. ASSUME NEW k \in 1..d, NEW j \in 1..3
      PROVE  <<DepositAt(k, j), DepositPart(o.deposits[k], j)>> \in Cells(o)
    BY <1>3, <1>5
<1>7. ASSUME NEW k \in 1..b, NEW j \in 1..4
      PROVE  <<BorrowAt(d, k, j), BorrowPart(o.borrows[k], j)>> \in Cells(o)
    BY <1>4, <1>5
<1>8. ASSUME NEW c \in Cells(o) PROVE IsDepositCell(o, c) \/ IsBorrowCell(o, c)
    <2>1. ASSUME NEW k \in 1..d, c \in DepositCells(o, k) PROVE IsDepositCell(o, c)
        <3>1. PICK j \in 1..3 : c = <<DepositAt(k, j), DepositPart(o.deposits[k], j)>>
            BY <1>3, <2>1
        <3> QED BY <1>1, <3>1 DEF IsDepositCell
    <2>2. ASSUME NEW k \in 1..b, c \in BorrowCells(o, k) PROVE IsBorrowCell(o, c)
        <3>1. PICK j \in 1..4 : c = <<BorrowAt(d, k, j), BorrowPart(o.borrows[k], j)>>
            BY <1>4, <2>2
        <3> QED BY <1>1, <3>1 DEF IsBorrowCell
    <2> QED BY <1>5, <2>1, <2>2
<1> QED BY <1>1, <1>6, <1>7, <1>8

\* No two cells have the same place.
LEMMA PlacesApart ==
    /\ \A k, l \in Nat, i, j \in 1..3 : DepositAt(k, i) = DepositAt(l, j) => k = l /\ i = j
    /\ \A n, k, l \in Nat, i, j \in 1..4 : BorrowAt(n, k, i) = BorrowAt(n, l, j) => k = l /\ i = j
    /\ \A n, k, l \in Nat, i \in 1..3, j \in 1..4 :
          k <= n /\ l >= 1 => DepositAt(k, i) # BorrowAt(n, l, j)
    BY DEF DepositAt, BorrowAt

\* The places of d deposits and b borrows are in a region of n cells that has room for them.
LEMMA PlacesInside ==
    ASSUME NEW n \in Nat, NEW d \in Nat, NEW b \in Nat, d * 4 + b * 5 <= n
    PROVE  /\ \A k \in 1..d, j \in 1..3 : DepositAt(k, j) \in 1..n
           /\ \A k \in 1..b, j \in 1..4 : BorrowAt(d, k, j) \in 1..n
<1>1. ASSUME NEW k \in 1..d, NEW j \in 1..3 PROVE DepositAt(k, j) \in 1..n
    <2>1. (k - 1) * 4 + j <= n /\ (k - 1) * 4 + j >= 1
        OBVIOUS
    <2> QED BY <2>1 DEF DepositAt
<1>2. ASSUME NEW k \in 1..b, NEW j \in 1..4 PROVE BorrowAt(d, k, j) \in 1..n
    <2>1. d * 4 + (k - 1) * 5 + j <= n /\ d * 4 + (k - 1) * 5 + j >= 1
        OBVIOUS
    <2> QED BY <2>1 DEF BorrowAt
<1> QED BY <1>1, <1>2

\* Each place has one value.
LEMMA OneValue ==
    ASSUME NEW o, Lists(o), NEW c \in Cells(o), NEW e \in Cells(o), c[1] = e[1]
    PROVE  c[2] = e[2]
<1>1. PICK d \in Nat, b \in Nat : d = Len(o.deposits) /\ b = Len(o.borrows)
    BY DEF Lists
<1>2. /\ IsDepositCell(o, c) \/ IsBorrowCell(o, c)
      /\ IsDepositCell(o, e) \/ IsBorrowCell(o, e)
    BY CellsAre
<1>3. CASE IsDepositCell(o, c) /\ IsDepositCell(o, e)
    <2>1. PICK k \in 1..d, i \in 1..3 : c[1] = DepositAt(k, i) /\ c[2] = DepositPart(o.deposits[k], i)
        BY <1>1, <1>3 DEF IsDepositCell
    <2>2. PICK l \in 1..d, j \in 1..3 : e[1] = DepositAt(l, j) /\ e[2] = DepositPart(o.deposits[l], j)
        BY <1>1, <1>3 DEF IsDepositCell
    <2>3. DepositAt(k, i) = DepositAt(l, j)
        BY <2>1, <2>2
    <2>4. k \in Nat /\ l \in Nat
        OBVIOUS
    <2>5. k = l /\ i = j
        BY <2>3, <2>4, PlacesApart
    <2> QED BY <2>1, <2>2, <2>5
<1>4. CASE IsBorrowCell(o, c) /\ IsBorrowCell(o, e)
    <2>1. PICK k \in 1..b, i \in 1..4 : c[1] = BorrowAt(d, k, i) /\ c[2] = BorrowPart(o.borrows[k], i)
        BY <1>1, <1>4 DEF IsBorrowCell
    <2>2. PICK l \in 1..b, j \in 1..4 : e[1] = BorrowAt(d, l, j) /\ e[2] = BorrowPart(o.borrows[l], j)
        BY <1>1, <1>4 DEF IsBorrowCell
    <2>3. BorrowAt(d, k, i) = BorrowAt(d, l, j)
        BY <2>1, <2>2
    <2>4. k \in Nat /\ l \in Nat
        OBVIOUS
    <2>5. k = l /\ i = j
        BY <2>3, <2>4, PlacesApart
    <2> QED BY <2>1, <2>2, <2>5
<1>5. ASSUME NEW x, NEW y, IsDepositCell(o, x), IsBorrowCell(o, y) PROVE x[1] # y[1]
    <2>1. PICK k \in 1..d, i \in 1..3 : x[1] = DepositAt(k, i)
        BY <1>1, <1>5 DEF IsDepositCell
    <2>2. PICK l \in 1..b, j \in 1..4 : y[1] = BorrowAt(d, l, j)
        BY <1>1, <1>5 DEF IsBorrowCell
    <2>3. k \in Nat /\ k <= d /\ l \in Nat /\ l >= 1
        OBVIOUS
    <2>4. DepositAt(k, i) # BorrowAt(d, l, j)
        BY <2>3, PlacesApart
    <2> QED BY <2>1, <2>2, <2>4
<1> QED BY <1>2, <1>3, <1>4, <1>5

\* What is written at the place of a cell is the cell's value.
LEMMA PackedCell ==
    ASSUME NEW o, Lists(o), NEW f, NEW c \in Cells(o), c[1] \in DOMAIN f
    PROVE  PackFlat(o, f)[c[1]] = c[2]
<1>1. PICK cells : cells = Cells(o)
    OBVIOUS
<1>2. PICK n : n = c[1] /\ n \in DOMAIN f
    OBVIOUS
<1>3. PackFlat(o, f)[n] = IF \E e \in cells : e[1] = n
                          THEN (CHOOSE e \in cells : e[1] = n)[2] ELSE f[n]
    BY <1>1, <1>2 DEF PackFlat
<1>4. PICK e : e = CHOOSE x \in cells : x[1] = n
    OBVIOUS
<1>5. e \in cells /\ e[1] = n
    BY <1>1, <1>2, <1>4, Zenon
<1>6. e[2] = c[2]
    BY <1>1, <1>2, <1>5, OneValue
<1>7. \E x \in cells : x[1] = n
    BY <1>1, <1>2
<1> QED BY <1>2, <1>3, <1>4, <1>6, <1>7

\* Both orders of an obligation's head have the two lengths.
LEMMA HeadOrder ==
    /\ ObligationPacked = ObligationUnpacked
    /\ {"deposits_len", "borrows_len"} \subseteq Range(ObligationUnpacked)
<1>1. ObligationPacked = ObligationUnpacked
    BY Zenon DEF ObligationPacked, ObligationUnpacked
<1>2. /\ DOMAIN ObligationUnpacked = 1..14
      /\ ObligationUnpacked[13] = "deposits_len" /\ ObligationUnpacked[14] = "borrows_len"
    BY DEF ObligationUnpacked
<1> QED BY <1>1, <1>2 DEF Range

\* an obligation as it is in memory, before the lengths of its lists are written
InMemory(o) ==
    /\ o = [head |-> o.head, deposits |-> o.deposits, borrows |-> o.borrows]
    /\ o.head = [f \in Range(ObligationUnpacked) |-> o.head[f]]
    /\ Lists(o)

\* the positions fit the region
FitsFlat(o) == Len(o.deposits) * 4 + Len(o.borrows) * 5 <= FlatLen

\* The positions are read back from where they were written.
LEMMA ReadPositions ==
    ASSUME NEW o, Lists(o), FitsFlat(o), FlatLen \in Nat, NEW f, DOMAIN f = 1..FlatLen, NEW g,
           g = PackFlat(o, f), NEW d \in Nat, d = Len(o.deposits), NEW b \in Nat, b = Len(o.borrows)
    PROVE  /\ DOMAIN g = 1..FlatLen
           /\ \A k \in 1..d, j \in 1..3 : g[DepositAt(k, j)] = DepositPart(o.deposits[k], j)
           /\ \A k \in 1..b, j \in 1..4 : g[BorrowAt(d, k, j)] = BorrowPart(o.borrows[k], j)
<1>1. DOMAIN g = 1..FlatLen
    BY DEF PackFlat
<1>2. PICK n \in Nat : n = FlatLen /\ d * 4 + b * 5 <= n
    BY DEF FitsFlat
<1>3. ASSUME NEW k \in 1..d, NEW j \in 1..3
      PROVE  g[DepositAt(k, j)] = DepositPart(o.deposits[k], j)
    <2>1. PICK c : c = <<DepositAt(k, j), DepositPart(o.deposits[k], j)>>
        OBVIOUS
    <2>2. c \in Cells(o) /\ c[1] = DepositAt(k, j) /\ c[2] = DepositPart(o.deposits[k], j)
        BY <2>1, CellsAre
    <2>3. DepositAt(k, j) \in 1..n
        BY <1>2, PlacesInside
    <2>4. PackFlat(o, f)[c[1]] = c[2]
        BY <1>2, <2>2, <2>3, PackedCell
    <2> QED BY <2>2, <2>4
<1>4. ASSUME NEW k \in 1..b, NEW j \in 1..4
      PROVE  g[BorrowAt(d, k, j)] = BorrowPart(o.borrows[k], j)
    <2>1. PICK c : c = <<BorrowAt(d, k, j), BorrowPart(o.borrows[k], j)>>
        OBVIOUS
    <2>2. c \in Cells(o) /\ c[1] = BorrowAt(d, k, j) /\ c[2] = BorrowPart(o.borrows[k], j)
        BY <2>1, CellsAre
    <2>3. BorrowAt(d, k, j) \in 1..n
        BY <1>2, PlacesInside
    <2>4. PackFlat(o, f)[c[1]] = c[2]
        BY <1>2, <2>2, <2>3, PackedCell
    <2> QED BY <2>2, <2>4
<1> QED BY <1>1, <1>3, <1>4

\* what is saved of o
Saved(o) == [o EXCEPT !.head.deposits_len = Len(o.deposits),
                      !.head.borrows_len = Len(o.borrows)]

\* An obligation is read back as it was saved, over whatever was in the region.
LEMMA UnpackPackObligation ==
    ASSUME NEW o, InMemory(o), FitsFlat(o), FlatLen \in Nat, NEW f, DOMAIN f = 1..FlatLen
    PROVE  /\ UnpackObligation(PackObligation(o), PackFlat(o, f)) = Saved(o)
           /\ DOMAIN PackFlat(o, f) = 1..FlatLen
           /\ InMemory(Saved(o)) /\ Saved(o).deposits = o.deposits /\ Saved(o).borrows = o.borrows
<1>1. PICK d \in Nat, b \in Nat : d = Len(o.deposits) /\ b = Len(o.borrows)
    BY DEF InMemory, Lists
<1>2. PICK h : h = [o.head EXCEPT !.deposits_len = d, !.borrows_len = b]
    OBVIOUS
<1>3. PICK R : R = Range(ObligationUnpacked)
    OBVIOUS
<1>4. o.head = [x \in R |-> o.head[x]] /\ DOMAIN o.head = R
    BY <1>3 DEF InMemory
<1>5. h = [x \in R |-> h[x]] /\ h.deposits_len = d /\ h.borrows_len = b
    BY <1>2, <1>3, <1>4, HeadOrder
<1>6. Saved(o) = [head |-> h, deposits |-> o.deposits, borrows |-> o.borrows]
    <2>1. PICK hd, ds, bs : hd = o.head /\ ds = o.deposits /\ bs = o.borrows
        OBVIOUS
    <2>2. o = [head |-> hd, deposits |-> ds, borrows |-> bs]
        BY <2>1 DEF InMemory
    <2>3. Saved(o) = [o EXCEPT !.head.deposits_len = d, !.head.borrows_len = b]
        BY <1>1 DEF Saved
    <2> QED BY <1>2, <2>1, <2>2, <2>3
<1>7. ReadFrom(ObligationSlots, PackObligation(o)) = h
    <2>1. PackObligation(o) = Written(ObligationUnpacked, h)
        BY <1>1, <1>2, HeadOrder DEF PackObligation
    <2>2. ReadFrom(ObligationSlots, PackObligation(o)) = [x \in R |-> h[x]]
        BY <1>3, <2>1, ReadWritten DEF ObligationSlots
    <2> QED BY <1>5, <2>2
<1>8. PICK g : g = PackFlat(o, f)
    OBVIOUS
<1>9. /\ DOMAIN g = 1..FlatLen
      /\ \A k \in 1..d, j \in 1..3 : g[DepositAt(k, j)] = DepositPart(o.deposits[k], j)
      /\ \A k \in 1..b, j \in 1..4 : g[BorrowAt(d, k, j)] = BorrowPart(o.borrows[k], j)
    BY <1>1, <1>8, ReadPositions DEF InMemory
<1>10. ASSUME NEW k \in 1..d
       PROVE  [reserve |-> g[(k - 1) * 4 + 1], amount |-> g[(k - 1) * 4 + 2],
               value |-> g[(k - 1) * 4 + 3]] = o.deposits[k]
    <2>1. PICK p \in DepositRec : p = o.deposits[k]
        BY <1>1 DEF InMemory, Lists
    <2>2. /\ g[DepositAt(k, 1)] = DepositPart(p, 1) /\ g[DepositAt(k, 2)] = DepositPart(p, 2)
          /\ g[DepositAt(k, 3)] = DepositPart(p, 3)
        BY <1>9, <2>1
    <2>3. /\ g[(k - 1) * 4 + 1] = p.reserve /\ g[(k - 1) * 4 + 2] = p.amount
          /\ g[(k - 1) * 4 + 3] = p.value
        BY <2>2 DEF DepositAt, DepositPart
    <2> QED BY <2>1, <2>3 DEF DepositRec
<1>11. ASSUME NEW k \in 1..b
       PROVE  [reserve |-> g[d * 4 + (k - 1) * 5 + 1], rate |-> g[d * 4 + (k - 1) * 5 + 2],
               amount |-> g[d * 4 + (k - 1) * 5 + 3], value |-> g[d * 4 + (k - 1) * 5 + 4]]
                  = o.borrows[k]
    <2>1. PICK p \in BorrowRec : p = o.borrows[k]
        BY <1>1 DEF InMemory, Lists
    <2>2. /\ g[BorrowAt(d, k, 1)] = BorrowPart(p, 1) /\ g[BorrowAt(d, k, 2)] = BorrowPart(p, 2)
          /\ g[BorrowAt(d, k, 3)] = BorrowPart(p, 3) /\ g[BorrowAt(d, k, 4)] = BorrowPart(p, 4)
        BY <1>9, <2>1
    <2>3. /\ g[d * 4 + (k - 1) * 5 + 1] = p.reserve /\ g[d * 4 + (k - 1) * 5 + 2] = p.rate
          /\ g[d * 4 + (k - 1) * 5 + 3] = p.amount /\ g[d * 4 + (k - 1) * 5 + 4] = p.value
        BY <2>2 DEF BorrowAt, BorrowPart
    <2> QED BY <2>1, <2>3 DEF BorrowRec
<1>12. UnpackObligation(PackObligation(o), g)
          = [head |-> h,
             deposits |-> [k \in 1..d |-> [reserve |-> g[(k - 1) * 4 + 1],
                                           amount |-> g[(k - 1) * 4 + 2],
                                           value |-> g[(k - 1) * 4 + 3]]],
             borrows |-> [k \in 1..b |-> [reserve |-> g[d * 4 + (k - 1) * 5 + 1],
                                          rate |-> g[d * 4 + (k - 1) * 5 + 2],
                                          amount |-> g[d * 4 + (k - 1) * 5 + 3],
                                          value |-> g[d * 4 + (k - 1) * 5 + 4]]]]
    BY <1>5, <1>7 DEF UnpackObligation, OBLIGATION_COLLATERAL_LEN, OBLIGATION_LIQUIDITY_LEN
<1>13. o.deposits = [k \in 1..d |-> o.deposits[k]] /\ o.borrows = [k \in 1..b |-> o.borrows[k]]
    BY <1>1 DEF InMemory, Lists
<1>14. UnpackObligation(PackObligation(o), g)
          = [head |-> h, deposits |-> o.deposits, borrows |-> o.borrows]
    <2>1. PICK ds, bs : ds = o.deposits /\ bs = o.borrows
        OBVIOUS
    <2>2. [k \in 1..d |-> [reserve |-> g[(k - 1) * 4 + 1], amount |-> g[(k - 1) * 4 + 2],
                           value |-> g[(k - 1) * 4 + 3]]] = ds
        BY <1>10, <1>13, <2>1
    <2>3. [k \in 1..b |-> [reserve |-> g[d * 4 + (k - 1) * 5 + 1],
                           rate |-> g[d * 4 + (k - 1) * 5 + 2],
                           amount |-> g[d * 4 + (k - 1) * 5 + 3],
                           value |-> g[d * 4 + (k - 1) * 5 + 4]]] = bs
        BY <1>11, <1>13, <2>1
    <2> QED BY <1>12, <2>1, <2>2, <2>3
<1>15. InMemory(Saved(o)) /\ Saved(o).deposits = o.deposits /\ Saved(o).borrows = o.borrows
    BY <1>3, <1>5, <1>6 DEF InMemory, Lists
<1> QED BY <1>6, <1>8, <1>9, <1>14, <1>15

\* no more positions than an obligation may have, and not only borrows
Room(o) ==
    /\ Len(o.deposits) + Len(o.borrows) <= MAX_OBLIGATION_RESERVES
    /\ Len(o.borrows) <= MAX_OBLIGATION_RESERVES - 1

\* Such positions fit the region, which is one borrow's padding short of all borrows.
LEMMA RoomFits ==
    ASSUME NEW o, Lists(o), Room(o)
    PROVE  FitsFlat(o) /\ ~FlatOverrun(o) /\ FlatLen \in Nat
<1>1. PICK d \in Nat, b \in Nat, max \in Nat :
         /\ d = Len(o.deposits) /\ b = Len(o.borrows) /\ max = MAX_OBLIGATION_RESERVES /\ max >= 1
    BY StoredAssumption DEF Lists
<1>2. d + b <= max /\ b <= max - 1
    BY <1>1 DEF Room
<1>3. FlatLen = 4 + 5 * (max - 1)
    BY <1>1 DEF FlatLen, OBLIGATION_COLLATERAL_LEN, OBLIGATION_LIQUIDITY_LEN
<1>4. PICK n \in Nat : n = 4 + 5 * (max - 1)
    BY <1>1
<1>5. d * 4 + b * 5 <= n
    BY <1>2, <1>4
<1>6. FlatLen = n
    BY <1>3, <1>4
<1>7. FitsFlat(o)
    BY <1>1, <1>5, <1>6 DEF FitsFlat
<1>8. FlatOverrun(o) <=> d * 4 + b * 5 > n
    BY <1>1, <1>6 DEF FlatOverrun, OBLIGATION_COLLATERAL_LEN, OBLIGATION_LIQUIDITY_LEN
<1>9. ~(d * 4 + b * 5 > n)
    BY <1>5
<1> QED BY <1>6, <1>7, <1>8, <1>9

-----------------------------------------------------------------------------
(* The invariant: the account is what it is meant to be, and that is       *)
(* something the program works with.                                       *)

ReserveInv == ReserveState(meant) /\ PairsInOrder(meant) /\ UnpackReserve(slots) = meant

MarketInv == MarketState(meant) /\ UnpackMarket(slots) = meant

ObligationInv ==
    /\ InMemory(meant) /\ Room(meant)
    /\ DOMAIN flat = 1..FlatLen /\ UnpackObligation(slots, flat) = meant

AccountInv ==
    /\ ~failed /\ kind \in {"reserve", "market", "obligation"}
    /\ kind = "reserve" => ReserveInv
    /\ kind = "market" => MarketInv
    /\ kind = "obligation" => ObligationInv

\* Saving a reserve the program works with.
LEMMA SaveReserveKeeps ==
    ASSUME AccountInv, kind = "reserve", NEW r, ReserveState(r), PairsInOrder(r), SaveReserve(r)
    PROVE  AccountInv'
<1>1. meant' = r /\ slots' = PackReserve(r) /\ kind' = kind /\ failed' = failed
    BY DEF SaveReserve
<1>2. UnpackReserve(PackReserve(r)) = r
    BY StoredAssumption, UnpackPackReserve
<1>3. UnpackReserve(slots') = meant'
    BY <1>1, <1>2
<1>4. ReserveInv'
    BY <1>1, <1>3 DEF ReserveInv
<1> QED BY <1>1, <1>4 DEF AccountInv

\* Saving a market the program works with.
LEMMA SaveMarketKeeps ==
    ASSUME AccountInv, kind = "market", NEW m, MarketState(m), SaveMarket(m)
    PROVE  AccountInv'
<1>1. meant' = m /\ slots' = PackMarket(m) /\ kind' = kind /\ failed' = failed
    BY DEF SaveMarket
<1>2. UnpackMarket(PackMarket(m)) = m
    BY UnpackPackMarket
<1>3. UnpackMarket(slots') = meant'
    BY <1>1, <1>2
<1>4. MarketInv'
    BY <1>1, <1>3 DEF MarketInv
<1> QED BY <1>1, <1>4 DEF AccountInv

\* Saving an obligation whose positions fit.
LEMMA SaveObligationKeeps ==
    ASSUME AccountInv, kind = "obligation", NEW o, InMemory(o), Room(o), SaveObligation(o)
    PROVE  AccountInv'
<1>1. ~FlatOverrun(o) /\ FitsFlat(o) /\ FlatLen \in Nat
    BY RoomFits DEF InMemory
<1>2. /\ meant' = Saved(o) /\ slots' = PackObligation(o) /\ flat' = PackFlat(o, flat)
      /\ kind' = kind /\ failed' = failed
    BY <1>1 DEF SaveObligation, Saved
<1>3. DOMAIN flat = 1..FlatLen
    BY DEF AccountInv, ObligationInv
<1>4. /\ UnpackObligation(PackObligation(o), PackFlat(o, flat)) = Saved(o)
      /\ DOMAIN PackFlat(o, flat) = 1..FlatLen
      /\ InMemory(Saved(o)) /\ Saved(o).deposits = o.deposits /\ Saved(o).borrows = o.borrows
    BY <1>1, <1>3, UnpackPackObligation
<1>5. UnpackObligation(slots', flat') = meant' /\ DOMAIN flat' = 1..FlatLen
    BY <1>2, <1>4
<1>6. Room(Saved(o))
    BY <1>4 DEF Room
<1>7. ObligationInv'
    BY <1>2, <1>4, <1>5, <1>6 DEF ObligationInv
<1> QED BY <1>2, <1>7 DEF AccountInv

\* The handlers of a reserve.
LEMMA ReserveHandlers ==
    ASSUME AccountInv, RefreshReserve \/ MoveLiquidity \/ UpdateReserveConfig
    PROVE  AccountInv'
<1>1. kind = "reserve"
    BY DEF RefreshReserve, MoveLiquidity, UpdateReserveConfig
<1>2. PICK q : q = meant /\ q = UnpackReserve(slots) /\ ReserveState(q) /\ PairsInOrder(q)
    BY <1>1 DEF AccountInv, ReserveInv
<1>3. PICK R : R = Range(ReserveUnpacked)
    OBVIOUS
<1>4. /\ q = [f \in R |-> q[f]] /\ DOMAIN q = R /\ PairFields \subseteq R
      /\ \A f \in PairFields : q[f] \in Nat
    BY <1>2, <1>3, ReserveFields DEF ReserveState
<1>5. ASSUME NEW r, r = [f \in R |-> r[f]], \A f \in PairFields : r[f] = q[f]
      PROVE  ReserveState(r) /\ PairsInOrder(r)
    <2>1. ReserveState(r)
        BY <1>3, <1>4, <1>5 DEF ReserveState
    <2>2. PairsInOrder(r)
        BY <1>2, <1>5 DEF PairsInOrder, PairFields
    <2> QED BY <2>1, <2>2
<1>6. CASE RefreshReserve
    <2>1. PICK v : SaveReserve([q EXCEPT !.slot = v, !.stale = 0, !.market_price = v,
                                   !.smoothed_market_price = v, !.cumulative_borrow_rate_wads = v])
        BY <1>2, <1>6 DEF RefreshReserve
    <2>2. PICK r : r = [q EXCEPT !.slot = v, !.stale = 0, !.market_price = v,
                                 !.smoothed_market_price = v, !.cumulative_borrow_rate_wads = v]
        OBVIOUS
    <2>3. r = [f \in R |-> r[f]]
        BY <1>4, <2>2
    <2>4. \A f \in PairFields : r[f] = q[f]
        BY <1>4, <2>2 DEF PairFields
    <2> QED BY <1>1, <1>5, <2>1, <2>2, <2>3, <2>4, SaveReserveKeeps
<1>7. CASE MoveLiquidity
    <2>1. PICK v : SaveReserve([q EXCEPT !.stale = 1, !.available_amount = v,
                                         !.mint_total_supply = v, !.cur_qty = v])
        BY <1>2, <1>7 DEF MoveLiquidity
    <2>2. PICK r : r = [q EXCEPT !.stale = 1, !.available_amount = v,
                                 !.mint_total_supply = v, !.cur_qty = v]
        OBVIOUS
    <2>3. r = [f \in R |-> r[f]]
        BY <1>4, <2>2
    <2>4. \A f \in PairFields : r[f] = q[f]
        BY <1>4, <2>2 DEF PairFields
    <2> QED BY <1>1, <1>5, <2>1, <2>2, <2>3, <2>4, SaveReserveKeeps
<1>8. CASE UpdateReserveConfig
    <2>0. PICK a \in Percents, b \in Percents, fee \in 0..FeeCap :
             LET r == [q EXCEPT
                        !.optimal_utilization_rate = a, !.max_utilization_rate = b,
                        !.liquidation_threshold = a, !.max_liquidation_threshold = b,
                        !.liquidation_bonus = a, !.max_liquidation_bonus = b,
                        !.max_borrow_rate = a, !.super_max_borrow_rate = b,
                        !.protocol_liquidation_fee = fee, !.stale = 1]
             IN  PairsInOrder(r) /\ SaveReserve(r)
        BY <1>2, <1>8, Zenon DEF UpdateReserveConfig
    <2>10. PICK r : r = [q EXCEPT
                        !.optimal_utilization_rate = a, !.max_utilization_rate = b,
                        !.liquidation_threshold = a, !.max_liquidation_threshold = b,
                        !.liquidation_bonus = a, !.max_liquidation_bonus = b,
                        !.max_borrow_rate = a, !.super_max_borrow_rate = b,
                        !.protocol_liquidation_fee = fee, !.stale = 1]
        OBVIOUS
    <2>1. /\ r = [q EXCEPT
                   !.optimal_utilization_rate = a, !.max_utilization_rate = b,
                   !.liquidation_threshold = a, !.max_liquidation_threshold = b,
                   !.liquidation_bonus = a, !.max_liquidation_bonus = b,
                   !.max_borrow_rate = a, !.super_max_borrow_rate = b,
                   !.protocol_liquidation_fee = fee, !.stale = 1]
          /\ PairsInOrder(r) /\ SaveReserve(r)
        BY <2>0, <2>10
    <2>2. r = [f \in R |-> r[f]]
        BY <1>4, <2>1
    <2>3. a \in Nat /\ b \in Nat /\ fee \in Nat
        BY StoredAssumption
    <2>4. /\ r.optimal_utilization_rate = a /\ r.max_utilization_rate = b
          /\ r.liquidation_threshold = a /\ r.max_liquidation_threshold = b
          /\ r.liquidation_bonus = a /\ r.max_liquidation_bonus = b
          /\ r.max_borrow_rate = a /\ r.super_max_borrow_rate = b
          /\ r.protocol_liquidation_fee = fee
        BY <1>4, <2>1 DEF PairFields
    <2>5. \A f \in PairFields : r[f] \in Nat
        BY <2>3, <2>4 DEF PairFields
    <2>6. ReserveState(r)
        BY <1>3, <2>2, <2>5 DEF ReserveState
    <2> QED BY <1>1, <2>1, <2>6, SaveReserveKeeps
<1> QED BY <1>6, <1>7, <1>8

\* The handlers of a lending market.
LEMMA MarketHandlers ==
    ASSUME AccountInv, SetLendingMarketOwnerAndConfig \/ CountOutflow
    PROVE  AccountInv'
<1>1. kind = "market"
    BY DEF SetLendingMarketOwnerAndConfig, CountOutflow
<1>2. PICK q : q = meant /\ q = UnpackMarket(slots) /\ MarketState(q)
    BY <1>1 DEF AccountInv, MarketInv
<1>3. PICK R : R = Range(MarketUnpacked) /\ MarketKeys \subseteq R
    BY MarketOrder
<1>4. q = [f \in R |-> q[f]] /\ DOMAIN q = R
    BY <1>2, <1>3 DEF MarketState
<1>5. CASE SetLendingMarketOwnerAndConfig
    <2>1. PICK owner \in Keys, risk \in Keys, liquidator \in {<< >>} \cup {<<k>> : k \in Keys} :
             SaveMarket([q EXCEPT !.owner = owner, !.risk_authority = risk,
                                  !.whitelisted_liquidator = liquidator])
        BY <1>2, <1>5 DEF SetLendingMarketOwnerAndConfig
    <2>2. PICK m : m = [q EXCEPT !.owner = owner, !.risk_authority = risk,
                                 !.whitelisted_liquidator = liquidator]
        OBVIOUS
    <2>3. m = [f \in R |-> m[f]]
        BY <1>4, <2>2
    <2>4. m.risk_authority = risk /\ m.whitelisted_liquidator = liquidator
        BY <1>3, <1>4, <2>2 DEF MarketKeys
    <2>5. risk \in SomeKey /\ liquidator \in OptionalKey
        BY StoredAssumption DEF SomeKey, OptionalKey
    <2>6. MarketState(m)
        BY <1>3, <2>3, <2>4, <2>5 DEF MarketState
    <2> QED BY <1>1, <2>1, <2>2, <2>6, SaveMarketKeeps
<1>6. CASE CountOutflow
    <2>1. PICK v : SaveMarket([q EXCEPT !.cur_qty = v])
        BY <1>2, <1>6 DEF CountOutflow
    <2>2. PICK m : m = [q EXCEPT !.cur_qty = v]
        OBVIOUS
    <2>3. m = [f \in R |-> m[f]]
        BY <1>4, <2>2
    <2>4. m.risk_authority = q.risk_authority /\ m.whitelisted_liquidator = q.whitelisted_liquidator
        BY <1>3, <1>4, <2>2 DEF MarketKeys
    <2>5. MarketState(m)
        BY <1>2, <1>3, <2>3, <2>4 DEF MarketState
    <2> QED BY <1>1, <2>1, <2>2, <2>5, SaveMarketKeeps
<1> QED BY <1>5, <1>6

\* An obligation put together from its parts.
LEMMA MakeMemory ==
    ASSUME NEW h, h = [f \in Range(ObligationUnpacked) |-> h[f]],
           NEW ds \in Seq(DepositRec), NEW bs \in Seq(BorrowRec),
           NEW o, o = [head |-> h, deposits |-> ds, borrows |-> bs]
    PROVE  InMemory(o) /\ o.head = h /\ o.deposits = ds /\ o.borrows = bs
<1>1. o.head = h /\ o.deposits = ds /\ o.borrows = bs
    OBVIOUS
<1> QED BY <1>1 DEF InMemory, Lists

\* Another amount in one of the deposits.
LEMMA SetDepositAmount ==
    ASSUME NEW s \in Seq(DepositRec), NEW p
    PROVE  [s EXCEPT ![p].amount = 2] \in Seq(DepositRec)
           /\ Len([s EXCEPT ![p].amount = 2]) = Len(s)
<1>1. PICK n \in Nat : n = Len(s)
    OBVIOUS
<1>2. PICK t : t = [s EXCEPT ![p].amount = 2]
    OBVIOUS
<1>3. DOMAIN t = 1..n /\ t = [k \in 1..n |-> t[k]]
    <2>1. DOMAIN s = 1..n /\ s = [k \in 1..n |-> s[k]]
        BY <1>1
    <2> QED BY <1>2, <2>1
<1>4. ASSUME NEW k \in 1..n PROVE t[k] \in DepositRec
    <2>1. PICK e \in DepositRec : e = s[k]
        BY <1>1
    <2>2. t[k] = e \/ t[k] = [e EXCEPT !.amount = 2]
        BY <1>1, <1>2, <2>1
    <2>3. [e EXCEPT !.amount = 2] \in DepositRec
        BY DEF DepositRec
    <2> QED BY <2>2, <2>3
<1>5. t \in [1..n -> DepositRec]
    BY <1>3, <1>4
<1>6. t \in Seq(DepositRec)
    BY <1>5, ListIsSeq
<1>7. Len(t) = n
    <2>1. PICK m \in Nat : m = Len(t) /\ DOMAIN t = 1..m
        BY <1>6
    <2> QED BY <1>3, <2>1
<1> QED BY <1>1, <1>2, <1>6, <1>7

\* Likewise in one of the borrows.
LEMMA SetBorrowAmount ==
    ASSUME NEW s \in Seq(BorrowRec), NEW p
    PROVE  [s EXCEPT ![p].amount = 2] \in Seq(BorrowRec)
           /\ Len([s EXCEPT ![p].amount = 2]) = Len(s)
<1>1. PICK n \in Nat : n = Len(s)
    OBVIOUS
<1>2. PICK t : t = [s EXCEPT ![p].amount = 2]
    OBVIOUS
<1>3. DOMAIN t = 1..n /\ t = [k \in 1..n |-> t[k]]
    <2>1. DOMAIN s = 1..n /\ s = [k \in 1..n |-> s[k]]
        BY <1>1
    <2> QED BY <1>2, <2>1
<1>4. ASSUME NEW k \in 1..n PROVE t[k] \in BorrowRec
    <2>1. PICK e \in BorrowRec : e = s[k]
        BY <1>1
    <2>2. t[k] = e \/ t[k] = [e EXCEPT !.amount = 2]
        BY <1>1, <1>2, <2>1
    <2>3. [e EXCEPT !.amount = 2] \in BorrowRec
        BY DEF BorrowRec
    <2> QED BY <2>2, <2>3
<1>5. t \in [1..n -> BorrowRec]
    BY <1>3, <1>4
<1>6. t \in Seq(BorrowRec)
    BY <1>5, ListIsSeq
<1>7. Len(t) = n
    <2>1. PICK m \in Nat : m = Len(t) /\ DOMAIN t = 1..m
        BY <1>6
    <2> QED BY <1>3, <2>1
<1> QED BY <1>1, <1>2, <1>6, <1>7

\* A position closed leaves the others.
LEMMA RemoveAtSeq ==
    ASSUME NEW X, NEW s \in Seq(X), NEW k \in DOMAIN s
    PROVE  RemoveAt(s, k) \in Seq(X) /\ Len(RemoveAt(s, k)) = Len(s) - 1
<1>1. PICK n \in Nat : n = Len(s) /\ k \in 1..n
    OBVIOUS
<1>2. PICK a, b : a = SubSeq(s, 1, k - 1) /\ b = SubSeq(s, k + 1, n)
    OBVIOUS
<1>3. a \in Seq(X) /\ Len(a) = k - 1
    BY <1>1, <1>2
<1>4. b \in Seq(X) /\ Len(b) = n - k
    BY <1>1, <1>2
<1>5. a \o b \in Seq(X) /\ Len(a \o b) = Len(a) + Len(b)
    BY <1>3, <1>4, ConcatAt
<1>6. Len(a \o b) = n - 1
    BY <1>1, <1>3, <1>4, <1>5
<1>7. RemoveAt(s, k) = a \o b
    BY <1>1, <1>2 DEF RemoveAt
<1> QED BY <1>1, <1>5, <1>6, <1>7

\* The deposits of an obligation changed, and no more of them than there is room for.
LEMMA DepositsKept ==
    ASSUME AccountInv, kind = "obligation", NEW ds \in Seq(DepositRec),
           Len(ds) + Len(meant.borrows) <= MAX_OBLIGATION_RESERVES,
           SaveObligation([meant EXCEPT !.deposits = ds])
    PROVE  AccountInv'
<1>1. PICK q : q = meant /\ InMemory(q) /\ Room(q)
    BY DEF AccountInv, ObligationInv
<1>2. PICK h, bs : h = q.head /\ bs = q.borrows /\ bs \in Seq(BorrowRec)
    BY <1>1 DEF InMemory, Lists
<1>3. h = [f \in Range(ObligationUnpacked) |-> h[f]]
    BY <1>1, <1>2 DEF InMemory
<1>4. PICK o : o = [meant EXCEPT !.deposits = ds]
    OBVIOUS
<1>5. o = [head |-> h, deposits |-> ds, borrows |-> bs]
    <2>1. PICK d : d = q.deposits
        OBVIOUS
    <2>2. q = [head |-> h, deposits |-> d, borrows |-> bs]
        BY <1>1, <1>2, <2>1 DEF InMemory
    <2> QED BY <1>1, <1>4, <2>2
<1>6. InMemory(o) /\ o.head = h /\ o.deposits = ds /\ o.borrows = bs
    BY <1>2, <1>3, <1>5, MakeMemory
<1>7. Room(o)
    BY <1>1, <1>2, <1>6 DEF Room
<1> QED BY <1>4, <1>6, <1>7, SaveObligationKeeps

\* The borrows of an obligation changed: they never are all it has.
LEMMA BorrowsKept ==
    ASSUME AccountInv, kind = "obligation", NEW bs \in Seq(BorrowRec),
           Len(meant.deposits) + Len(bs) <= MAX_OBLIGATION_RESERVES,
           Len(bs) <= MAX_OBLIGATION_RESERVES - 1,
           SaveObligation([meant EXCEPT !.borrows = bs])
    PROVE  AccountInv'
<1>1. PICK q : q = meant /\ InMemory(q) /\ Room(q)
    BY DEF AccountInv, ObligationInv
<1>2. PICK h, ds : h = q.head /\ ds = q.deposits /\ ds \in Seq(DepositRec)
    BY <1>1 DEF InMemory, Lists
<1>3. h = [f \in Range(ObligationUnpacked) |-> h[f]]
    BY <1>1, <1>2 DEF InMemory
<1>4. PICK o : o = [meant EXCEPT !.borrows = bs]
    OBVIOUS
<1>5. o = [head |-> h, deposits |-> ds, borrows |-> bs]
    <2>1. PICK b : b = q.borrows
        OBVIOUS
    <2>2. q = [head |-> h, deposits |-> ds, borrows |-> b]
        BY <1>1, <1>2, <2>1 DEF InMemory
    <2> QED BY <1>1, <1>4, <2>2
<1>6. InMemory(o) /\ o.head = h /\ o.deposits = ds /\ o.borrows = bs
    BY <1>2, <1>3, <1>5, MakeMemory
<1>7. Room(o)
    BY <1>1, <1>2, <1>6 DEF Room
<1> QED BY <1>4, <1>6, <1>7, SaveObligationKeeps

\* A deposit: into a position there is, or into a new one if there is room.
LEMMA DepositHandler ==
    ASSUME AccountInv, DepositObligationCollateral
    PROVE  AccountInv'
<1>1. kind = "obligation"
    BY Zenon DEF DepositObligationCollateral
<1>2. PICK q : q = meant /\ q = UnpackObligation(slots, flat) /\ InMemory(q) /\ Room(q)
    BY <1>1 DEF AccountInv, ObligationInv
<1>3. PICK ds : ds = q.deposits /\ ds \in Seq(DepositRec)
    BY <1>2 DEF InMemory, Lists
<1>4. PICK r \in Reserves :
         IF Position(q.deposits, r) # 0
           THEN SaveObligation([q EXCEPT !.deposits[Position(q.deposits, r)].amount = 2])
           ELSE /\ HasRoom(q)
                /\ SaveObligation([q EXCEPT !.deposits = Append(@, [reserve |-> r,
                                                           amount |-> 1, value |-> 0])])
    BY <1>2, Zenon DEF DepositObligationCollateral
<1>5. CASE Position(q.deposits, r) # 0
    <2>1. PICK p : p = Position(q.deposits, r)
        OBVIOUS
    <2>2. SaveObligation([q EXCEPT !.deposits[p].amount = 2])
        BY <1>4, <1>5, <2>1, Zenon
    <2>3. PICK t : t = [ds EXCEPT ![p].amount = 2]
        OBVIOUS
    <2>4. t \in Seq(DepositRec) /\ Len(t) = Len(ds)
        BY <1>3, <2>3, SetDepositAmount
    <2>5. [q EXCEPT !.deposits[p].amount = 2] = [q EXCEPT !.deposits = t]
        BY <1>3, <2>3
    <2>6. SaveObligation([meant EXCEPT !.deposits = t])
        BY <1>2, <2>2, <2>5
    <2>7. Len(t) + Len(meant.borrows) <= MAX_OBLIGATION_RESERVES
        BY <1>2, <1>3, <2>4 DEF Room
    <2> QED BY <1>1, <2>4, <2>6, <2>7, DepositsKept
<1>6. CASE ~(Position(q.deposits, r) # 0)
    <2>1. PICK e : e = [reserve |-> r, amount |-> 1, value |-> 0]
        OBVIOUS
    <2>2. e \in DepositRec
        BY <2>1, StoredAssumption DEF DepositRec
    <2>3. PICK t : t = Append(ds, e)
        OBVIOUS
    <2>4. t \in Seq(DepositRec) /\ Len(t) = Len(ds) + 1
        BY <1>3, <2>2, <2>3
    <2>5. HasRoom(q) /\ SaveObligation([meant EXCEPT !.deposits = t])
        BY <1>2, <1>3, <1>4, <1>6, <2>1, <2>3
    <2>6. PICK n \in Nat, b \in Nat, max \in Nat :
             n = Len(ds) /\ b = Len(meant.borrows) /\ max = MAX_OBLIGATION_RESERVES
        BY <1>2, <1>3, StoredAssumption DEF InMemory, Lists
    <2>7. n + b < max
        BY <1>2, <1>3, <2>5, <2>6 DEF HasRoom
    <2>8. Len(t) + Len(meant.borrows) <= MAX_OBLIGATION_RESERVES
        <3>1. Len(t) = n + 1 /\ Len(meant.borrows) = b
            BY <2>4, <2>6
        <3>2. (n + 1) + b <= max
            BY <2>7
        <3> QED BY <2>6, <3>1, <3>2
    <2> QED BY <1>1, <2>4, <2>5, <2>8, DepositsKept
<1> QED BY <1>5, <1>6

\* A borrow, against a deposit: the new position is not all there is.
LEMMA BorrowHandler ==
    ASSUME AccountInv, BorrowObligationLiquidity
    PROVE  AccountInv'
<1>1. kind = "obligation"
    BY Zenon DEF BorrowObligationLiquidity
<1>2. PICK q : q = meant /\ q = UnpackObligation(slots, flat) /\ InMemory(q) /\ Room(q)
    BY <1>1 DEF AccountInv, ObligationInv
<1>3. PICK bs : bs = q.borrows /\ bs \in Seq(BorrowRec)
    BY <1>2 DEF InMemory, Lists
<1>4. /\ q.deposits # << >>
      /\ \E r \in Reserves :
           IF Position(q.borrows, r) # 0
             THEN SaveObligation([q EXCEPT !.borrows[Position(q.borrows, r)].amount = 2])
             ELSE /\ HasRoom(q)
                  /\ SaveObligation([q EXCEPT !.borrows = Append(@, [reserve |-> r, rate |-> 3,
                                                             amount |-> 1, value |-> 0])])
    BY <1>2, Zenon DEF BorrowObligationLiquidity
<1>5. PICK r \in Reserves :
           IF Position(q.borrows, r) # 0
             THEN SaveObligation([q EXCEPT !.borrows[Position(q.borrows, r)].amount = 2])
             ELSE /\ HasRoom(q)
                  /\ SaveObligation([q EXCEPT !.borrows = Append(@, [reserve |-> r, rate |-> 3,
                                                             amount |-> 1, value |-> 0])])
    BY <1>4, Zenon
<1>6. PICK d \in Nat, b \in Nat, max \in Nat :
         /\ d = Len(meant.deposits) /\ b = Len(bs) /\ max = MAX_OBLIGATION_RESERVES
    BY <1>2, <1>3, StoredAssumption DEF InMemory, Lists
<1>7. d + b <= max /\ b <= max - 1
    BY <1>2, <1>3, <1>6 DEF Room
<1>8. d >= 1
    <2>1. PICK ds \in Seq(DepositRec) : ds = q.deposits
        BY <1>2 DEF InMemory, Lists
    <2>2. Len(ds) # 0
        BY <1>4, <2>1
    <2>3. d = Len(ds)
        BY <1>2, <1>6, <2>1
    <2> QED BY <2>2, <2>3
<1>9. CASE Position(q.borrows, r) # 0
    <2>1. PICK p : p = Position(q.borrows, r)
        OBVIOUS
    <2>2. SaveObligation([q EXCEPT !.borrows[p].amount = 2])
        BY <1>5, <1>9, <2>1, Zenon
    <2>3. PICK t : t = [bs EXCEPT ![p].amount = 2]
        OBVIOUS
    <2>4. t \in Seq(BorrowRec) /\ Len(t) = Len(bs)
        BY <1>3, <2>3, SetBorrowAmount
    <2>5. [q EXCEPT !.borrows[p].amount = 2] = [q EXCEPT !.borrows = t]
        BY <1>3, <2>3
    <2>6. SaveObligation([meant EXCEPT !.borrows = t])
        BY <1>2, <2>2, <2>5
    <2>7. /\ Len(meant.deposits) + Len(t) <= MAX_OBLIGATION_RESERVES
          /\ Len(t) <= MAX_OBLIGATION_RESERVES - 1
        BY <1>6, <1>7, <2>4
    <2> QED BY <1>1, <2>4, <2>6, <2>7, BorrowsKept
<1>10. CASE ~(Position(q.borrows, r) # 0)
    <2>1. PICK e : e = [reserve |-> r, rate |-> 3, amount |-> 1, value |-> 0]
        OBVIOUS
    <2>2. e \in BorrowRec
        BY <2>1, StoredAssumption DEF BorrowRec
    <2>3. PICK t : t = Append(bs, e)
        OBVIOUS
    <2>4. t \in Seq(BorrowRec) /\ Len(t) = Len(bs) + 1
        BY <1>3, <2>2, <2>3
    <2>5. HasRoom(q) /\ SaveObligation([meant EXCEPT !.borrows = t])
        BY <1>2, <1>3, <1>5, <1>10, <2>1, <2>3
    <2>6. d + b < max
        BY <1>2, <1>3, <1>6, <2>5 DEF HasRoom
    <2>7. d + (b + 1) <= max /\ b + 1 <= max - 1
        BY <1>8, <2>6
    <2>8. /\ Len(meant.deposits) + Len(t) <= MAX_OBLIGATION_RESERVES
          /\ Len(t) <= MAX_OBLIGATION_RESERVES - 1
        BY <1>6, <2>4, <2>7
    <2> QED BY <1>1, <2>4, <2>5, <2>8, BorrowsKept
<1> QED BY <1>9, <1>10

\* Every part of an obligation replaced.
LEMMA NewParts ==
    ASSUME NEW a, NEW b, NEW c, NEW h, NEW ds, NEW bs
    PROVE  [[head |-> a, deposits |-> b, borrows |-> c] EXCEPT
              !.head = h, !.deposits = ds, !.borrows = bs]
             = [head |-> h, deposits |-> ds, borrows |-> bs]
<1>1. PICK x : x = [head |-> h, deposits |-> b, borrows |-> c]
    OBVIOUS
<1>2. [[head |-> a, deposits |-> b, borrows |-> c] EXCEPT !.head = h] = x
    BY <1>1
<1>3. PICK y : y = [head |-> h, deposits |-> ds, borrows |-> c]
    OBVIOUS
<1>4. [x EXCEPT !.deposits = ds] = y
    BY <1>1, <1>3
<1>5. [y EXCEPT !.borrows = bs] = [head |-> h, deposits |-> ds, borrows |-> bs]
    BY <1>3
<1> QED BY <1>2, <1>4, <1>5, Zenon

\* A refresh writes over the values and rates of the positions there are.
LEMMA RefreshHandler ==
    ASSUME AccountInv, RefreshObligation
    PROVE  AccountInv'
<1>1. kind = "obligation"
    BY Zenon DEF RefreshObligation
<1>2. PICK q : q = meant /\ q = UnpackObligation(slots, flat) /\ InMemory(q) /\ Room(q)
    BY <1>1 DEF AccountInv, ObligationInv
<1>3. PICK hd, ds, bs : /\ hd = q.head /\ ds = q.deposits /\ bs = q.borrows
                        /\ ds \in Seq(DepositRec) /\ bs \in Seq(BorrowRec)
    BY <1>2 DEF InMemory, Lists
<1>4. q = [head |-> hd, deposits |-> ds, borrows |-> bs]
    BY <1>2, <1>3 DEF InMemory
<1>5. SaveObligation([q EXCEPT
         !.head.stale = 0,
         !.deposits = [k \in DOMAIN @ |-> [@[k] EXCEPT !.value = 4]],
         !.borrows = [k \in DOMAIN @ |-> [@[k] EXCEPT !.value = 5, !.rate = 5]]])
    BY <1>2, Zenon DEF RefreshObligation
<1>6. PICK h, dt, bt : /\ h = [hd EXCEPT !.stale = 0]
                       /\ dt = [k \in DOMAIN ds |-> [ds[k] EXCEPT !.value = 4]]
                       /\ bt = [k \in DOMAIN bs |-> [bs[k] EXCEPT !.value = 5, !.rate = 5]]
    OBVIOUS
<1>7. PICK o : o = [head |-> h, deposits |-> dt, borrows |-> bt]
    OBVIOUS
<1>8. SaveObligation(o)
    <2>1. [q EXCEPT
             !.head.stale = 0,
             !.deposits = [k \in DOMAIN @ |-> [@[k] EXCEPT !.value = 4]],
             !.borrows = [k \in DOMAIN @ |-> [@[k] EXCEPT !.value = 5, !.rate = 5]]]
          = [q EXCEPT !.head = h, !.deposits = dt, !.borrows = bt]
        BY <1>3, <1>4, <1>6
    <2>2. [q EXCEPT !.head = h, !.deposits = dt, !.borrows = bt] = o
        BY <1>4, <1>7, NewParts
    <2> QED BY <1>5, <2>1, <2>2
<1>9. h = [f \in Range(ObligationUnpacked) |-> h[f]]
    <2>1. hd = [f \in Range(ObligationUnpacked) |-> hd[f]]
        BY <1>2, <1>3 DEF InMemory
    <2> QED BY <1>6, <2>1
<1>10. dt \in Seq(DepositRec) /\ Len(dt) = Len(ds)
    <2>1. PICK n \in Nat : n = Len(ds) /\ DOMAIN ds = 1..n
        BY <1>3
    <2>2. ASSUME NEW k \in 1..n PROVE [ds[k] EXCEPT !.value = 4] \in DepositRec
        <3>1. PICK e \in DepositRec : e = ds[k]
            BY <1>3, <2>1
        <3>2. [e EXCEPT !.value = 4] \in DepositRec
            BY DEF DepositRec
        <3> QED BY <3>1, <3>2
    <2>3. dt \in [1..n -> DepositRec]
        BY <1>6, <2>1, <2>2
    <2>4. dt \in Seq(DepositRec)
        BY <2>3, ListIsSeq
    <2>5. PICK m \in Nat : m = Len(dt) /\ DOMAIN dt = 1..m
        BY <2>4
    <2> QED BY <2>1, <2>3, <2>4, <2>5
<1>11. bt \in Seq(BorrowRec) /\ Len(bt) = Len(bs)
    <2>1. PICK n \in Nat : n = Len(bs) /\ DOMAIN bs = 1..n
        BY <1>3
    <2>2. ASSUME NEW k \in 1..n PROVE [bs[k] EXCEPT !.value = 5, !.rate = 5] \in BorrowRec
        <3>1. PICK e \in BorrowRec : e = bs[k]
            BY <1>3, <2>1
        <3>2. [e EXCEPT !.value = 5, !.rate = 5] \in BorrowRec
            BY DEF BorrowRec
        <3> QED BY <3>1, <3>2
    <2>3. bt \in [1..n -> BorrowRec]
        BY <1>6, <2>1, <2>2
    <2>4. bt \in Seq(BorrowRec)
        BY <2>3, ListIsSeq
    <2>5. PICK m \in Nat : m = Len(bt) /\ DOMAIN bt = 1..m
        BY <2>4
    <2> QED BY <2>1, <2>3, <2>4, <2>5
<1>12. InMemory(o) /\ o.deposits = dt /\ o.borrows = bt
    BY <1>7, <1>9, <1>10, <1>11, MakeMemory
<1>13. Room(o)
    BY <1>2, <1>3, <1>10, <1>11, <1>12 DEF Room
<1> QED BY <1>1, <1>8, <1>12, <1>13, SaveObligationKeeps

\* A position closed, by a withdrawal, a repayment or a liquidation.
LEMMA CloseHandlers ==
    ASSUME AccountInv, CloseDeposit \/ CloseBorrow
    PROVE  AccountInv'
<1>1. kind = "obligation"
    BY Zenon DEF CloseDeposit, CloseBorrow
<1>2. PICK q : q = meant /\ q = UnpackObligation(slots, flat) /\ InMemory(q) /\ Room(q)
    BY <1>1 DEF AccountInv, ObligationInv
<1>3. PICK ds, bs : /\ ds = q.deposits /\ bs = q.borrows
                    /\ ds \in Seq(DepositRec) /\ bs \in Seq(BorrowRec)
    BY <1>2 DEF InMemory, Lists
<1>4. PICK d \in Nat, b \in Nat, max \in Nat :
         /\ d = Len(ds) /\ b = Len(bs) /\ max = MAX_OBLIGATION_RESERVES
    BY <1>3, StoredAssumption
<1>5. d + b <= max /\ b <= max - 1
    BY <1>2, <1>3, <1>4 DEF Room
<1>6. CASE CloseDeposit
    <2>1. PICK k \in DOMAIN ds : SaveObligation([q EXCEPT !.deposits = RemoveAt(@, k)])
        BY <1>2, <1>3, <1>6, Zenon DEF CloseDeposit
    <2>2. PICK t : t = RemoveAt(ds, k)
        OBVIOUS
    <2>3. t \in Seq(DepositRec) /\ Len(t) = Len(ds) - 1
        BY <1>3, <2>2, RemoveAtSeq
    <2>4. SaveObligation([meant EXCEPT !.deposits = t])
        BY <1>2, <1>3, <2>1, <2>2
    <2>5. d - 1 + b <= max
        BY <1>5
    <2>6. Len(t) + Len(meant.borrows) <= MAX_OBLIGATION_RESERVES
        BY <1>2, <1>3, <1>4, <2>3, <2>5
    <2> QED BY <1>1, <2>3, <2>4, <2>6, DepositsKept
<1>7. CASE CloseBorrow
    <2>1. PICK k \in DOMAIN bs : SaveObligation([q EXCEPT !.borrows = RemoveAt(@, k)])
        BY <1>2, <1>3, <1>7, Zenon DEF CloseBorrow
    <2>2. PICK t : t = RemoveAt(bs, k)
        OBVIOUS
    <2>3. t \in Seq(BorrowRec) /\ Len(t) = Len(bs) - 1
        BY <1>3, <2>2, RemoveAtSeq
    <2>4. SaveObligation([meant EXCEPT !.borrows = t])
        BY <1>2, <1>3, <2>1, <2>2
    <2>5. d + (b - 1) <= max /\ b - 1 <= max - 1
        BY <1>5
    <2>6. /\ Len(meant.deposits) + Len(t) <= MAX_OBLIGATION_RESERVES
          /\ Len(t) <= MAX_OBLIGATION_RESERVES - 1
        BY <1>2, <1>3, <1>4, <2>3, <2>5
    <2> QED BY <1>1, <2>3, <2>4, <2>6, BorrowsKept
<1> QED BY <1>6, <1>7

\* A reserve as the program first finds it, whichever layout wrote it.
LEMMA FirstReserve ==
    ASSUME InitReserve, failed = FALSE
    PROVE  AccountInv
<1>1. slots \in OlderReserves /\ meant = UnpackReserve(slots) /\ kind = "reserve"
    BY DEF InitReserve
<1>2. \A f \in PairFields : slots[ReserveSlots[f]] \in Nat
    BY <1>1, StoredAssumption, OlderReserveNat
<1>3. ReserveState(UnpackReserve(slots)) /\ PairsInOrder(UnpackReserve(slots))
    BY <1>2, StoredAssumption, UnpackOrder
<1>4. ReserveInv
    BY <1>1, <1>3 DEF ReserveInv
<1> QED BY <1>1, <1>4 DEF AccountInv

\* A market: the owner is in every layout, so the risk authority has a default.
LEMMA FirstMarket ==
    ASSUME InitMarket, failed = FALSE
    PROVE  AccountInv
<1>1. PICK owner \in Keys, liquidator \in Keys \cup {0}, risk \in Keys,
           n \in Len(MarketPacked) - 2 .. Len(MarketPacked) :
         slots = Older(MarketPacked,
                       [Marked(MarketPacked) EXCEPT !.owner = owner, !.risk_authority = risk,
                                                    !.whitelisted_liquidator = liquidator], n)
    BY Zenon DEF InitMarket
<1>2. PICK base, rec :
         /\ base = Marked(MarketPacked)
         /\ rec = [base EXCEPT !.owner = owner, !.risk_authority = risk,
                               !.whitelisted_liquidator = liquidator]
    OBVIOUS
<1>3. slots = Older(MarketPacked, rec, n)
    BY <1>1, <1>2, Zenon
<1>4. n \in 12..14
    BY MarketOrder
<1>5. DOMAIN base = Range(MarketPacked) /\ MarketKeys \subseteq DOMAIN base
    BY <1>2, MarketOrder DEF Marked
<1>6. rec.owner = owner /\ rec.risk_authority = risk /\ rec.whitelisted_liquidator = liquidator
    BY <1>2, <1>5 DEF MarketKeys
<1>7. owner \in SomeKey /\ risk \in Nat /\ liquidator \in Nat
    BY StoredAssumption DEF SomeKey
<1>8. ASSUME NEW f \in MarketKeys
      PROVE  /\ MarketSlots[f] \in 1..14 /\ MarketUnpacked[MarketSlots[f]] = f
             /\ slots[MarketSlots[f]] = IF MarketSlots[f] <= n THEN rec[f] ELSE 0
    <2>1. PICK k : k = MarketSlots[f]
        OBVIOUS
    <2>2. f \in Range(MarketUnpacked)
        BY MarketOrder
    <2>3. k = Slot(MarketUnpacked, f)
        BY <2>1, <2>2 DEF MarketSlots, SlotsOf
    <2>4. k \in DOMAIN MarketUnpacked /\ MarketUnpacked[k] = f
        BY <2>2, <2>3, SlotIn
    <2>5. k \in DOMAIN MarketPacked /\ MarketPacked[k] = f /\ k \in 1..14
        BY <2>4, MarketOrder
    <2>6. slots[k] = IF k <= n THEN rec[MarketPacked[k]] ELSE 0
        BY <1>3, <2>5 DEF Older
    <2> QED BY <2>1, <2>4, <2>5, <2>6
<1>9. slots[MarketSlots["owner"]] \in SomeKey
    <2>1. PICK k \in 1..14 : k = MarketSlots["owner"] /\ MarketUnpacked[k] = "owner"
        BY <1>8 DEF MarketKeys
    <2>2. k # 13 /\ k # 14
        BY <2>1, MarketOrder
    <2>3. k <= n
        BY <1>4, <2>2
    <2>4. slots[MarketSlots["owner"]]
             = IF MarketSlots["owner"] <= n THEN rec["owner"] ELSE 0
        BY <1>8 DEF MarketKeys
    <2>5. slots[k] = rec["owner"]
        BY <2>1, <2>3, <2>4
    <2> QED BY <1>6, <1>7, <2>1, <2>5
<1>10. /\ slots[MarketSlots["whitelisted_liquidator"]] \in Nat
       /\ slots[MarketSlots["risk_authority"]] \in Nat
    <2>1. /\ slots[MarketSlots["whitelisted_liquidator"]]
                = IF MarketSlots["whitelisted_liquidator"] <= n
                    THEN rec["whitelisted_liquidator"] ELSE 0
          /\ slots[MarketSlots["risk_authority"]]
                = IF MarketSlots["risk_authority"] <= n THEN rec["risk_authority"] ELSE 0
        BY <1>8 DEF MarketKeys
    <2> QED BY <1>6, <1>7, <2>1
<1>11. MarketState(UnpackMarket(slots))
    BY <1>9, <1>10, UnpackedMarket
<1>12. meant = UnpackMarket(slots) /\ kind = "market"
    BY Zenon DEF InitMarket
<1> QED BY <1>11, <1>12 DEF AccountInv, MarketInv

\* An obligation: no positions yet.
LEMMA FirstObligation ==
    ASSUME InitObligation, failed = FALSE
    PROVE  AccountInv
<1>1. PICK base, rec :
         /\ base = Marked(ObligationPacked)
         /\ rec = [base EXCEPT !.deposits_len = 0, !.borrows_len = 0, !.stale = 1]
    OBVIOUS
<1>2. slots = Written(ObligationUnpacked, rec)
    BY <1>1, HeadOrder DEF InitObligation
<1>3. PICK R, h : R = Range(ObligationUnpacked) /\ h = ReadFrom(ObligationSlots, slots)
    OBVIOUS
<1>4. h = [f \in R |-> rec[f]]
    BY <1>2, <1>3, ReadWritten DEF ObligationSlots
<1>5. DOMAIN base = R /\ "deposits_len" \in R /\ "borrows_len" \in R
    BY <1>1, <1>3, HeadOrder DEF Marked
<1>6. rec.deposits_len = 0 /\ rec.borrows_len = 0
    BY <1>1, <1>5
<1>7. h.deposits_len = 0 /\ h.borrows_len = 0 /\ h = [f \in R |-> h[f]]
    BY <1>4, <1>5, <1>6
<1>8. PICK ds, bs :
         /\ ds = UnpackObligation(slots, flat).deposits
         /\ bs = UnpackObligation(slots, flat).borrows
    OBVIOUS
<1>9. UnpackObligation(slots, flat) = [head |-> h, deposits |-> ds, borrows |-> bs]
    <2>1. \E x, y : UnpackObligation(slots, flat) = [head |-> h, deposits |-> x, borrows |-> y]
        BY <1>3, Zenon DEF UnpackObligation
    <2> QED BY <1>8, <2>1
<1>10. DOMAIN ds = {} /\ DOMAIN bs = {} /\ ds \in [1..0 -> DepositRec] /\ bs \in [1..0 -> BorrowRec]
    <2>1. 1..h.deposits_len = {} /\ 1..h.borrows_len = {} /\ 1..0 = {}
        BY <1>7
    <2>2. /\ ds \in [1..h.deposits_len -> DepositRec]
          /\ bs \in [1..h.borrows_len -> BorrowRec]
        BY <1>3, <1>8, <2>1 DEF UnpackObligation
    <2> QED BY <1>7, <2>1, <2>2
<1>11. ds \in Seq(DepositRec) /\ bs \in Seq(BorrowRec)
    BY <1>10, ListIsSeq
<1>12. Len(ds) = 0 /\ Len(bs) = 0
    BY <1>10, <1>11
<1>13. PICK o : o = UnpackObligation(slots, flat)
    OBVIOUS
<1>14. InMemory(o) /\ o.deposits = ds /\ o.borrows = bs
    BY <1>3, <1>7, <1>9, <1>11, <1>13, MakeMemory
<1>15. Room(o)
    BY <1>12, <1>14, StoredAssumption DEF Room
<1>16. meant = o /\ kind = "obligation" /\ DOMAIN flat = 1..FlatLen
    BY <1>13, Zenon DEF InitObligation
<1> QED BY <1>13, <1>14, <1>15, <1>16 DEF AccountInv, ObligationInv

\* The accounts are in order at first.
LEMMA InitAccountInv == Init => AccountInv
BY FirstReserve, FirstMarket, FirstObligation DEF Init

\* Every handler keeps them in order.
LEMMA NextAccountInv ==
    ASSUME AccountInv, [Next]_vars
    PROVE  AccountInv'
<1>1. CASE Next
    BY <1>1, ReserveHandlers, MarketHandlers, DepositHandler, BorrowHandler, RefreshHandler,
       CloseHandlers DEF Next
<1>2. CASE UNCHANGED vars
    BY <1>2 DEF vars, AccountInv, ReserveInv, MarketInv, ObligationInv
<1> QED BY <1>1, <1>2

\* The invariant holds always.
LEMMA AccountInvAlways == Spec => []AccountInv
<1>1. AccountInv /\ [Next]_vars => AccountInv'
    BY NextAccountInv
<1> QED BY <1>1, InitAccountInv, PTL DEF Spec

\* What a handler saves is what the next one loads, whatever the account held
\* before it: every field comes back from the slot it went to, the defaults
\* that unpack_from_slice fills in mean the same once they are saved, closed
\* positions do not come back, and no list of positions outgrows the account.
THEOREM SavedIsLoaded == Spec => []AccountsSurvive
<1>1. AccountInv => AccountsSurvive
    BY DEF AccountInv, ReserveInv, MarketInv, ObligationInv, AccountsSurvive,
           PositionsAlwaysSave, LoadsWhatWasSaved, Loaded
<1> QED BY <1>1, AccountInvAlways, PTL

\* A reserve that any earlier layout wrote is worked with in order: the pairs
\* that validate_reserve_config orders are ordered, and the fee is capped.
THEOREM UpgradesAreOrdered == Spec => []UpgradedReserveInOrder
<1>1. AccountInv => UpgradedReserveInOrder
    BY DEF AccountInv, ReserveInv, UpgradedReserveInOrder
<1> QED BY <1>1, AccountInvAlways, PTL
=============================================================================
