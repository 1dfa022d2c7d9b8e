--------------------------- MODULE StoredAccounts ---------------------------
(***************************************************************************)
(* The accounts as bytes: pack_into_slice and unpack_from_slice of         *)
(* Reserve, LendingMarket, RateLimiter and Obligation (sdk/src/state).     *)
(* Every handler unpacks an account, changes it and packs it again, over   *)
(* bytes that an older version of the program may have written, where the  *)
(* fields added since are zero.                                            *)
(*                                                                         *)
(* One behaviour follows one account.  A field's bytes are one slot: the   *)
(* array_refs of pack and unpack are two lists of the fields in the order  *)
(* of their slots.  The positions of an obligation share one region after  *)
(* its slots, written over what earlier positions left there.  Every       *)
(* account is one the program has initialized: the refusals of unpack (a   *)
(* later version, a flag byte that is no Boolean) do not arise.            *)
(***************************************************************************)
EXTENDS Naturals, Sequences, SequencesExt, FiniteSetsExt

CONSTANTS MAX_OBLIGATION_RESERVES,   \* the positions of an obligation
          FeeCap,     \* MAX_PROTOCOL_LIQUIDATION_FEE_DECA_BPS
          Percents,   \* the values of the percentages of a reserve's configuration
          Keys,       \* public keys, none of them the null key 0
          Reserves    \* the reserves an obligation may have positions in

ASSUME StoredAssumption ==
  /\ MAX_OBLIGATION_RESERVES \in Nat \ {0}
  /\ FeeCap \in Nat
  /\ Percents \subseteq Nat
  /\ Keys \subseteq Nat \ {0}
  /\ Reserves \subseteq Nat \ {0}

VARIABLES kind,     \* the account: reserve, market or obligation
          slots,    \* the slots of its fields
          flat,     \* the region of an obligation's positions
          meant,    \* what the last handler saved, or what was first loaded
          failed    \* whether a pack ran out of the account

vars == <<kind, slots, flat, meant, failed>>

PROGRAM_VERSION == 1

----------------------------------------------------------------------------
(* The layouts.  An order names the field of each slot. *)

RateLimiterPacked ==
  <<"max_outflow", "window_duration", "prev_qty", "window_start", "cur_qty">>

RateLimiterUnpacked ==
  <<"max_outflow", "window_duration", "prev_qty", "window_start", "cur_qty">>

ReservePacked ==
  <<"version", "slot", "stale", "lending_market", "liquidity_mint", "mint_decimals",
    "liquidity_supply", "pyth_oracle", "switchboard_oracle", "available_amount",
    "borrowed_amount_wads", "cumulative_borrow_rate_wads", "market_price",
    "collateral_mint", "mint_total_supply", "collateral_supply",
    "optimal_utilization_rate", "loan_to_value_ratio", "liquidation_bonus",
    "liquidation_threshold", "min_borrow_rate", "optimal_borrow_rate", "max_borrow_rate",
    "borrow_fee_wad", "flash_loan_fee_wad", "host_fee_percentage", "deposit_limit",
    "borrow_limit", "fee_receiver", "protocol_liquidation_fee", "protocol_take_rate",
    "accumulated_protocol_fees_wads">> \o RateLimiterPacked \o
  <<"added_borrow_weight_bps", "smoothed_market_price", "asset_type",
    "max_utilization_rate", "super_max_borrow_rate", "max_liquidation_bonus",
    "max_liquidation_threshold">>

ReserveUnpacked ==
  <<"version", "slot", "stale", "lending_market", "liquidity_mint", "mint_decimals",
    "liquidity_supply", "pyth_oracle", "switchboard_oracle", "available_amount",
    "borrowed_amount_wads", "cumulative_borrow_rate_wads", "market_price",
    "collateral_mint", "mint_total_supply", "collateral_supply",
    "optimal_utilization_rate", "loan_to_value_ratio", "liquidation_bonus",
    "liquidation_threshold", "min_borrow_rate", "optimal_borrow_rate", "max_borrow_rate",
    "borrow_fee_wad", "flash_loan_fee_wad", "host_fee_percentage", "deposit_limit",
    "borrow_limit", "fee_receiver", "protocol_liquidation_fee", "protocol_take_rate",
    "accumulated_protocol_fees_wads">> \o RateLimiterUnpacked \o
  <<"added_borrow_weight_bps", "smoothed_market_price", "asset_type",
    "max_utilization_rate", "super_max_borrow_rate", "max_liquidation_bonus",
    "max_liquidation_threshold">>

MarketPacked ==
  <<"version", "bump_seed", "owner", "quote_currency", "token_program_id",
    "oracle_program_id", "switchboard_oracle_program_id">> \o RateLimiterPacked
    \o <<"whitelisted_liquidator", "risk_authority">>

MarketUnpacked ==
  <<"version", "bump_seed", "owner", "quote_currency", "token_program_id",
    "oracle_program_id", "switchboard_oracle_program_id">> \o RateLimiterUnpacked
    \o <<"whitelisted_liquidator", "risk_authority">>

ObligationPacked ==
  <<"version", "slot", "stale", "lending_market", "owner", "deposited_value",
    "borrowed_value", "allowed_borrow_value", "unhealthy_borrow_value",
    "borrowed_value_upper_bound", "borrowing_isolated_asset",
    "super_unhealthy_borrow_value", "deposits_len", "borrows_len">>

ObligationUnpacked ==
  <<"version", "slot", "stale", "lending_market", "owner", "deposited_value",
    "borrowed_value", "allowed_borrow_value", "unhealthy_borrow_value",
    "borrowed_value_upper_bound", "borrowing_isolated_asset",
    "super_unhealthy_borrow_value", "deposits_len", "borrows_len">>

\* A position's cells, its padding included: reserve, amount, value and padding,
\* and for a borrow the rate too.  The code's lengths are 88 and 112 bytes.
OBLIGATION_COLLATERAL_LEN == 4
OBLIGATION_LIQUIDITY_LEN == 5
FlatLen == OBLIGATION_COLLATERAL_LEN
             + OBLIGATION_LIQUIDITY_LEN * (MAX_OBLIGATION_RESERVES - 1)

Written(order, record) == [k \in DOMAIN order |-> record[order[k]]]

Slot(order, field) == CHOOSE k \in DOMAIN order : order[k] = field

SlotsOf(order) == [f \in Range(order) |-> Slot(order, f)]

ReadFrom(slotsOf, s) == [f \in DOMAIN slotsOf |-> s[slotsOf[f]]]

Larger(a, b) == IF a > b THEN a ELSE b
Smaller(a, b) == IF a < b THEN a ELSE b

----------------------------------------------------------------------------
(* Reserve *)

ReserveSlots == SlotsOf(ReserveUnpacked)

\* mutant: the maximum of the threshold is taken as it stands
UnpackReserveZeroMax(s) ==
  LET raw == ReadFrom(ReserveSlots, s)
  IN  [raw EXCEPT
         !.max_utilization_rate = Larger(raw.optimal_utilization_rate, @),
         !.max_liquidation_bonus = Larger(raw.liquidation_bonus, @),
         !.super_max_borrow_rate = Larger(raw.max_borrow_rate, @),
         !.protocol_liquidation_fee = Smaller(@, FeeCap)]

\* Reserve::unpack_from_slice: the maxima an older program left at zero are
\* raised to the values they bound, and the liquidation fee, which used to be a
\* share of the bonus, is capped.
UnpackReserve(s) ==
  LET raw == ReadFrom(ReserveSlots, s)
  IN  [raw EXCEPT
         !.max_utilization_rate = Larger(raw.optimal_utilization_rate, @),
         !.max_liquidation_bonus = Larger(raw.liquidation_bonus, @),
         !.max_liquidation_threshold = Larger(raw.liquidation_threshold, @),
         !.super_max_borrow_rate = Larger(raw.max_borrow_rate, @),
         !.protocol_liquidation_fee = Smaller(@, FeeCap)]

PackReserve(r) == Written(ReservePacked, r)

\* The bounds validate_reserve_config puts on the pairs that unpack repairs.
PairsInOrder(r) ==
  /\ r.optimal_utilization_rate <= r.max_utilization_rate
  /\ r.liquidation_bonus <= r.max_liquidation_bonus
  /\ r.liquidation_threshold <= r.max_liquidation_threshold
  /\ r.max_borrow_rate <= r.super_max_borrow_rate
  /\ r.protocol_liquidation_fee <= FeeCap

----------------------------------------------------------------------------
(* Lending market: an absent liquidator is the null key, and a risk authority *)
(* an older program left null is the owner.                                   *)

MarketSlots == SlotsOf(MarketUnpacked)

UnpackMarket(s) ==
  LET raw == ReadFrom(MarketSlots, s)
  IN  [raw EXCEPT
         !.whitelisted_liquidator = IF @ = 0 THEN << >> ELSE <<@>>,
         !.risk_authority = IF @ = 0 THEN raw.owner ELSE @]

PackMarket(m) ==
  Written(MarketPacked,
          [m EXCEPT !.whitelisted_liquidator = IF @ = << >> THEN 0 ELSE @[1]])

----------------------------------------------------------------------------
(* Obligation *)

ObligationSlots == SlotsOf(ObligationUnpacked)

\* mutant: the number of borrows is the one that was loaded
PackObligationKeepsLen(o) ==
  Written(ObligationPacked, [o.head EXCEPT !.deposits_len = Len(o.deposits)])

\* The slots in front of the positions; the two lengths are the lists'.
PackObligation(o) ==
  Written(ObligationPacked, [o.head EXCEPT !.deposits_len = Len(o.deposits),
                                           !.borrows_len = Len(o.borrows)])

\* The cells the positions are written to, and what: the padding is left alone.
DepositCells(o, k) ==
  LET offset == (k - 1) * OBLIGATION_COLLATERAL_LEN
  IN  {<<offset + 1, o.deposits[k].reserve>>, <<offset + 2, o.deposits[k].amount>>,
       <<offset + 3, o.deposits[k].value>>}

BorrowCells(o, k) ==
  LET offset == Len(o.deposits) * OBLIGATION_COLLATERAL_LEN
                  + (k - 1) * OBLIGATION_LIQUIDITY_LEN
  IN  {<<offset + 1, o.borrows[k].reserve>>, <<offset + 2, o.borrows[k].rate>>,
       <<offset + 3, o.borrows[k].amount>>, <<offset + 4, o.borrows[k].value>>}

Cells(o) == UNION ({DepositCells(o, k) : k \in DOMAIN o.deposits}
                     \cup {BorrowCells(o, k) : k \in DOMAIN o.borrows})

PackFlat(o, f) ==
  LET cells == Cells(o)
  IN  [k \in DOMAIN f |-> IF \E c \in cells : c[1] = k
                            THEN (CHOOSE c \in cells : c[1] = k)[2] ELSE f[k]]

\* array_mut_ref panics when a position reaches behind the region.
FlatOverrun(o) ==
  Len(o.deposits) * OBLIGATION_COLLATERAL_LEN + Len(o.borrows) * OBLIGATION_LIQUIDITY_LEN
    > FlatLen

UnpackObligation(s, f) ==
  LET head == ReadFrom(ObligationSlots, s)
      behind == head.deposits_len * OBLIGATION_COLLATERAL_LEN
      D(k) == (k - 1) * OBLIGATION_COLLATERAL_LEN
      B(k) == behind + (k - 1) * OBLIGATION_LIQUIDITY_LEN
  IN  [head |-> head,
       deposits |-> [k \in 1 .. head.deposits_len |->
                       [reserve |-> f[D(k) + 1], amount |-> f[D(k) + 2], value |-> f[D(k) + 3]]],
       borrows |-> [k \in 1 .. head.borrows_len |->
                      [reserve |-> f[B(k) + 1], rate |-> f[B(k) + 2],
                       amount |-> f[B(k) + 3], value |-> f[B(k) + 4]]]]

----------------------------------------------------------------------------
(* The first load. *)

\* An account as a program whose layout had the first n slots wrote it.
Older(order, record, n) == [k \in DOMAIN order |-> IF k <= n THEN record[order[k]] ELSE 0]

\* Distinct values, so that no field can be taken for another.
Marked(order) == [f \in Range(order) |-> IF f = "version" THEN PROGRAM_VERSION
                                         ELSE 10 * Slot(order, f)]

\* The layouts of a reserve that had been deployed before: each of the fields
\* behind the take rate came with an upgrade.
OlderLengths == Slot(ReservePacked, "protocol_take_rate") .. Len(ReservePacked)

\* A reserve with the pairs c, each maximum c[5] above the value it bounds.
ReserveWith(c, fee) ==
  [Marked(ReservePacked) EXCEPT
     !.optimal_utilization_rate = c[1], !.max_utilization_rate = c[1] + c[5],
     !.liquidation_bonus = c[2], !.max_liquidation_bonus = c[2] + c[5],
     !.liquidation_threshold = c[3], !.max_liquidation_threshold = c[3] + c[5],
     !.max_borrow_rate = c[4], !.super_max_borrow_rate = c[4] + c[5],
     !.protocol_liquidation_fee = fee, !.stale = 1, !.asset_type = 0]

OlderReserves ==
  {Older(ReservePacked, ReserveWith(c, fee), n) :
      c \in Percents \X Percents \X Percents \X Percents \X {0, 1},
      fee \in {0, FeeCap, FeeCap + 1}, n \in OlderLengths}

InitReserve ==
  /\ kind = "reserve"
  /\ slots \in OlderReserves
  /\ flat = << >>
  /\ meant = UnpackReserve(slots)

InitMarket ==
  /\ kind = "market"
  /\ \E owner \in Keys, liquidator \in Keys \cup {0}, risk \in Keys,
        n \in Len(MarketPacked) - 2 .. Len(MarketPacked) :
       slots = Older(MarketPacked,
                     [Marked(MarketPacked) EXCEPT !.owner = owner, !.risk_authority = risk,
                                                  !.whitelisted_liquidator = liquidator], n)
  /\ flat = << >>
  /\ meant = UnpackMarket(slots)

\* process_init_obligation: no positions, over an account of zeroes.
InitObligation ==
  /\ kind = "obligation"
  /\ slots = Written(ObligationPacked,
                     [Marked(ObligationPacked) EXCEPT !.deposits_len = 0, !.borrows_len = 0,
                                                      !.stale = 1])
  /\ flat = [k \in 1 .. FlatLen |-> 0]
  /\ meant = UnpackObligation(slots, flat)

Init == failed = FALSE /\ (InitReserve \/ InitMarket \/ InitObligation)

----------------------------------------------------------------------------
(* Handlers: load, change, save. *)

SaveReserve(r) ==
  /\ meant' = r
  /\ slots' = PackReserve(r)
  /\ UNCHANGED <<kind, flat, failed>>

\* _refresh_reserve and the handlers that move liquidity.
RefreshReserve ==
  /\ kind = "reserve"
  /\ \E v \in {1, 2} :
       SaveReserve([UnpackReserve(slots) EXCEPT !.slot = v, !.stale = 0, !.market_price = v,
                      !.smoothed_market_price = v, !.cumulative_borrow_rate_wads = v])

MoveLiquidity ==
  /\ kind = "reserve"
  /\ \E v \in {1, 2} :
       SaveReserve([UnpackReserve(slots) EXCEPT !.stale = 1, !.available_amount = v,
                      !.mint_total_supply = v, !.cur_qty = v])

\* process_update_reserve_config, by the owner with a valid configuration.
UpdateReserveConfig ==
  /\ kind = "reserve"
  /\ \E a, b \in Percents, fee \in 0 .. FeeCap :
       LET r == [UnpackReserve(slots) EXCEPT
                   !.optimal_utilization_rate = a, !.max_utilization_rate = b,
                   !.liquidation_threshold = a, !.max_liquidation_threshold = b,
                   !.liquidation_bonus = a, !.max_liquidation_bonus = b,
                   !.max_borrow_rate = a, !.super_max_borrow_rate = b,
                   !.protocol_liquidation_fee = fee, !.stale = 1]
       IN  PairsInOrder(r) /\ SaveReserve(r)

\* process_set_lending_market_owner_and_config, and a save for the rate limiter.
SaveMarket(m) ==
  /\ meant' = m
  /\ slots' = PackMarket(m)
  /\ UNCHANGED <<kind, flat, failed>>

SetLendingMarketOwnerAndConfig ==
  /\ kind = "market"
  /\ \E owner, risk \in Keys, liquidator \in {<< >>} \cup {<<k>> : k \in Keys} :
       SaveMarket([UnpackMarket(slots) EXCEPT !.owner = owner, !.risk_authority = risk,
                                              !.whitelisted_liquidator = liquidator])

CountOutflow ==
  /\ kind = "market"
  /\ \E v \in {1, 2} : SaveMarket([UnpackMarket(slots) EXCEPT !.cur_qty = v])

SaveObligation(o) ==
  IF FlatOverrun(o)
    THEN failed' = TRUE /\ UNCHANGED <<kind, slots, flat, meant>>
    ELSE /\ slots' = PackObligation(o)
         /\ flat' = PackFlat(o, flat)
         /\ meant' = [o EXCEPT !.head.deposits_len = Len(o.deposits),
                               !.head.borrows_len = Len(o.borrows)]
         /\ UNCHANGED <<kind, failed>>

Position(list, r) == SelectInSeq(list, LAMBDA p : p.reserve = r)
HasRoom(o) == Len(o.deposits) + Len(o.borrows) < MAX_OBLIGATION_RESERVES

\* find_or_add_collateral_to_deposits and deposit.
DepositObligationCollateral ==
  /\ kind = "obligation" /\ ~failed
  /\ LET o == UnpackObligation(slots, flat)
     IN  \E r \in Reserves :
           IF Position(o.deposits, r) # 0
             THEN SaveObligation([o EXCEPT !.deposits[Position(o.deposits, r)].amount = 2])
             ELSE /\ HasRoom(o)
                  /\ SaveObligation([o EXCEPT !.deposits = Append(@, [reserve |-> r,
                                                             amount |-> 1, value |-> 0])])

\* The part of process_borrow_obligation_liquidity that decides on the lists:
\* a deposit to borrow against, and find_or_add_liquidity_to_borrows.
BorrowObligationLiquidity ==
  /\ kind = "obligation" /\ ~failed
  /\ LET o == UnpackObligation(slots, flat)
     IN  /\ o.deposits # << >>
         /\ \E r \in Reserves :
              IF Position(o.borrows, r) # 0
                THEN SaveObligation([o EXCEPT !.borrows[Position(o.borrows, r)].amount = 2])
                ELSE /\ HasRoom(o)
                     /\ SaveObligation([o EXCEPT !.borrows = Append(@, [reserve |-> r, rate |-> 3,
                                                                amount |-> 1, value |-> 0])])

\* process_refresh_obligation: the rate and the values of every position.
RefreshObligation ==
  /\ kind = "obligation" /\ ~failed
  /\ LET o == UnpackObligation(slots, flat)
     IN  SaveObligation([o EXCEPT
           !.head.stale = 0,
           !.deposits = [k \in DOMAIN @ |-> [@[k] EXCEPT !.value = 4]],
           !.borrows = [k \in DOMAIN @ |-> [@[k] EXCEPT !.value = 5, !.rate = 5]]])

\* Obligation::withdraw and repay of a whole position, and a liquidation, which
\* may do both: the entry is removed and those behind it move up.
CloseDeposit ==
  /\ kind = "obligation" /\ ~failed
  /\ LET o == UnpackObligation(slots, flat)
     IN  \E k \in DOMAIN o.deposits : SaveObligation([o EXCEPT !.deposits = RemoveAt(@, k)])

CloseBorrow ==
  /\ kind = "obligation" /\ ~failed
  /\ LET o == UnpackObligation(slots, flat)
     IN  \E k \in DOMAIN o.borrows : SaveObligation([o EXCEPT !.borrows = RemoveAt(@, k)])

Next ==
  \/ RefreshReserve \/ MoveLiquidity \/ UpdateReserveConfig
  \/ SetLendingMarketOwnerAndConfig \/ CountOutflow
  \/ DepositObligationCollateral \/ BorrowObligationLiquidity \/ RefreshObligation
  \/ CloseDeposit \/ CloseBorrow

Spec == Init /\ [][Next]_vars

----------------------------------------------------------------------------
(* Properties *)

Loaded ==
  CASE kind = "reserve" -> UnpackReserve(slots)
    [] kind = "market" -> UnpackMarket(slots)
    [] kind = "obligation" -> UnpackObligation(slots, flat)

TypeOK ==
  /\ kind \in {"reserve", "market", "obligation"}
  /\ \A k \in DOMAIN slots : slots[k] \in Nat
  /\ \A k \in DOMAIN flat : flat[k] \in Nat
  /\ Len(slots) = Len(CASE kind = "reserve" -> ReservePacked [] kind = "market" -> MarketPacked
                        [] kind = "obligation" -> ObligationPacked)
  /\ failed \in BOOLEAN

\* The next handler loads what the last one saved: every field is read from the
\* slot it was written to, a default that unpack fills in means the same once
\* it has been saved, and no position that was closed comes back out of the
\* bytes it left behind.
LoadsWhatWasSaved == Loaded = meant

\* However old the layout that wrote a reserve, the program works with a
\* configuration whose maxima are not below the values they bound and whose
\* liquidation fee is within its cap, before and after it is first saved.
UpgradedReserveInOrder == kind = "reserve" => PairsInOrder(UnpackReserve(slots))

\* A legal list of positions is never too long for the account: the region has
\* room for one deposit and the rest borrows, not for borrows alone, and no
\* sequence of deposits, borrows, withdrawals and repayments gets there.
PositionsAlwaysSave == ~failed

\* What a handler leaves in an account reaches the next one.
AccountsSurvive == PositionsAlwaysSave /\ LoadsWhatWasSaved
=============================================================================
