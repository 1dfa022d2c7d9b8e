------------------------------- MODULE Reserve -------------------------------
(***************************************************************************)
(* The pure part of sdk/src/state/reserve.rs: what a reserve computes and  *)
(* what each of its methods leaves behind, as operators on the liquidity   *)
(* and collateral fields (a ReserveRec) and on the configuration.          *)
(*                                                                         *)
(* A method that may fail returns the set of its Ok values: a singleton,   *)
(* or {} for Err.  Mint decimals are zero (10^decimals = 1); the decimals  *)
(* only rescale the price.                                                 *)
(***************************************************************************)
EXTENDS RateLimiter

CONSTANTS
    SLOTS_PER_YEAR,
    MAX_BONUS_PCT,   \* cap on the liquidation bonus, in percent
    MAX_PROTOCOL_LIQUIDATION_FEE_DECA_BPS

ASSUME ReserveAssumption ==
    /\ SLOTS_PER_YEAR \in Nat \ {0} /\ MAX_BONUS_PCT \in Nat
    /\ MAX_PROTOCOL_LIQUIDATION_FEE_DECA_BPS \in Nat

\* ReserveLiquidity and ReserveCollateral, with the widths Reserve::pack gives them
ReserveRec ==
    [available_amount : U64,
     borrowed_amount_wads : U128,
     cumulative_borrow_rate_wads : U128,
     accumulated_protocol_fees_wads : U128,
     market_price : U128,
     smoothed_market_price : U128,
     mint_total_supply : U64]

ReserveConfig ==
    [optimal_utilization_rate : Nat, max_utilization_rate : Nat,
     loan_to_value_ratio : Nat, liquidation_threshold : Nat, max_liquidation_threshold : Nat,
     liquidation_bonus : Nat, max_liquidation_bonus : Nat,
     min_borrow_rate : Nat, optimal_borrow_rate : Nat, max_borrow_rate : Nat,
     super_max_borrow_rate : Nat,
     borrow_fee_wad : U64, flash_loan_fee_wad : U64, host_fee_percentage : Nat,
     deposit_limit : U64, borrow_limit : U64,
     protocol_liquidation_fee : Nat, protocol_take_rate : Nat,
     added_borrow_weight_bps : Nat, reserve_type : {"Regular", "Isolated"}]

\* Result<T>: the Ok value when every check passed, nothing otherwise
Result(ok, value) == IF ok THEN {value} ELSE {}

FromDecaBps(d) == FromBps(d * 10)

-----------------------------------------------------------------------------
(* Valuation.                                                              *)

BorrowWeight(cfg) == WAD + FromBps(cfg.added_borrow_weight_bps)

PriceUpper(res) == MaxOf(res.market_price, res.smoothed_market_price)

PriceLower(res) == MinOf(res.market_price, res.smoothed_market_price)

MarketValue(res, amount) == DecMul(res.market_price, amount)

MarketValueUpperBound(res, amount) == DecMul(PriceUpper(res), amount)

MarketValueLowerBound(res, amount) == DecMul(PriceLower(res), amount)

\* Err for a price of zero, which some oracles may report
UsdToLiquidityLowerBound(res, quote) ==
    Result(PriceUpper(res) > 0, DecDiv(quote, PriceUpper(res)))

-----------------------------------------------------------------------------
(* Supply and exchange rate.                                               *)

\* total_supply; try_sub fails when this is negative
TotalSupply(res) ==
    FromU64(res.available_amount) + res.borrowed_amount_wads
        - res.accumulated_protocol_fees_wads

ExchangeRate(res) ==
    IF res.mint_total_supply = 0 \/ TotalSupply(res) = 0 THEN WAD
    ELSE DecDiv(FromU64(res.mint_total_supply), TotalSupply(res))

\* collateral_exchange_rate returns Ok, and a rate that can be divided by
HasExchangeRate(res) ==
    TotalSupply(res) >= 0 /\ ExchangeRate(res) \in 1..U128_MAX

CollateralToLiquidity(res, amount) == DecDiv(amount, ExchangeRate(res))

LiquidityToCollateral(res, amount) == DecMul(amount, ExchangeRate(res))

\* mutant: the collateral minted for a deposit rounded up
CollateralRoundedUp(res, liquidity) == TryCeil(LiquidityToCollateral(res, FromU64(liquidity)))

\* collateral minted for / liquidity paid for a whole number of tokens
CollateralFor(res, liquidity) == TryFloor(LiquidityToCollateral(res, FromU64(liquidity)))

LiquidityFor(res, collateral) == TryFloor(CollateralToLiquidity(res, FromU64(collateral)))

DepositLiquidity(res, amount) ==
    [res EXCEPT !.available_amount = @ + amount,
                !.mint_total_supply = @ + CollateralFor(res, amount)]

\* burn needs the collateral to exist, withdraw the liquidity to be there
CanRedeem(res, collateral) ==
    /\ HasExchangeRate(res)
    /\ collateral <= res.mint_total_supply
    /\ LiquidityFor(res, collateral) <= res.available_amount

RedeemCollateral(res, collateral) ==
    [res EXCEPT !.available_amount = @ - LiquidityFor(res, collateral),
                !.mint_total_supply = @ - collateral]

-----------------------------------------------------------------------------
(* ReserveLiquidity: borrow, repay, forgive, fees.                         *)

LiquidityBorrow(res, borrow_decimal) ==
    [res EXCEPT !.available_amount = @ - TryFloor(borrow_decimal),
                !.borrowed_amount_wads = @ + borrow_decimal]

\* mutant: the exact debt settled, not the tokens paid, becomes available
RepaySettledOnly(res, repay_amount, settle_amount) ==
    [res EXCEPT !.available_amount = @ + TryFloor(settle_amount),
                !.borrowed_amount_wads = @ - MinOf(settle_amount, @)]

LiquidityRepay(res, repay_amount, settle_amount) ==
    [res EXCEPT !.available_amount = @ + repay_amount,
                !.borrowed_amount_wads = @ - MinOf(settle_amount, @)]

LiquidityForgiveDebt(res, amount) ==
    [res EXCEPT !.borrowed_amount_wads = @ - amount]

CalculateRedeemFees(res) ==
    MinOf(res.available_amount, TryFloor(res.accumulated_protocol_fees_wads))

\* mutants: paid out fees stay on the books; the tokens stay on the books
FeesKeptOnBooks(res, amount) == [res EXCEPT !.available_amount = @ - amount]

TokensKeptOnBooks(res, amount) ==
    [res EXCEPT !.accumulated_protocol_fees_wads = @ - FromU64(amount)]

LiquidityRedeemFees(res, amount) ==
    [res EXCEPT !.available_amount = @ - amount,
                !.accumulated_protocol_fees_wads = @ - FromU64(amount)]

-----------------------------------------------------------------------------
(* Interest.                                                               *)

UtilizationRate(res) ==
    IF TotalSupply(res) = 0 \/ res.borrowed_amount_wads = 0 THEN 0
    ELSE DecDiv(res.borrowed_amount_wads,
                res.borrowed_amount_wads + FromU64(res.available_amount))

\* the three-segment curve: min..optimal, optimal..max, max..super_max
CurrentBorrowRate(cfg, res) ==
    LET u       == UtilizationRate(res)
        optimal == FromPercent(cfg.optimal_utilization_rate)
        max     == FromPercent(cfg.max_utilization_rate)
        Between(lo, hi, weight) ==
            DecMul(weight, FromPercent(hi) - FromPercent(lo)) + FromPercent(lo)
    IN  IF u <= optimal
        THEN IF optimal = 0 THEN FromPercent(cfg.min_borrow_rate)
             ELSE Between(cfg.min_borrow_rate, cfg.optimal_borrow_rate, DecDiv(u, optimal))
        ELSE IF u <= max
        THEN Between(cfg.optimal_borrow_rate, cfg.max_borrow_rate,
                     DecDiv(u - optimal, max - optimal))
        ELSE Between(cfg.max_borrow_rate, cfg.super_max_borrow_rate,
                     DecDiv(u - max, FromPercent(PercentsPerOne - cfg.max_utilization_rate)))

\* mutant: the cumulative rate replaced by the rate of the last period
CompoundForgetsPast(cfg, res, slots_elapsed) ==
    LET rate == TryPow(WAD + (CurrentBorrowRate(cfg, res) \div SLOTS_PER_YEAR), slots_elapsed)
        debt == DecMul(res.borrowed_amount_wads, rate)
    IN  [res EXCEPT !.cumulative_borrow_rate_wads = rate, !.borrowed_amount_wads = debt]

CompoundInterest(cfg, res, slots_elapsed) ==
    LET rate == TryPow(WAD + (CurrentBorrowRate(cfg, res) \div SLOTS_PER_YEAR), slots_elapsed)
        net_new_debt == DecMul(res.borrowed_amount_wads, rate) - res.borrowed_amount_wads
    IN  [res EXCEPT
            !.cumulative_borrow_rate_wads = DecMul(@, rate),
            !.accumulated_protocol_fees_wads =
                @ + DecMul(net_new_debt, FromPercent(cfg.protocol_take_rate)),
            !.borrowed_amount_wads = @ + net_new_debt]

\* accrue_interest; utilization_rate fails when total_supply does
AccrueInterest(cfg, res, slots_elapsed) ==
    IF slots_elapsed = 0 THEN {res}
    ELSE Result(TotalSupply(res) >= 0, CompoundInterest(cfg, res, slots_elapsed))

-----------------------------------------------------------------------------
(* Fees.                                                                   *)

\* ReserveFees::calculate_fees: <<fee, host_fee>>, fee including host_fee
CalculateFees(cfg, amount, fee_wad, inclusive) ==
    IF fee_wad = 0 \/ amount = 0 THEN {<<0, 0>>}
    ELSE LET host    == FromPercent(cfg.host_fee_percentage)
             rate    == IF inclusive THEN DecDiv(fee_wad, fee_wad + WAD) ELSE fee_wad
             minimum == IF host > 0 THEN 2 ELSE 1
             fee     == MaxOf(DecMul(amount, rate), FromU64(minimum))
         IN  Result(fee < amount,
                    <<TryRound(fee),
                      IF host > 0 THEN MaxOf(TryRound(DecMul(fee, host)), 1) ELSE 0>>)

\* calculate_borrow for u64::MAX: as much as value, capacity and liquidity allow
MaxBorrow(cfg, res, max_borrow_value, remaining_reserve_borrow) ==
    LET Most(tokens) == MinOf(MinOf(DecDiv(tokens, BorrowWeight(cfg)), remaining_reserve_borrow),
                              FromU64(res.available_amount))
        Terms(amount) ==
            UNION {Result(TryFloor(amount) >= f[1],
                          [borrow_amount |-> amount, receive_amount |-> TryFloor(amount) - f[1],
                           borrow_fee |-> f[1], host_fee |-> f[2]])
                   : f \in CalculateFees(cfg, amount, cfg.borrow_fee_wad, TRUE)}
    IN  UNION {Terms(Most(tokens)) : tokens \in UsdToLiquidityLowerBound(res, max_borrow_value)}

\* calculate_borrow for an exact amount: the fee comes on top
ExactBorrow(cfg, res, receive_amount, max_borrow_value) ==
    UNION {LET amount == FromU64(receive_amount + f[1])
           IN  Result(DecMul(MarketValueUpperBound(res, amount), BorrowWeight(cfg))
                         <= max_borrow_value,
                      [borrow_amount |-> amount, receive_amount |-> receive_amount,
                       borrow_fee |-> f[1], host_fee |-> f[2]])
           : f \in CalculateFees(cfg, FromU64(receive_amount), cfg.borrow_fee_wad, FALSE)}

CalculateBorrow(cfg, res, amount_to_borrow, max_borrow_value, remaining_reserve_borrow) ==
    IF amount_to_borrow = U64_MAX
    THEN MaxBorrow(cfg, res, max_borrow_value, remaining_reserve_borrow)
    ELSE ExactBorrow(cfg, res, amount_to_borrow, max_borrow_value)

\* calculate_repay: settled exactly, paid rounded up
CalculateRepay(amount_to_repay, borrowed_amount) ==
    LET settle == IF amount_to_repay = U64_MAX THEN borrowed_amount
                  ELSE MinOf(FromU64(amount_to_repay), borrowed_amount)
    IN  [settle_amount |-> settle, repay_amount |-> TryCeil(settle)]

CalculateProtocolLiquidationFee(cfg, amount_liquidated, bonus_rate) ==
    MaxOf(TryCeil(DecMul(DecDiv(FromU64(amount_liquidated), bonus_rate),
                         FromDecaBps(cfg.protocol_liquidation_fee))), 1)

-----------------------------------------------------------------------------
(* Configuration.                                                          *)

ValidateReserveConfig(cfg) ==
    /\ cfg.optimal_utilization_rate <= cfg.max_utilization_rate
    /\ cfg.max_utilization_rate <= PercentsPerOne
    /\ cfg.loan_to_value_ratio < PercentsPerOne
    /\ cfg.liquidation_bonus <= cfg.max_liquidation_bonus
    /\ cfg.max_liquidation_bonus <= PercentsPerOne
    /\ cfg.loan_to_value_ratio <= cfg.liquidation_threshold
    /\ cfg.liquidation_threshold <= cfg.max_liquidation_threshold
    /\ cfg.max_liquidation_threshold <= PercentsPerOne
    /\ cfg.min_borrow_rate <= cfg.optimal_borrow_rate
    /\ cfg.optimal_borrow_rate <= cfg.max_borrow_rate
    /\ cfg.max_borrow_rate <= cfg.super_max_borrow_rate
    /\ cfg.borrow_fee_wad < WAD
    /\ cfg.host_fee_percentage <= PercentsPerOne
    /\ cfg.protocol_liquidation_fee <= MAX_PROTOCOL_LIQUIDATION_FEE_DECA_BPS
    /\ FromPercent(cfg.max_liquidation_bonus) + FromDecaBps(cfg.protocol_liquidation_fee)
          <= FromPercent(MAX_BONUS_PCT)
    /\ cfg.protocol_take_rate <= PercentsPerOne
    /\ cfg.reserve_type = "Isolated" =>
          cfg.loan_to_value_ratio = 0 /\ cfg.liquidation_threshold = 0
=============================================================================
