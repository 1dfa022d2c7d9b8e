---------------------------- MODULE Liquidation ----------------------------
(***************************************************************************)
(* The liquidation arithmetic of reserve.rs: the bonus a liquidator earns  *)
(* and how much debt is settled for how much collateral.  cfg is the       *)
(* configuration of the reserve the collateral is withdrawn from.          *)
(***************************************************************************)
EXTENDS Obligation

\* mutant: the weight between the two bonuses not limited to one
BonusUnclamped(cfg, o) ==
    LET bonus == FromPercent(cfg.liquidation_bonus)
        span  == o.super_unhealthy_borrow_value - o.unhealthy_borrow_value
        weight == DecDiv(o.borrowed_value - o.unhealthy_borrow_value, span)
    IN  IF span = 0 THEN bonus
        ELSE MinOf(bonus + DecMul(weight, FromPercent(cfg.max_liquidation_bonus) - bonus),
                   FromPercent(MAX_BONUS_PCT))

CalculateBonus(cfg, o) ==
    LET bonus == FromPercent(cfg.liquidation_bonus)
        fee   == FromDecaBps(cfg.protocol_liquidation_fee)
        cap   == FromPercent(MAX_BONUS_PCT)
        span  == o.super_unhealthy_borrow_value - o.unhealthy_borrow_value
        weight == MinOf(DecDiv(o.borrowed_value - o.unhealthy_borrow_value, span), WAD)
    IN  IF span = 0 THEN MinOf(bonus + fee, cap)
        ELSE MinOf(bonus + DecMul(weight, FromPercent(cfg.max_liquidation_bonus) - bonus) + fee,
                   cap)

\* the three-way comparison of liquidation_value with the collateral's value;
\* least is the smallest collateral amount taken when some is left over
SettleAgainst(c, amount, liquidation_value, least) ==
    IF liquidation_value > c.market_value
    THEN [settle_amount |-> DecMul(amount, DecDiv(c.market_value, liquidation_value)),
          withdraw_amount |-> c.deposited_amount]
    ELSE IF liquidation_value = c.market_value
    THEN [settle_amount |-> amount, withdraw_amount |-> c.deposited_amount]
    ELSE [settle_amount |-> amount,
          withdraw_amount |->
              MaxOf(TryFloor(DecMul(FromU64(c.deposited_amount),
                                    DecDiv(liquidation_value, c.market_value))), least)]

\* neither calculate_bonus nor calculate_liquidation errs: no difference below
\* zero, no division by zero
CanCalculateLiquidation(cfg, o, b) ==
    /\ o.unhealthy_borrow_value <= o.super_unhealthy_borrow_value
    /\ \/ o.unhealthy_borrow_value = o.super_unhealthy_borrow_value
       \/ cfg.liquidation_bonus <= cfg.max_liquidation_bonus
    /\ b.market_value > WAD => b.borrowed_amount_wads # 0

(***************************************************************************)
(* calculate_liquidation.  A borrow worth at most one unit of the quote    *)
(* currency is closed in full, whatever amount was asked for.              *)
(***************************************************************************)
CalculateLiquidation(cfg, o, b, c, amount_to_liquidate) ==
    LET bonus_rate == CalculateBonus(cfg, o) + WAD
        max_amount == IF amount_to_liquidate = U64_MAX THEN b.borrowed_amount_wads
                      ELSE MinOf(FromU64(amount_to_liquidate), b.borrowed_amount_wads)
        partial == MinOf(MaxLiquidationAmount(o, b), max_amount)
        outcome ==
            IF b.market_value <= WAD
            THEN SettleAgainst(c, b.borrowed_amount_wads, DecMul(b.market_value, bonus_rate), 1)
            ELSE SettleAgainst(c, partial,
                     DecMul(DecMul(b.market_value, DecDiv(partial, b.borrowed_amount_wads)),
                            bonus_rate), 0)
    IN  [settle_amount |-> outcome.settle_amount,
         repay_amount |-> TryCeil(outcome.settle_amount),
         withdraw_amount |-> outcome.withdraw_amount,
         bonus_rate |-> bonus_rate]
=============================================================================
