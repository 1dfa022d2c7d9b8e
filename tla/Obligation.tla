----------------------------- MODULE Obligation -----------------------------
(***************************************************************************)
(* The pure part of sdk/src/state/obligation.rs, and the valuation loop of *)
(* process_refresh_obligation, as operators on obligation records.  The    *)
(* position lists are sequences: their order matters to the code (a swap   *)
(* to the front, positional removal, liquidation of the first borrow).     *)
(*                                                                         *)
(* Reserves are natural numbers so that their keys are ordered.            *)
(***************************************************************************)
EXTENDS Reserve, SequencesExt

CONSTANTS
    Reserves,
    MAX_OBLIGATION_RESERVES,        \* deposits and borrows combined
    LIQUIDATION_CLOSE_FACTOR,       \* percent
    MAX_LIQUIDATABLE_VALUE_AT_ONCE, \* in quote currency
    GlobalAllowedBorrowValue,       \* caps of process_refresh_obligation
    GlobalUnhealthyBorrowValue

ASSUME ObligationAssumption ==
    /\ Reserves \subseteq Nat
    /\ MAX_OBLIGATION_RESERVES \in Nat \ {0}
    /\ LIQUIDATION_CLOSE_FACTOR \in Nat /\ MAX_LIQUIDATABLE_VALUE_AT_ONCE \in Nat
    /\ GlobalAllowedBorrowValue \in Nat /\ GlobalUnhealthyBorrowValue \in Nat

ObligationCollateral ==
    [deposit_reserve : Reserves, deposited_amount : U64, market_value : U128]

ObligationLiquidity ==
    [borrow_reserve : Reserves, cumulative_borrow_rate_wads : U128,
     borrowed_amount_wads : U128, market_value : U128]

ObligationRec ==
    [deposits : Seq(ObligationCollateral), borrows : Seq(ObligationLiquidity),
     deposited_value : U128, borrowed_value : U128, borrowed_value_upper_bound : U128,
     allowed_borrow_value : U128, unhealthy_borrow_value : U128,
     super_unhealthy_borrow_value : U128, borrowing_isolated_asset : BOOLEAN]

NewObligation ==
    [deposits |-> <<>>, borrows |-> <<>>, deposited_value |-> 0, borrowed_value |-> 0,
     borrowed_value_upper_bound |-> 0, allowed_borrow_value |-> 0,
     unhealthy_borrow_value |-> 0, super_unhealthy_borrow_value |-> 0,
     borrowing_isolated_asset |-> FALSE]

-----------------------------------------------------------------------------
(* Position lists.                                                         *)

\* index of the reserve's entry, 0 when there is none
DepositIndex(o, r) == SelectInSeq(o.deposits, LAMBDA d : d.deposit_reserve = r)

BorrowIndex(o, r) == SelectInSeq(o.borrows, LAMBDA b : b.borrow_reserve = r)

HasRoom(o) == Len(o.deposits) + Len(o.borrows) < MAX_OBLIGATION_RESERVES

\* find_or_add_collateral_to_deposits, then ObligationCollateral::deposit
CanDepositCollateral(o, r) == DepositIndex(o, r) # 0 \/ HasRoom(o)

\* mutant: a second deposit replaces the first
DepositReplaces(o, r, amount) ==
    [o EXCEPT !.deposits =
        Append(SelectSeq(@, LAMBDA d : d.deposit_reserve # r),
               [deposit_reserve |-> r, deposited_amount |-> amount, market_value |-> 0])]

ObligationDeposit(o, r, amount) ==
    LET i == DepositIndex(o, r)
    IN  IF i # 0 THEN [o EXCEPT !.deposits[i].deposited_amount = @ + amount]
        ELSE [o EXCEPT !.deposits =
                 Append(@, [deposit_reserve |-> r, deposited_amount |-> amount,
                            market_value |-> 0])]

\* find_or_add_liquidity_to_borrows, then ObligationLiquidity::borrow.  An
\* existing entry keeps the cumulative rate it was last accrued at.
CanAddBorrow(o, r) == BorrowIndex(o, r) # 0 \/ HasRoom(o)

\* mutant: a second borrow replaces the first
BorrowReplaces(o, r, cumulative_rate, amount) ==
    [o EXCEPT !.borrows =
        Append(SelectSeq(@, LAMBDA b : b.borrow_reserve # r),
               [borrow_reserve |-> r, cumulative_borrow_rate_wads |-> cumulative_rate,
                borrowed_amount_wads |-> amount, market_value |-> 0])]

ObligationBorrow(o, r, cumulative_rate, amount) ==
    LET i == BorrowIndex(o, r)
    IN  IF i # 0 THEN [o EXCEPT !.borrows[i].borrowed_amount_wads = @ + amount]
        ELSE [o EXCEPT !.borrows =
                 Append(@, [borrow_reserve |-> r, cumulative_borrow_rate_wads |-> cumulative_rate,
                            borrowed_amount_wads |-> amount, market_value |-> 0])]

\* mutant: any withdrawal closes the position
WithdrawCloses(o, i, amount) == [o EXCEPT !.deposits = RemoveAt(@, i)]

\* Obligation::withdraw and ::repay: a zeroed entry leaves the list
ObligationWithdraw(o, i, amount) ==
    IF amount = o.deposits[i].deposited_amount
    THEN [o EXCEPT !.deposits = RemoveAt(@, i)]
    ELSE [o EXCEPT !.deposits[i].deposited_amount = @ - amount]

ObligationRepay(o, i, settle_amount) ==
    IF settle_amount = o.borrows[i].borrowed_amount_wads
    THEN [o EXCEPT !.borrows = RemoveAt(@, i)]
    ELSE [o EXCEPT !.borrows[i].borrowed_amount_wads = @ - settle_amount]

\* ObligationLiquidity::accrue_interest; Err when the rate went down
CanAccrue(b, cumulative_rate) == cumulative_rate >= b.cumulative_borrow_rate_wads

AccrueBorrow(b, cumulative_rate) ==
    IF cumulative_rate = b.cumulative_borrow_rate_wads THEN b
    ELSE [b EXCEPT !.borrowed_amount_wads =
                       DecMul(@, DecDiv(cumulative_rate, b.cumulative_borrow_rate_wads)),
                   !.cumulative_borrow_rate_wads = cumulative_rate]

-----------------------------------------------------------------------------
(* Limits derived from the recorded values.                                *)

\* mutant: the debt counted at the market price instead of the upper bound
MaxWithdrawAtMarketPrice(o, i, cfg, res) ==
    LET deposited == o.deposits[i].deposited_amount
        free == DecDiv(o.allowed_borrow_value - o.borrowed_value,
                       FromPercent(cfg.loan_to_value_ratio))
    IN  IF o.borrows = <<>> \/ cfg.loan_to_value_ratio = 0 THEN {deposited}
        ELSE IF o.allowed_borrow_value <= o.borrowed_value THEN {0}
        ELSE {MinOf(TryFloor(LiquidityToCollateral(res, DecDiv(free, PriceLower(res)))), deposited)}

\* max_withdraw_amount, in collateral tokens; Err for a price of zero, or no u64
MaxWithdrawAmount(o, i, cfg, res) ==
    LET deposited == o.deposits[i].deposited_amount
        ltv       == FromPercent(cfg.loan_to_value_ratio)
        value     == DecDiv(o.allowed_borrow_value - o.borrowed_value_upper_bound, ltv)
        amount    == TryFloor(LiquidityToCollateral(res, DecDiv(value, PriceLower(res))))
    IN  IF o.borrows = <<>> THEN {deposited}
        ELSE IF o.allowed_borrow_value <= o.borrowed_value_upper_bound THEN {0}
        ELSE IF ltv = 0 THEN {deposited}
        ELSE Result(PriceLower(res) > 0 /\ amount <= U64_MAX, MinOf(amount, deposited))

\* remaining_borrow_value; the borrow handler reads Err as zero
RemainingBorrowValue(o) == MaxOf(o.allowed_borrow_value - o.borrowed_value_upper_bound, 0)

MaxLiquidationAmount(o, b) ==
    LET value == MinOf(MinOf(DecMul(o.borrowed_value, FromPercent(LIQUIDATION_CLOSE_FACTOR)),
                             b.market_value),
                       FromU64(MAX_LIQUIDATABLE_VALUE_AT_ONCE))
    IN  DecMul(b.borrowed_amount_wads, DecDiv(value, b.market_value))

-----------------------------------------------------------------------------
(* process_refresh_obligation.                                             *)

SumOver(seq, Value(_)) == SumFunction([i \in DOMAIN seq |-> Value(seq[i])])

\* liquidity a deposit stands for, in wads
DepositLiquidityAmount(d, res) == CollateralToLiquidity(res, FromU64(d.deposited_amount))

\* positions that are not empty
Funded(deposits) == {i \in DOMAIN deposits : deposits[i].deposited_amount > 0}

Owing(borrows) == {i \in DOMAIN borrows : borrows[i].borrowed_amount_wads > 0}

\* index of the non-empty borrow with the largest (added weight, key), 0 if none
MaxBorrowWeightIndex(borrows, config) ==
    LET owing == Owing(borrows)
        Weight(i) == config[borrows[i].borrow_reserve].added_borrow_weight_bps
        Before(i, j) == \/ Weight(i) < Weight(j)
                        \/ /\ Weight(i) = Weight(j)
                           /\ borrows[i].borrow_reserve <= borrows[j].borrow_reserve
    IN  IF owing = {} THEN 0
        ELSE CHOOSE j \in owing : \A i \in owing : Before(i, j)

\* mutant: the order is left as it is
NoSwap(seq, i) == seq

SwapToFront(seq, i) ==
    IF i = 0 THEN seq ELSE [seq EXCEPT ![1] = seq[i], ![i] = seq[1]]

\* Vec::retain: the entries at the positions in keep, in their order
Retain(seq, keep) ==
    LET kept[n \in 0..Len(seq)] ==
            IF n = 0 THEN <<>>
            ELSE IF n \in keep THEN Append(kept[n - 1], seq[n]) ELSE kept[n - 1]
    IN  kept[Len(seq)]

(***************************************************************************)
(* Both loops, the caps, the swap and the two retains.  reserve and config *)
(* map the reserves passed in to their records.                            *)
(***************************************************************************)
RefreshedObligation(o, reserve, config) ==
    LET Res(d)   == reserve[d.deposit_reserve]
        Cfg(d)   == config[d.deposit_reserve]
        Value(d) == MarketValue(Res(d), DepositLiquidityAmount(d, Res(d)))
        Allowed(d) ==
            DecMul(MarketValueLowerBound(Res(d), DepositLiquidityAmount(d, Res(d))),
                   FromPercent(Cfg(d).loan_to_value_ratio))
        Unhealthy(d) == DecMul(Value(d), FromPercent(Cfg(d).liquidation_threshold))
        SuperUnhealthy(d) == DecMul(Value(d), FromPercent(Cfg(d).max_liquidation_threshold))
        deposits == [i \in DOMAIN o.deposits |->
                        [o.deposits[i] EXCEPT !.market_value = Value(o.deposits[i])]]
        Accrued(b) == AccrueBorrow(b, reserve[b.borrow_reserve].cumulative_borrow_rate_wads)
        Debt(b)    == MarketValue(reserve[b.borrow_reserve], b.borrowed_amount_wads)
        borrows == [i \in DOMAIN o.borrows |->
                       [Accrued(o.borrows[i]) EXCEPT !.market_value = Debt(Accrued(o.borrows[i]))]]
        Weighted(b) == DecMul(b.market_value, BorrowWeight(config[b.borrow_reserve]))
        WeightedUpper(b) ==
            DecMul(MarketValueUpperBound(reserve[b.borrow_reserve], b.borrowed_amount_wads),
                   BorrowWeight(config[b.borrow_reserve]))
        swapped == SwapToFront(borrows, MaxBorrowWeightIndex(borrows, config))
        Capped(value, cap) == MinOf(value, FromU64(cap))
    IN  [deposits |-> Retain(deposits, Funded(deposits)),
         borrows  |-> Retain(swapped, Owing(swapped)),
         deposited_value |-> SumOver(o.deposits, Value),
         borrowed_value  |-> SumOver(borrows, Weighted),
         borrowed_value_upper_bound |-> SumOver(borrows, WeightedUpper),
         allowed_borrow_value |-> Capped(SumOver(o.deposits, Allowed), GlobalAllowedBorrowValue),
         unhealthy_borrow_value |->
             Capped(SumOver(o.deposits, Unhealthy), GlobalUnhealthyBorrowValue),
         super_unhealthy_borrow_value |->
             Capped(SumOver(o.deposits, SuperUnhealthy), GlobalUnhealthyBorrowValue),
         borrowing_isolated_asset |->
             \E i \in DOMAIN borrows : config[borrows[i].borrow_reserve].reserve_type = "Isolated"]

\* reserves an obligation refers to
DepositReserves(o) == {o.deposits[i].deposit_reserve : i \in DOMAIN o.deposits}

BorrowReserves(o) == {o.borrows[i].borrow_reserve : i \in DOMAIN o.borrows}
=============================================================================
