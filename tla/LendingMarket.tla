--------------------------- MODULE LendingMarket ---------------------------
(***************************************************************************)
(* One lending market of program/src/processor.rs: its reserves, its       *)
(* obligations, the SPL token accounts the program moves tokens between,   *)
(* and one action per instruction.                                         *)
(*                                                                         *)
(* An action is the whole handler of an instruction that succeeds; one     *)
(* that fails is rolled back by the runtime and changes nothing, so its    *)
(* error returns are the guards.  Account ownership, key and signer checks *)
(* that only tie accounts together hold by the indexing of the variables;  *)
(* the checks that distinguish signers are kept (market.owner and so on).  *)
(*                                                                         *)
(* price_slot is a history variable: the slot in which the reserve's       *)
(* market_price was last read from an oracle.                              *)
(***************************************************************************)
EXTENDS Liquidation

CONSTANTS
    Obligations,
    Keys,            \* signers: market owners, risk authorities, liquidators
    SolendOwner,     \* solend_market_owner::id(), "5ph"
    NoKey,           \* Option<Pubkey>::None
    NoFlash,         \* no flash loan under way in the current transaction
    MaxSlot,         \* bound on the clock
    RoundingSlack,   \* wads that truncation may move between two parties in one step
    MarketLimiter,   \* limiter configuration the market starts with
    WalletSupply,    \* liquidity tokens of each mint held outside the market at first
    \* inputs of the instructions; the first three are functions of the reserve
    InitConfigs, PythPrices, SwitchboardPrices, InitAmounts, OracleSetups,
    DepositAmounts, RedeemAmounts, CollateralAmounts, WithdrawAmounts,
    BorrowAmounts, RepayAmounts, LiquidateAmounts, ForgiveAmounts, FlashAmounts,
    ConfigUpdates, LimiterUpdates, MarketLimiterUpdates

ASSUME MarketAssumption ==
    /\ IsFiniteSet(Obligations)
    /\ SolendOwner \in Keys /\ NoKey \notin Keys
    /\ NoFlash \notin [reserve : Reserves, amount : U64]
    /\ MaxSlot \in Nat \ {0} /\ WalletSupply \in U64 /\ RoundingSlack \in Nat
    /\ {MarketLimiter} \cup LimiterUpdates \cup MarketLimiterUpdates \subseteq RateLimiterConfig
    /\ InitConfigs \in [Reserves -> SUBSET ReserveConfig]
    /\ ConfigUpdates \subseteq ReserveConfig
    /\ OracleSetups \subseteq [pyth : BOOLEAN, switchboard : BOOLEAN]
    /\ UNION {InitAmounts, DepositAmounts, RedeemAmounts, CollateralAmounts, WithdrawAmounts,
              BorrowAmounts, RepayAmounts, LiquidateAmounts, ForgiveAmounts, FlashAmounts}
          \subseteq U64

VARIABLES
    slot,              \* clock sysvar
    market,            \* LendingMarket account
    live,              \* initialised reserves
    config,            \* ReserveConfig per reserve
    oracles,           \* which oracle keys of a reserve are non-null
    reserve,           \* ReserveRec per reserve
    reserve_update,    \* Reserve.last_update
    reserve_limiter,   \* Reserve.rate_limiter
    price_slot,        \* history: slot of the last oracle read
    open,              \* initialised obligations
    obligation,        \* ObligationRec per obligation
    obligation_update, \* Obligation.last_update
    token,             \* SPL token balances per reserve
    flash              \* outstanding flash loan of the current transaction

clockVars      == <<slot, flash>>
configVars     == <<live, config, oracles>>
reserveVars    == <<reserve, reserve_update, reserve_limiter, price_slot>>
obligationVars == <<open, obligation, obligation_update>>
vars == <<slot, market, live, config, oracles, reserve, reserve_update, reserve_limiter,
          price_slot, open, obligation, obligation_update, token, flash>>

-----------------------------------------------------------------------------
(* The market account and LastUpdate.                                      *)

MarketRec == [owner : Keys, risk_authority : Keys,
              whitelisted_liquidator : Keys \cup {NoKey}, rate_limiter : RateLimiterRec]

LastUpdate == [slot : 0..MaxSlot, stale : BOOLEAN]

LastUpdateNew == [slot |-> slot, stale |-> TRUE]

\* update_slot, and update_slot followed by mark_stale
Fresh == [slot |-> slot, stale |-> FALSE]

\* mutant: the mark_stale forgotten
FreshUnmarked == [slot |-> slot, stale |-> FALSE]

FreshThenStale == [slot |-> slot, stale |-> TRUE]

IsStale(u) == u.stale \/ slot - u.slot >= 1

MarkStale(f, x) == [f EXCEPT ![x] = [slot |-> f[x].slot, stale |-> TRUE]]

-----------------------------------------------------------------------------
(* SPL token accounts of one reserve: the liquidity supply and fee receiver *)
(* accounts, everybody else's liquidity, the collateral mint, the           *)
(* collateral supply account and everybody else's collateral tokens.        *)

TokenRec == [supply : U64, fee_receiver : U64, wallet : U64,
             ctoken_mint : U64, ctoken_supply : U64, ctoken_wallet : U64]

\* spl_token_transfer of amount from field a to field b; fails when a is short
CanTransfer(t, a, amount) == t[a] >= amount

Transfer(t, a, b, amount) == [t EXCEPT ![a] = @ - amount, ![b] = @ + amount]

MintTo(t, amount) == [t EXCEPT !.ctoken_mint = @ + amount, !.ctoken_wallet = @ + amount]

Burn(t, amount) == [t EXCEPT !.ctoken_mint = @ - amount, !.ctoken_wallet = @ - amount]

-----------------------------------------------------------------------------
(* Packing: an account is written back when every field fits its width.    *)

PackReserve(r, res) ==
    /\ res \in ReserveRec
    /\ reserve' = [reserve EXCEPT ![r] = res]

PackObligation(o, ob) ==
    /\ ob \in ObligationRec
    /\ obligation' = [obligation EXCEPT ![o] = ob]

SetToken(r, t) ==
    /\ t \in TokenRec
    /\ token' = [token EXCEPT ![r] = t]

-----------------------------------------------------------------------------
(* A market just made by process_init_lending_market, its limiter already  *)
(* set by its owner if MarketLimiter is not the default; nothing else.     *)

NoReserve ==
    [available_amount |-> 0, borrowed_amount_wads |-> 0, cumulative_borrow_rate_wads |-> 0,
     accumulated_protocol_fees_wads |-> 0, market_price |-> 0, smoothed_market_price |-> 0,
     mint_total_supply |-> 0]

NoConfig ==
    [optimal_utilization_rate |-> 0, max_utilization_rate |-> 0,
     loan_to_value_ratio |-> 0, liquidation_threshold |-> 0, max_liquidation_threshold |-> 0,
     liquidation_bonus |-> 0, max_liquidation_bonus |-> 0,
     min_borrow_rate |-> 0, optimal_borrow_rate |-> 0, max_borrow_rate |-> 0,
     super_max_borrow_rate |-> 0, borrow_fee_wad |-> 0, flash_loan_fee_wad |-> 0,
     host_fee_percentage |-> 0, deposit_limit |-> 0, borrow_limit |-> 0,
     protocol_liquidation_fee |-> 0, protocol_take_rate |-> 0,
     added_borrow_weight_bps |-> 0, reserve_type |-> "Regular"]

\* RateLimiterConfig::default, and the default of a market
DefaultMarketLimiter == [window_duration |-> 1, max_outflow |-> U64_MAX]

DisabledLimiter == [window_duration |-> 0, max_outflow |-> 0]

Init ==
    /\ slot = 1
    /\ \E owner \in Keys :
          market = [owner |-> owner, risk_authority |-> owner, whitelisted_liquidator |-> NoKey,
                    rate_limiter |-> RateLimiterNew(MarketLimiter, 1)]
    /\ live = {} /\ open = {}
    /\ config = [r \in Reserves |-> NoConfig]
    /\ oracles = [r \in Reserves |-> [pyth |-> FALSE, switchboard |-> FALSE]]
    /\ reserve = [r \in Reserves |-> NoReserve]
    /\ reserve_update = [r \in Reserves |-> [slot |-> 0, stale |-> FALSE]]
    /\ reserve_limiter = [r \in Reserves |-> RateLimiterNew(DisabledLimiter, 0)]
    /\ price_slot = [r \in Reserves |-> 0]
    /\ obligation = [o \in Obligations |-> NewObligation]
    /\ obligation_update = [o \in Obligations |-> [slot |-> 0, stale |-> FALSE]]
    /\ token = [r \in Reserves |->
                   [supply |-> 0, fee_receiver |-> 0, wallet |-> WalletSupply,
                    ctoken_mint |-> 0, ctoken_supply |-> 0, ctoken_wallet |-> 0]]
    /\ flash = NoFlash

\* The clock moves on between transactions.
Tick ==
    /\ slot < MaxSlot /\ flash = NoFlash
    /\ slot' = slot + 1
    /\ UNCHANGED <<market, configVars, reserveVars, obligationVars, token, flash>>

-----------------------------------------------------------------------------
(* Reserves.                                                               *)

(***************************************************************************)
(* get_price: a Pyth price with its moving average, or, when Pyth gives    *)
(* none, a Switchboard price without one.  Which oracle answers is up to   *)
(* the environment.                                                        *)
(***************************************************************************)
GetPrice(r, setup) ==
    (IF setup.pyth
     THEN {[market_price |-> p[1], smoothed |-> {p[2]}] : p \in PythPrices[r]} ELSE {})
    \cup
    (IF setup.switchboard
     THEN {[market_price |-> p, smoothed |-> {}] : p \in SwitchboardPrices[r]} ELSE {})

\* process_init_reserve, by the market owner
InitReserve(r, amount, cfg, setup, reading) ==
    /\ r \notin live /\ amount > 0
    /\ ValidateReserveConfig(cfg)
    /\ setup.pyth \/ setup.switchboard
    /\ CanTransfer(token[r], "wallet", amount)
    /\ live' = live \cup {r}
    /\ config' = [config EXCEPT ![r] = cfg]
    /\ oracles' = [oracles EXCEPT ![r] = setup]
    /\ LET fresh == [NoReserve EXCEPT
                        !.cumulative_borrow_rate_wads = WAD,
                        !.market_price = reading.market_price,
                        !.smoothed_market_price =
                            CHOOSE p \in reading.smoothed \cup {reading.market_price} :
                                reading.smoothed # {} => p \in reading.smoothed]
       IN  /\ PackReserve(r, DepositLiquidity(fresh, amount))
           /\ SetToken(r, MintTo(Transfer(token[r], "wallet", "supply", amount),
                                 CollateralFor(fresh, amount)))
    /\ reserve_update' = [reserve_update EXCEPT ![r] = LastUpdateNew]
    /\ reserve_limiter' = [reserve_limiter EXCEPT ![r] = RateLimiterNew(DisabledLimiter, slot)]
    /\ price_slot' = [price_slot EXCEPT ![r] = slot]
    /\ UNCHANGED <<clockVars, market, obligationVars>>

(***************************************************************************)
(* _refresh_reserve_interest: the reserve as packed with interest accrued. *)
(* It does not look at the price; last_update becomes Fresh all the same.  *)
(***************************************************************************)
WithInterest(r) == AccrueInterest(config[r], reserve[r], slot - reserve_update[r].slot)

\* process_refresh_reserve.  Without a Pyth oracle the smoothed price is the
\* market price; when Pyth merely failed, the old smoothed price stays.
RefreshReserve(r, reading) ==
    /\ r \in live
    /\ \E res \in WithInterest(r) :
          PackReserve(r, [res EXCEPT
              !.market_price = reading.market_price,
              !.smoothed_market_price =
                  IF ~oracles[r].pyth THEN reading.market_price
                  ELSE IF reading.smoothed # {} THEN CHOOSE p \in reading.smoothed : TRUE
                  ELSE @])
    /\ reserve_update' = [reserve_update EXCEPT ![r] = Fresh]
    /\ price_slot' = [price_slot EXCEPT ![r] = slot]
    /\ UNCHANGED <<clockVars, market, configVars, reserve_limiter, obligationVars, token>>

\* _deposit_reserve_liquidity on a reserve whose interest is up to date
CanDeposit(r, res, amount) ==
    /\ HasExchangeRate(res)
    /\ TryFloor(FromU64(amount) + TotalSupply(res)) <= config[r].deposit_limit
    /\ CanTransfer(token[r], "wallet", amount)

Deposited(t, res, amount) ==
    MintTo(Transfer(t, "wallet", "supply", amount), CollateralFor(res, amount))

DepositReserveLiquidity(r, amount) ==
    /\ r \in live /\ amount > 0
    /\ \E res \in WithInterest(r) :
          /\ CanDeposit(r, res, amount)
          /\ PackReserve(r, DepositLiquidity(res, amount))
          /\ SetToken(r, Deposited(token[r], res, amount))
    /\ reserve_update' = [reserve_update EXCEPT ![r] = FreshThenStale]
    /\ UNCHANGED <<clockVars, market, configVars, reserve_limiter, price_slot, obligationVars>>

(***************************************************************************)
(* _redeem_reserve_collateral with check_rate_limits: the market limiter   *)
(* counts dollars at the upper price, the reserve's counts tokens.         *)
(***************************************************************************)
RateLimited(r, res, collateral) ==
    LET tokens == FromU64(LiquidityFor(res, collateral))
        value  == MarketValueUpperBound(res, tokens)
    IN  /\ RateLimiterAllows(market.rate_limiter, slot, value)
        /\ RateLimiterAllows(reserve_limiter[r], slot, tokens)
        /\ market' = [market EXCEPT !.rate_limiter = RateLimiterUpdate(@, slot, value)]
        /\ reserve_limiter' =
              [reserve_limiter EXCEPT ![r] = RateLimiterUpdate(@, slot, tokens)]

Redeemed(t, res, collateral) ==
    Transfer(Burn(t, collateral), "supply", "wallet", LiquidityFor(res, collateral))

RedeemReserveCollateral(r, collateral) ==
    /\ r \in live /\ collateral > 0
    /\ ~IsStale(reserve_update[r])
    /\ CanRedeem(reserve[r], collateral)
    /\ CanTransfer(token[r], "ctoken_wallet", collateral)
    /\ RateLimited(r, reserve[r], collateral)
    /\ PackReserve(r, RedeemCollateral(reserve[r], collateral))
    /\ SetToken(r, Redeemed(token[r], reserve[r], collateral))
    /\ reserve_update' = MarkStale(reserve_update, r)
    /\ UNCHANGED <<clockVars, configVars, price_slot, obligationVars>>

\* process_redeem_fees
RedeemFees(r) ==
    LET amount == CalculateRedeemFees(reserve[r])
    IN  /\ r \in live
        /\ ~IsStale(reserve_update[r])
        /\ amount > 0
        /\ PackReserve(r, LiquidityRedeemFees(reserve[r], amount))
        /\ SetToken(r, Transfer(token[r], "supply", "fee_receiver", amount))
        /\ reserve_update' = MarkStale(reserve_update, r)
        /\ UNCHANGED <<clockVars, market, configVars, reserve_limiter, price_slot,
                       obligationVars>>

-----------------------------------------------------------------------------
(* Obligations.                                                            *)

InitObligation(o) ==
    /\ o \notin open
    /\ open' = open \cup {o}
    /\ obligation' = [obligation EXCEPT ![o] = NewObligation]
    /\ obligation_update' = [obligation_update EXCEPT ![o] = LastUpdateNew]
    /\ UNCHANGED <<clockVars, market, configVars, reserveVars, token>>

\* mutant: stale reserves accepted
CanValueStale(ob) ==
    \A r \in DepositReserves(ob) : HasExchangeRate(reserve[r])

\* process_refresh_obligation: every reserve it refers to must be fresh
CanValue(ob) ==
    /\ \A r \in DepositReserves(ob) : ~IsStale(reserve_update[r]) /\ HasExchangeRate(reserve[r])
    /\ \A r \in BorrowReserves(ob) : ~IsStale(reserve_update[r])
    /\ \A i \in DOMAIN ob.borrows :
          CanAccrue(ob.borrows[i],
                    reserve[ob.borrows[i].borrow_reserve].cumulative_borrow_rate_wads)

RefreshObligation(o) ==
    /\ o \in open
    /\ CanValue(obligation[o])
    /\ PackObligation(o, RefreshedObligation(obligation[o], reserve, config))
    /\ obligation_update' = [obligation_update EXCEPT ![o] = Fresh]
    /\ UNCHANGED <<clockVars, market, configVars, reserveVars, open, token>>

\* process_deposit_obligation_collateral
DepositObligationCollateral(o, r, amount) ==
    /\ o \in open /\ r \in live /\ amount > 0
    /\ \E res \in WithInterest(r) : PackReserve(r, res)
    /\ CanDepositCollateral(obligation[o], r)
    /\ CanTransfer(token[r], "ctoken_wallet", amount)
    /\ PackObligation(o, ObligationDeposit(obligation[o], r, amount))
    /\ SetToken(r, Transfer(token[r], "ctoken_wallet", "ctoken_supply", amount))
    /\ reserve_update' = [reserve_update EXCEPT ![r] = FreshThenStale]
    /\ obligation_update' = MarkStale(obligation_update, o)
    /\ UNCHANGED <<clockVars, market, configVars, reserve_limiter, price_slot, open>>

\* process_deposit_reserve_liquidity_and_obligation_collateral.  The minted
\* amount is not checked: a deposit too small to mint adds an empty entry.
DepositReserveLiquidityAndObligationCollateral(o, r, amount) ==
    /\ o \in open /\ r \in live /\ amount > 0
    /\ CanDepositCollateral(obligation[o], r)
    /\ \E res \in WithInterest(r) :
          /\ CanDeposit(r, res, amount)
          /\ PackReserve(r, DepositLiquidity(res, amount))
          /\ PackObligation(o, ObligationDeposit(obligation[o], r, CollateralFor(res, amount)))
          /\ SetToken(r, Transfer(Deposited(token[r], res, amount),
                                  "ctoken_wallet", "ctoken_supply", CollateralFor(res, amount)))
    /\ reserve_update' = [reserve_update EXCEPT ![r] = FreshThenStale]
    /\ obligation_update' = MarkStale(obligation_update, o)
    /\ UNCHANGED <<clockVars, market, configVars, reserve_limiter, price_slot, open>>

(***************************************************************************)
(* _withdraw_obligation_collateral.  The amount actually withdrawn is cut  *)
(* down to what the recorded values leave free, and to cap, what the rate  *)
(* limiters leave when the collateral is redeemed at once.                 *)
(***************************************************************************)
WithdrawAmount(o, r, amount, cap) ==
    {MinOf(amount, MinOf(max, cap)) :
        max \in MaxWithdrawAmount(obligation[o], DepositIndex(obligation[o], r),
                                  config[r], reserve[r])}

CanWithdraw(o, r) ==
    /\ o \in open /\ r \in live
    /\ ~IsStale(reserve_update[r]) /\ ~IsStale(obligation_update[o])
    /\ DepositIndex(obligation[o], r) # 0
    /\ obligation[o].deposits[DepositIndex(obligation[o], r)].deposited_amount # 0
    /\ HasExchangeRate(reserve[r])

Withdrawn(o, r, amount) ==
    ObligationWithdraw(obligation[o], DepositIndex(obligation[o], r), amount)

WithdrawObligationCollateral(o, r, amount) ==
    /\ amount > 0
    /\ CanWithdraw(o, r)
    /\ \E withdraw \in WithdrawAmount(o, r, amount, U64_MAX) :
          /\ withdraw # 0
          /\ CanTransfer(token[r], "ctoken_supply", withdraw)
          /\ PackObligation(o, Withdrawn(o, r, withdraw))
          /\ SetToken(r, Transfer(token[r], "ctoken_supply", "ctoken_wallet", withdraw))
    /\ obligation_update' = MarkStale(obligation_update, o)
    /\ UNCHANGED <<clockVars, market, configVars, reserveVars, open>>

\* collateral both rate limiters would let out at once
OutflowCollateral(o, r) ==
    LET usd == MinOf(RemainingOutflow(market.rate_limiter, slot), 2 * obligation[o].deposited_value)
        Collateral(tokens) ==
            TryFloor(LiquidityToCollateral(
                reserve[r], MinOf(tokens, RemainingOutflow(reserve_limiter[r], slot))))
    IN  {cap \in {Collateral(tokens) : tokens \in UsdToLiquidityLowerBound(reserve[r], usd)} :
            cap <= U64_MAX}

\* process_withdraw_obligation_collateral_and_redeem_reserve_liquidity
WithdrawObligationCollateralAndRedeem(o, r, amount) ==
    /\ CanWithdraw(o, r)
    /\ \E cap \in OutflowCollateral(o, r) : \E withdraw \in WithdrawAmount(o, r, amount, cap) :
          /\ withdraw # 0
          /\ CanTransfer(token[r], "ctoken_supply", withdraw)
          /\ PackObligation(o, Withdrawn(o, r, withdraw))
          /\ CanRedeem(reserve[r], withdraw)
          /\ RateLimited(r, reserve[r], withdraw)
          /\ PackReserve(r, RedeemCollateral(reserve[r], withdraw))
          /\ SetToken(r, Redeemed(Transfer(token[r], "ctoken_supply", "ctoken_wallet", withdraw),
                                  reserve[r], withdraw))
    /\ obligation_update' = MarkStale(obligation_update, o)
    /\ reserve_update' = MarkStale(reserve_update, r)
    /\ UNCHANGED <<clockVars, configVars, price_slot, open>>

-----------------------------------------------------------------------------
(* Borrowing and repaying.                                                 *)

\* mutant: the flag not asked when a regular asset is borrowed
TierIgnoresFlag(ob, r) ==
    config[r].reserve_type = "Isolated" =>
        ob.borrows = <<>> \/ (Len(ob.borrows) = 1 /\ ob.borrows[1].borrow_reserve = r)

\* the isolated tier: an isolated asset is borrowed alone
TierAllows(ob, r) ==
    IF config[r].reserve_type = "Isolated"
    THEN \/ ob.borrows = <<>>
         \/ Len(ob.borrows) = 1 /\ ob.borrows[1].borrow_reserve = r
    ELSE ~ob.borrowing_isolated_asset

\* what process_borrow_obligation_liquidity asks before it computes anything;
\* u64::MAX ("as much as possible") skips the borrow_limit check
CanBorrow(o, r, amount) ==
    /\ o \in open /\ r \in live /\ amount > 0
    /\ ~IsStale(reserve_update[r]) /\ ~IsStale(obligation_update[o])
    /\ amount # U64_MAX =>
          TryFloor(FromU64(amount) + reserve[r].borrowed_amount_wads) <= config[r].borrow_limit
    /\ obligation[o].deposits # <<>> /\ obligation[o].deposited_value # 0
    /\ TierAllows(obligation[o], r)
    /\ RemainingBorrowValue(obligation[o]) # 0

BorrowTerms(o, r, amount) ==
    LET res      == reserve[r]
        value    == RemainingBorrowValue(obligation[o])
        capacity == MaxOf(FromU64(config[r].borrow_limit) - res.borrowed_amount_wads, 0)
        outflow  == {MinOf(tokens, RemainingOutflow(reserve_limiter[r], slot)) :
                        tokens \in UsdToLiquidityLowerBound(
                            res, MinOf(RemainingOutflow(market.rate_limiter, slot), value))}
    IN  UNION {CalculateBorrow(config[r], res, amount, value, MinOf(capacity, limit)) :
                  limit \in outflow}

\* the fee goes to the host as far as it is the host's and a host is named
SplitFee(t, terms, host) ==
    LET to_host == IF host THEN terms.host_fee ELSE 0
    IN  Transfer(Transfer(Transfer(t, "supply", "wallet", to_host),
                          "supply", "fee_receiver", terms.borrow_fee - to_host),
                 "supply", "wallet", terms.receive_amount)

BorrowObligationLiquidity(o, r, amount, host) ==
    /\ CanBorrow(o, r, amount)
    /\ CanAddBorrow(obligation[o], r)
    /\ \E terms \in BorrowTerms(o, r, amount) :
          LET value == MarketValueUpperBound(reserve[r], terms.borrow_amount)
          IN  /\ terms.receive_amount # 0
              /\ RateLimiterAllows(market.rate_limiter, slot, value)
              /\ RateLimiterAllows(reserve_limiter[r], slot, terms.borrow_amount)
              /\ market' = [market EXCEPT !.rate_limiter = RateLimiterUpdate(@, slot, value)]
              /\ reserve_limiter' =
                    [reserve_limiter EXCEPT
                        ![r] = RateLimiterUpdate(@, slot, terms.borrow_amount)]
              /\ PackReserve(r, LiquidityBorrow(reserve[r], terms.borrow_amount))
              /\ PackObligation(o, ObligationBorrow(obligation[o], r,
                                       reserve[r].cumulative_borrow_rate_wads,
                                       terms.borrow_amount))
              /\ host => terms.host_fee <= terms.borrow_fee
              /\ SetToken(r, SplitFee(token[r], terms, host))
    /\ reserve_update' = MarkStale(reserve_update, r)
    /\ obligation_update' = MarkStale(obligation_update, o)
    /\ UNCHANGED <<clockVars, configVars, price_slot, open>>

\* process_repay_obligation_liquidity: accrues the reserve and this one debt
RepayObligationLiquidity(o, r, amount) ==
    LET i == BorrowIndex(obligation[o], r)
        b == obligation[o].borrows[i]
    IN  /\ o \in open /\ r \in live /\ amount > 0
        /\ i # 0 /\ b.borrowed_amount_wads # 0
        /\ \E res \in WithInterest(r) :
              /\ CanAccrue(b, res.cumulative_borrow_rate_wads)
              /\ LET debt  == AccrueBorrow(b, res.cumulative_borrow_rate_wads)
                     terms == CalculateRepay(amount, debt.borrowed_amount_wads)
                 IN  /\ terms.repay_amount # 0
                     /\ PackReserve(r, LiquidityRepay(res, terms.repay_amount,
                                                      terms.settle_amount))
                     /\ PackObligation(o, ObligationRepay(
                                              [obligation[o] EXCEPT !.borrows[i] = debt],
                                              i, terms.settle_amount))
                     /\ SetToken(r, Transfer(token[r], "wallet", "supply", terms.repay_amount))
        /\ reserve_update' = [reserve_update EXCEPT ![r] = FreshThenStale]
        /\ obligation_update' = MarkStale(obligation_update, o)
        /\ UNCHANGED <<clockVars, market, configVars, reserve_limiter, price_slot, open>>

-----------------------------------------------------------------------------
(* Liquidation.                                                            *)

\* the checks of _liquidate_obligation; only the first borrow can be repaid
CanLiquidate(o, p, w, liquidator) ==
    LET ob == obligation[o]
    IN  /\ o \in open /\ p \in live /\ w \in live
        /\ ~IsStale(reserve_update[p]) /\ ~IsStale(reserve_update[w])
        /\ ~IsStale(obligation_update[o])
        /\ ob.deposited_value # 0 /\ ob.borrowed_value # 0
        /\ ob.borrowed_value >= ob.unhealthy_borrow_value
        /\ market.whitelisted_liquidator \in {NoKey, liquidator}
        /\ BorrowIndex(ob, p) = 1 /\ ob.borrows[1].market_value # 0
        /\ DepositIndex(ob, w) # 0 /\ ob.deposits[DepositIndex(ob, w)].market_value # 0
        /\ CanCalculateLiquidation(config[w], ob, ob.borrows[1])

LiquidationTerms(o, w, amount) ==
    CalculateLiquidation(config[w], obligation[o], obligation[o].borrows[1],
                         obligation[o].deposits[DepositIndex(obligation[o], w)], amount)

\* tokens and collateral after _liquidate_obligation, before the redemption
Seized(p, w, terms) ==
    LET paid == [token EXCEPT ![p] = Transfer(@, "wallet", "supply", terms.repay_amount)]
    IN  [paid EXCEPT ![w] = Transfer(@, "ctoken_supply", "ctoken_wallet", terms.withdraw_amount)]

(***************************************************************************)
(* process_liquidate_obligation_and_redeem_reserve_collateral.  What the   *)
(* withdraw reserve has available is redeemed at once, outside the rate    *)
(* limits; the rest stays with the liquidator as collateral tokens.  The   *)
(* interest refresh of the withdraw reserve finds no slot elapsed, but     *)
(* clears the stale flag: set again by a redemption, and only by one.      *)
(***************************************************************************)
LiquidateObligation(o, p, w, amount, liquidator) ==
    LET terms  == LiquidationTerms(o, w, amount)
        repaid == [reserve EXCEPT ![p] = LiquidityRepay(@, terms.repay_amount,
                                                        terms.settle_amount)]
        coll   == MinOf(terms.withdraw_amount,
                        CollateralFor(repaid[w], repaid[w].available_amount))
        fee    == CalculateProtocolLiquidationFee(config[w], LiquidityFor(repaid[w], coll),
                                                  terms.bonus_rate)
        owing  == ObligationRepay(obligation[o], 1, terms.settle_amount)
    IN  /\ amount > 0
        /\ CanLiquidate(o, p, w, liquidator)
        /\ terms.repay_amount # 0 /\ terms.withdraw_amount # 0
        /\ CanTransfer(token[p], "wallet", terms.repay_amount)
        /\ PackObligation(o, ObligationWithdraw(owing, DepositIndex(owing, w),
                                                terms.withdraw_amount))
        /\ HasExchangeRate(repaid[w])
        /\ IF coll = 0
           THEN /\ reserve' = repaid
                /\ token' = Seized(p, w, terms)
                /\ reserve_update' = [MarkStale(reserve_update, p) EXCEPT ![w] = Fresh]
           ELSE /\ CanRedeem(repaid[w], coll)
                /\ reserve' = [repaid EXCEPT ![w] = RedeemCollateral(@, coll)]
                /\ token' = [Seized(p, w, terms) EXCEPT
                                ![w] = Transfer(Redeemed(@, repaid[w], coll),
                                                "wallet", "fee_receiver", fee)]
                /\ reserve_update' = [MarkStale(reserve_update, p) EXCEPT ![w] = FreshThenStale]
        /\ reserve' \in [Reserves -> ReserveRec] /\ token' \in [Reserves -> TokenRec]
        /\ obligation_update' = MarkStale(obligation_update, o)
        /\ UNCHANGED <<clockVars, market, configVars, reserve_limiter, price_slot, open>>

(***************************************************************************)
(* process_forgive_debt, by the market owner: bad debt of an obligation    *)
(* without collateral, as far as one cToken stays worth 1% of a token.     *)
(***************************************************************************)
ForgiveDebt(o, r, amount) ==
    LET i == BorrowIndex(obligation[o], r)
        max_forgive == TotalSupply(reserve[r])
                           - DecMul(FromU64(reserve[r].mint_total_supply), FromPercent(1))
        forgive == MinOf(FromU64(amount),
                         MinOf(obligation[o].borrows[i].borrowed_amount_wads, max_forgive))
    IN  /\ o \in open /\ r \in live
        /\ ~IsStale(reserve_update[r]) /\ ~IsStale(obligation_update[o])
        /\ obligation[o].deposits = <<>>
        /\ TotalSupply(reserve[r]) >= 0 /\ max_forgive >= 0
        /\ i # 0
        /\ forgive <= reserve[r].borrowed_amount_wads
        /\ PackReserve(r, LiquidityForgiveDebt(reserve[r], forgive))
        /\ PackObligation(o, ObligationRepay(obligation[o], i, forgive))
        /\ reserve_update' = MarkStale(reserve_update, r)
        /\ obligation_update' = MarkStale(obligation_update, o)
        /\ UNCHANGED <<clockVars, market, configVars, reserve_limiter, price_slot, open, token>>

-----------------------------------------------------------------------------
(* Configuration.                                                          *)

FeeFields == {"borrow_fee_wad", "flash_loan_fee_wad", "host_fee_percentage",
              "protocol_liquidation_fee", "protocol_take_rate"}

\* what process_update_reserve_config checks whoever signs; the checks on
\* fees do not bind solend_market_owner
ConfigAcceptable(r, signer, cfg) ==
    /\ r \in live
    /\ ValidateReserveConfig(cfg)
    /\ signer # SolendOwner => \A f \in FeeFields : cfg[f] = config[r][f]

UpdateReserveConfigByOwner(r, signer, cfg, limiter, setup) ==
    /\ ConfigAcceptable(r, signer, cfg)
    /\ signer = market.owner
    /\ setup.pyth \/ setup.switchboard
    /\ config' = [config EXCEPT ![r] = cfg]
    /\ oracles' = [oracles EXCEPT ![r] = setup]
    /\ reserve_limiter' = [reserve_limiter EXCEPT
                              ![r] = IF limiter = @.config THEN @ ELSE RateLimiterNew(limiter, slot)]
    /\ reserve_update' = MarkStale(reserve_update, r)
    /\ UNCHANGED <<clockVars, market, live, reserve, price_slot, obligationVars, token>>

\* the risk authority may stop outflows and lower limits
UpdateReserveConfigByRiskAuthority(r, signer, cfg, limiter) ==
    /\ ConfigAcceptable(r, signer, cfg)
    /\ signer = market.risk_authority /\ signer # market.owner
    /\ config' = [config EXCEPT
                     ![r] = [config[r] EXCEPT
                                !.borrow_limit = MinOf(@, cfg.borrow_limit),
                                !.deposit_limit = MinOf(@, cfg.deposit_limit)]]
    /\ reserve_limiter' = [reserve_limiter EXCEPT
                              ![r] = IF limiter.window_duration > 0 /\ limiter.max_outflow = 0
                                     THEN RateLimiterNew(limiter, slot) ELSE @]
    /\ reserve_update' = MarkStale(reserve_update, r)
    /\ UNCHANGED <<clockVars, market, live, oracles, reserve, price_slot, obligationVars, token>>

\* "5ph" may change the fees of a market it neither owns nor watches over
UpdateReserveConfigBySolend(r, signer, cfg) ==
    /\ ConfigAcceptable(r, signer, cfg)
    /\ signer = SolendOwner /\ signer \notin {market.owner, market.risk_authority}
    /\ config' = [config EXCEPT
                     ![r] = [config[r] EXCEPT
                                !.borrow_fee_wad = cfg.borrow_fee_wad,
                                !.flash_loan_fee_wad = cfg.flash_loan_fee_wad,
                                !.host_fee_percentage = cfg.host_fee_percentage,
                                !.protocol_liquidation_fee = cfg.protocol_liquidation_fee,
                                !.protocol_take_rate = cfg.protocol_take_rate]]
    /\ reserve_update' = MarkStale(reserve_update, r)
    /\ UNCHANGED <<clockVars, market, live, oracles, reserve, reserve_limiter, price_slot,
                   obligationVars, token>>

\* process_set_lending_market_owner_and_config, signed by the owner
SetLendingMarketOwnerAndConfig(owner, limiter, liquidator, risk) ==
    /\ market' = [owner |-> owner, risk_authority |-> risk, whitelisted_liquidator |-> liquidator,
                  rate_limiter |-> IF limiter = market.rate_limiter.config
                                   THEN market.rate_limiter ELSE RateLimiterNew(limiter, slot)]
    /\ UNCHANGED <<clockVars, configVars, reserveVars, obligationVars, token>>

-----------------------------------------------------------------------------
(* Flash loans: borrowed and repaid within one transaction, that is in one *)
(* slot; a transaction that does not repay is rolled back as a whole.      *)

FlashBorrowReserveLiquidity(r, amount) ==
    /\ r \in live /\ flash = NoFlash
    /\ config[r].flash_loan_fee_wad # U64_MAX
    /\ \E res \in WithInterest(r) :
          /\ amount <= res.available_amount
          /\ PackReserve(r, LiquidityBorrow(res, FromU64(amount)))
    /\ SetToken(r, Transfer(token[r], "supply", "wallet", amount))
    /\ reserve_update' = [reserve_update EXCEPT ![r] = FreshThenStale]
    /\ flash' = [reserve |-> r, amount |-> amount]
    /\ UNCHANGED <<slot, market, configVars, reserve_limiter, price_slot, obligationVars>>

FlashRepayReserveLiquidity ==
    /\ flash # NoFlash
    /\ LET r == flash.reserve
       IN  \E f \in CalculateFees(config[r], FromU64(flash.amount),
                                  config[r].flash_loan_fee_wad, FALSE) :
             /\ f[2] <= f[1]
             /\ PackReserve(r, LiquidityRepay(reserve[r], flash.amount, FromU64(flash.amount)))
             /\ SetToken(r, Transfer(Transfer(token[r], "wallet", "supply", flash.amount),
                                     "wallet", "fee_receiver", f[1] - f[2]))
             /\ reserve_update' = MarkStale(reserve_update, r)
    /\ flash' = NoFlash
    /\ UNCHANGED <<slot, market, configVars, reserve_limiter, price_slot, obligationVars>>

-----------------------------------------------------------------------------

ReserveStep(r) ==
    \/ \E amount \in InitAmounts, cfg \in InitConfigs[r], setup \in OracleSetups :
          \E reading \in GetPrice(r, setup) : InitReserve(r, amount, cfg, setup, reading)
    \/ \E reading \in GetPrice(r, oracles[r]) : RefreshReserve(r, reading)
    \/ \E amount \in DepositAmounts : DepositReserveLiquidity(r, amount)
    \/ \E amount \in RedeemAmounts : RedeemReserveCollateral(r, amount)
    \/ RedeemFees(r)
    \/ \E amount \in FlashAmounts : FlashBorrowReserveLiquidity(r, amount)

PositionStep(o, r) ==
    \/ \E amount \in CollateralAmounts : DepositObligationCollateral(o, r, amount)
    \/ \E amount \in DepositAmounts :
          DepositReserveLiquidityAndObligationCollateral(o, r, amount)
    \/ \E amount \in WithdrawAmounts :
          \/ WithdrawObligationCollateral(o, r, amount)
          \/ WithdrawObligationCollateralAndRedeem(o, r, amount)
    \/ \E amount \in BorrowAmounts, host \in BOOLEAN :
          BorrowObligationLiquidity(o, r, amount, host)
    \/ \E amount \in RepayAmounts : RepayObligationLiquidity(o, r, amount)
    \/ \E w \in Reserves, amount \in LiquidateAmounts, liquidator \in Keys :
          LiquidateObligation(o, r, w, amount, liquidator)
    \/ \E amount \in ForgiveAmounts : ForgiveDebt(o, r, amount)

ConfigStep(r, signer) ==
    \E cfg \in ConfigUpdates :
        \/ \E limiter \in LimiterUpdates :
              \/ \E setup \in OracleSetups :
                    UpdateReserveConfigByOwner(r, signer, cfg, limiter, setup)
              \/ UpdateReserveConfigByRiskAuthority(r, signer, cfg, limiter)
        \/ UpdateReserveConfigBySolend(r, signer, cfg)

Next ==
    \/ Tick
    \/ FlashRepayReserveLiquidity
    \/ \E r \in Reserves : ReserveStep(r)
    \/ \E o \in Obligations : InitObligation(o) \/ RefreshObligation(o)
    \/ \E o \in Obligations, r \in Reserves : PositionStep(o, r)
    \/ \E r \in Reserves, signer \in Keys : ConfigStep(r, signer)
    \/ \E owner, risk \in Keys, liquidator \in Keys \cup {NoKey},
          limiter \in MarketLimiterUpdates :
          SetLendingMarketOwnerAndConfig(owner, limiter, liquidator, risk)

Spec == Init /\ [][Next]_vars

-----------------------------------------------------------------------------
(* Properties.                                                             *)

\* Every field keeps the width it is packed with.
TypeOK ==
    /\ slot \in 1..MaxSlot
    /\ market \in MarketRec
    /\ live \subseteq Reserves /\ open \subseteq Obligations
    /\ config \in [Reserves -> ReserveConfig]
    /\ oracles \in [Reserves -> [pyth : BOOLEAN, switchboard : BOOLEAN]]
    /\ reserve \in [Reserves -> ReserveRec]
    /\ reserve_update \in [Reserves -> LastUpdate]
    /\ reserve_limiter \in [Reserves -> RateLimiterRec]
    /\ price_slot \in [Reserves -> 0..MaxSlot]
    /\ obligation \in [Obligations -> ObligationRec]
    /\ obligation_update \in [Obligations -> LastUpdate]
    /\ token \in [Reserves -> TokenRec]
    /\ flash \in {NoFlash} \cup [reserve : Reserves, amount : U64]

(***************************************************************************)
(* A reserve that passes the staleness check was priced by an oracle in    *)
(* the slot of its last update.  The interest refresh that deposits,       *)
(* repayments and flash loans run clears the stale flag without reading a  *)
(* price; every one of them must set it again.                             *)
(***************************************************************************)
PriceFresh ==
    \A r \in live : ~reserve_update[r].stale => price_slot[r] = reserve_update[r].slot

(***************************************************************************)
(* An obligation that passes the staleness check was valued with prices of *)
(* the current slot: every reserve it holds or owes was priced in it.      *)
(***************************************************************************)
ObligationFresh ==
    \A o \in open : ~IsStale(obligation_update[o]) =>
        \A r \in DepositReserves(obligation[o]) \cup BorrowReserves(obligation[o]) :
            price_slot[r] = slot

(***************************************************************************)
(* The available_amount a reserve keeps is what its liquidity supply token *)
(* account holds, through every fee split, rounding and redemption.        *)
(***************************************************************************)
VaultMatchesAvailable ==
    \A r \in Reserves : token[r].supply = reserve[r].available_amount

HeldCollateral(ob, r) ==
    SumOver(ob.deposits,
            LAMBDA d : IF d.deposit_reserve = r THEN d.deposited_amount ELSE 0)

Debt(ob, r) ==
    SumOver(ob.borrows,
            LAMBDA b : IF b.borrow_reserve = r THEN b.borrowed_amount_wads ELSE 0)

(***************************************************************************)
(* Collateral tokens are accounted for twice over: the collateral supply   *)
(* account holds exactly the deposits of all obligations, and the mint     *)
(* total the reserve keeps is the supply of the mint.                      *)
(***************************************************************************)
CollateralConserved ==
    \A r \in Reserves :
        /\ token[r].ctoken_supply = MapThenSumSet(LAMBDA o : HeldCollateral(obligation[o], r), Obligations)
        /\ reserve[r].mint_total_supply = token[r].ctoken_mint
        /\ token[r].ctoken_mint = token[r].ctoken_supply + token[r].ctoken_wallet

(***************************************************************************)
(* The books of a reserve agree with its token accounts, liquidity and     *)
(* collateral both, when a liquidation moves both in one instruction.      *)
(***************************************************************************)
BooksBalance == VaultMatchesAvailable /\ CollateralConserved

(***************************************************************************)
(* As long as a reserve has accrued no interest its borrowed amount is the *)
(* sum of what the obligations owe it and of the flash loan under way.     *)
(***************************************************************************)
DebtsMatchReserve ==
    \A r \in live :
        reserve[r].cumulative_borrow_rate_wads = WAD =>
            reserve[r].borrowed_amount_wads =
                MapThenSumSet(LAMBDA o : Debt(obligation[o], r), Obligations)
                + (IF flash # NoFlash /\ flash.reserve = r THEN FromU64(flash.amount) ELSE 0)

(***************************************************************************)
(* The position lists never outgrow the obligation account: one entry per  *)
(* reserve and side, and no more than the bytes of Obligation::LEN, which  *)
(* holds one 88 byte deposit and 112 bytes for every other position.       *)
(***************************************************************************)
PositionsFit ==
    \A o \in open :
        LET ob == obligation[o]
        IN  /\ Cardinality(DepositReserves(ob)) = Len(ob.deposits)
            /\ Cardinality(BorrowReserves(ob)) = Len(ob.borrows)
            /\ 88 * Len(ob.deposits) + 112 * Len(ob.borrows)
                  <= 88 + 112 * (MAX_OBLIGATION_RESERVES - 1)

(***************************************************************************)
(* While the tiers of the reserves do not change, an obligation that       *)
(* borrows an isolated asset borrows nothing else, although the flag the   *)
(* borrow handler relies on is only recomputed by a refresh.               *)
(***************************************************************************)
IsolatedBorrowedAlone ==
    \A o \in open :
        (\E r \in BorrowReserves(obligation[o]) : config[r].reserve_type = "Isolated") =>
            Len(obligation[o].borrows) = 1

(***************************************************************************)
(* No debt is ahead of its reserve: the cumulative rate an obligation's    *)
(* borrow was last accrued at never exceeds the reserve's, or accruing it, *)
(* and with it refresh, repayment and liquidation, would fail for ever.    *)
(***************************************************************************)
DebtRateBehindReserve ==
    \A o \in open : \A i \in DOMAIN obligation[o].borrows :
        LET b == obligation[o].borrows[i]
        IN  CanAccrue(b, reserve[b.borrow_reserve].cumulative_borrow_rate_wads)

(***************************************************************************)
(* Interest, fees, borrowing, repayment and forgiveness leave total_supply, *)
(* which every handler computes first, at zero or above.  Only burning      *)
(* collateral can overdraw it, and only by the one wad the exchange rate    *)
(* was truncated by: the payment exceeds the supply by less than            *)
(* supply / rate wads.  (A liquidation adds what it repays to the supply    *)
(* before it redeems; the amount is stated for the other redemptions.)      *)
(***************************************************************************)
SupplyCoversFees ==
    [][\A r \in live :
          LET before == reserve[r]
              after  == reserve'[r]
          IN  TotalSupply(before) >= 0 /\ TotalSupply(after) < 0 =>
                  /\ after.mint_total_supply < before.mint_total_supply
                  /\ after.borrowed_amount_wads = before.borrowed_amount_wads =>
                        -TotalSupply(after) * ExchangeRate(before) < TotalSupply(before)]_vars

(***************************************************************************)
(* Liquidation can only repay the first borrow of a fresh obligation; that *)
(* borrow is the one with the largest weight (then key), as long as no     *)
(* configuration changes.                                                  *)
(***************************************************************************)
HeaviestDebtFirst ==
    \A o \in open : ~IsStale(obligation_update[o]) =>
        LET borrows == obligation[o].borrows
        IN  \A i \in DOMAIN borrows :
                \/ config[borrows[i].borrow_reserve].added_borrow_weight_bps
                      < config[borrows[1].borrow_reserve].added_borrow_weight_bps
                \/ /\ config[borrows[i].borrow_reserve].added_borrow_weight_bps
                          = config[borrows[1].borrow_reserve].added_borrow_weight_bps
                   /\ borrows[i].borrow_reserve <= borrows[1].borrow_reserve

\* The lists of positions are what liquidation and pack take for granted: the
\* debt to repay comes first, and every entry has its place in the account.
PositionsSound == PositionsFit /\ HeaviestDebtFirst

(***************************************************************************)
(* No instruction but debt forgiveness lowers what a collateral token is   *)
(* worth (total supply over mint supply): deposits round the mint down,    *)
(* redemptions round the payment down, repayments round up, and interest   *)
(* and fees are never paid by the depositors.  Only the truncation of the  *)
(* exchange rate itself may cost them a few wads.                          *)
(***************************************************************************)
ShareValueKept(r) ==
    reserve[r].mint_total_supply > 0 =>
        (TotalSupply(reserve'[r]) + RoundingSlack) * reserve[r].mint_total_supply
            >= TotalSupply(reserve[r]) * reserve'[r].mint_total_supply

DebtForgiven(r) ==
    /\ reserve'[r].borrowed_amount_wads < reserve[r].borrowed_amount_wads
    /\ token' = token

ShareValueNeverDrops == [][\A r \in live : DebtForgiven(r) \/ ShareValueKept(r)]_vars

(***************************************************************************)
(* A borrower cannot take out more than the loan-to-value allows: when the *)
(* obligation's recorded values are those its reserves give, a step that   *)
(* adds to its debt, or takes collateral out without repaying, leaves it   *)
(* within allowed_borrow_value when valued anew.                           *)
(***************************************************************************)
Valued(o) == RefreshedObligation(obligation[o], reserve, config)

TakesOut(o) ==
    \E r \in Reserves :
        \/ Debt(obligation'[o], r) > Debt(obligation[o], r)
        \/ /\ HeldCollateral(obligation'[o], r) < HeldCollateral(obligation[o], r)
           /\ \A p \in Reserves : Debt(obligation'[o], p) = Debt(obligation[o], p)

StillAllowed(o) ==
    LET before == Valued(o)
        after  == Valued(o)'
    IN  (TakesOut(o) /\ obligation[o] = before /\ before.borrows # <<>>) =>
            after.borrowed_value_upper_bound <= after.allowed_borrow_value + RoundingSlack

TakingOutKeepsHealth == [][\A o \in open : StillAllowed(o)]_vars

(***************************************************************************)
(* A liquidator is paid at most the debt it settles times one plus the     *)
(* largest bonus and the protocol's fee, at the values recorded in the     *)
(* obligation, plus at most one collateral token when a dust position is   *)
(* closed.                                                                 *)
(***************************************************************************)
SeizedValueBounded(o, w) ==
    LET ob    == obligation[o]
        c     == ob.deposits[DepositIndex(ob, w)]
        b     == ob.borrows[1]
        seized  == HeldCollateral(obligation[o], w) - HeldCollateral(obligation'[o], w)
        settled == Debt(obligation[o], b.borrow_reserve) - Debt(obligation'[o], b.borrow_reserve)
        top   == WAD + FromPercent(config[w].max_liquidation_bonus)
                     + FromDecaBps(config[w].protocol_liquidation_fee)
        Value(amount, whole, value) == DecMul(value, DecDiv(amount, whole))
        counted == IF b.market_value <= WAD THEN seized - 1 ELSE seized
    IN  Value(counted, c.deposited_amount, c.market_value)
            <= DecMul(Value(settled, b.borrowed_amount_wads, b.market_value), top) + RoundingSlack

Liquidated(o, w) ==
    /\ HeldCollateral(obligation'[o], w) < HeldCollateral(obligation[o], w)
    /\ \E p \in Reserves : Debt(obligation'[o], p) < Debt(obligation[o], p)

LiquidatorWithinBonus ==
    [][\A o \in open, w \in live : Liquidated(o, w) => SeizedValueBounded(o, w)]_vars

(***************************************************************************)
(* While a reserve's limiter allows no outflow, its liquidity leaves only  *)
(* by a flash loan, or along with a payment to the fee receiver (fees, or  *)
(* a liquidation, which bypasses the limiter).                             *)
(***************************************************************************)
Stopped(r) ==
    /\ reserve_limiter[r].config.window_duration > 0
    /\ reserve_limiter[r].config.max_outflow = 0

StoppedReserveKeepsLiquidity ==
    [][\A r \in live :
          Stopped(r) => \/ token'[r].supply >= token[r].supply
                        \/ flash' # flash
                        \/ token'[r].fee_receiver > token[r].fee_receiver]_vars

(***************************************************************************)
(* The configuration a reserve stores passes validate_reserve_config.      *)
(***************************************************************************)
ConfigStaysValid == \A r \in live : ValidateReserveConfig(config[r])
=============================================================================
