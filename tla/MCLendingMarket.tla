-------------------------- MODULE MCLendingMarket --------------------------
(***************************************************************************)
(* Values of LendingMarket's constants for the model-checking runs.  The   *)
(* scale is 1000 wads to one, with 100 percents and 1000 basis points, so  *)
(* that TLC's 32-bit integers hold every product.  The runs about the      *)
(* administration, where percents and basis points meet in one sum, have   *)
(* 10000 wads and the code's 10000 basis points to one.                    *)
(***************************************************************************)
EXTENDS LendingMarket

Plain ==
    [optimal_utilization_rate |-> 50, max_utilization_rate |-> 80,
     loan_to_value_ratio |-> 50, liquidation_threshold |-> 60, max_liquidation_threshold |-> 70,
     liquidation_bonus |-> 5, max_liquidation_bonus |-> 10,
     min_borrow_rate |-> 0, optimal_borrow_rate |-> 0, max_borrow_rate |-> 0,
     super_max_borrow_rate |-> 0, borrow_fee_wad |-> 0, flash_loan_fee_wad |-> 3,
     host_fee_percentage |-> 20, deposit_limit |-> U64_MAX, borrow_limit |-> U64_MAX,
     protocol_liquidation_fee |-> 1, protocol_take_rate |-> 20,
     added_borrow_weight_bps |-> 0, reserve_type |-> "Regular"]

\* a curve steep enough for interest to show within a few slots, and fees
Earning ==
    [Plain EXCEPT !.min_borrow_rate = 40, !.optimal_borrow_rate = 80, !.max_borrow_rate = 120,
                  !.super_max_borrow_rate = 200, !.protocol_take_rate = 80,
                  !.deposit_limit = 9, !.borrow_limit = 9]

\* the same closed to depositors and to flash loans (the fee of u64::MAX)
Closing == [Earning EXCEPT !.deposit_limit = 0, !.flash_loan_fee_wad = U64_MAX]
\* with deposits, flash loans and a fee on borrowing, of which a host gets a part
Charging == [Earning EXCEPT !.deposit_limit = 6, !.borrow_fee_wad = 3]

\* flash loans for nothing, so that taking and returning one changes nothing else
FreeFlash == [Plain EXCEPT !.flash_loan_fee_wad = 0]
\* a heavy debt that supports no borrowing as collateral
Weighty == [FreeFlash EXCEPT !.added_borrow_weight_bps = 500,
                             !.loan_to_value_ratio = 0, !.liquidation_threshold = 0]

IsolatedTier ==
    [Plain EXCEPT !.loan_to_value_ratio = 0, !.liquidation_threshold = 0,
                  !.reserve_type = "Isolated"]

\* A large bonus with a small protocol fee, 24% + 0.1%, and the other way
\* round, 10% + 1.2%: each below MAX_BONUS_PCT, the two large ones together above.
BonusHeavy == [Plain EXCEPT !.max_liquidation_bonus = 24]
FeeHeavy == [Plain EXCEPT !.protocol_liquidation_fee = 12, !.borrow_limit = 2]

\* configurations of the reserves, in the order of their keys
EarningConfigs == [r \in Reserves |-> {Earning}]
PoolConfigs == [r \in Reserves |-> {Closing, Charging}]
TieredConfigs == [r \in Reserves |-> IF r = 1 THEN {Plain} ELSE {IsolatedTier}]
WeightedConfigs == [r \in Reserves |-> IF r = 1 THEN {FreeFlash} ELSE {Weighty}]

BonusConfigs == [r \in Reserves |-> {BonusHeavy}]
ConfigChanges == {BonusHeavy, FeeHeavy}

\* outflow limits: none, nothing at all, a few tokens in two slots
StopLimiter == [window_duration |-> 2, max_outflow |-> 0]
SomeLimiter == [window_duration |-> 2, max_outflow |-> 3]
LimiterChanges == {StopLimiter, SomeLimiter}
MarketLimiterChanges == {DisabledLimiter, SomeLimiter}

PythOnly == {[pyth |-> TRUE, switchboard |-> FALSE]}
PythMaybeSwitchboard == {[pyth |-> TRUE, switchboard |-> b] : b \in BOOLEAN}

\* <<price, moving average>> by reserve
SteadyPrices == [r \in Reserves |-> {<<WAD, WAD>>}]
SplitPrices == [r \in Reserves |-> {<<WAD, WAD + WAD \div 2>>}]
\* cheap tokens: a tenth of a dollar, the second one four times as much at times
RisingPrices == [r \in Reserves |-> IF r = 1 THEN {<<100, 100>>}
                                    ELSE {<<100, 100>>, <<400, 400>>}]
NoPrices == [r \in Reserves |-> {}]
SteadyQuotes == [r \in Reserves |-> {WAD}]
FallbackPrices == [r \in Reserves |-> {2 * WAD}]
=============================================================================
