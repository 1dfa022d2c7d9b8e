--------------------------- MODULE MCAdminClient ---------------------------
(***************************************************************************)
(* Two clients, each run by the owner, the risk authority or               *)
(* solend_market_owner, on a regular reserve; commands that name           *)
(* settings of every class, alone and together.                            *)
(***************************************************************************)
EXTENDS AdminClient

RegularReserve ==
    [optimal_utilization_rate |-> 50, max_utilization_rate |-> 80,
     loan_to_value_ratio |-> 0, liquidation_threshold |-> 0, max_liquidation_threshold |-> 70,
     liquidation_bonus |-> 5, max_liquidation_bonus |-> 5,
     min_borrow_rate |-> 0, optimal_borrow_rate |-> 10, max_borrow_rate |-> 20,
     super_max_borrow_rate |-> 20, borrow_fee_wad |-> 1, flash_loan_fee_wad |-> 1,
     host_fee_percentage |-> 20, deposit_limit |-> 5, borrow_limit |-> 5,
     protocol_liquidation_fee |-> 1, protocol_take_rate |-> 20,
     added_borrow_weight_bps |-> 0, reserve_type |-> "Regular",
     fee_receiver |-> "F1", window_duration |-> 1, max_outflow |-> 3,
     pyth |-> "P1", switchboard |-> "S1"]

MarketAccount == [owner |-> "A", risk_authority |-> "R", whitelisted_liquidator |-> NULL_PUBKEY,
                  window_duration |-> 1, max_outflow |-> 7]

ReserveCommands ==
    {[deposit_limit |-> 2], [deposit_limit |-> 5], [max_outflow |-> 0],
     [fee_receiver |-> "F2"],
     [pyth |-> "P2", pyth_product |-> "P2"], [pyth |-> NULL_PUBKEY, pyth_product |-> "P2"],
     [pyth |-> "P2"], [switchboard |-> NULL_PUBKEY],
     [loan_to_value_ratio |-> 71], [optimal_borrow_rate |-> 12, reserve_type |-> "Isolated"]}

MarketCommands ==
    {[owner |-> "B", risk_authority |-> "R"], [max_outflow |-> 9, risk_authority |-> "A"],
     [whitelisted_liquidator |-> "B", risk_authority |-> "R"], [max_outflow |-> 9]}
=============================================================================
