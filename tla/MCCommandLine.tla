--------------------------- MODULE MCCommandLine ---------------------------
(***************************************************************************)
(* The commands of MCAdminClient; rents of different size, so that no      *)
(* account's can stand in for another's; and two reserves, of which one is *)
(* both deposited and borrowed and one deposit is empty, as                *)
(* deposit_reserve_liquidity_and_obligation_collateral may leave it.       *)
(***************************************************************************)
EXTENDS CommandLine, MCAdminClient

Rents == [reserve |-> 4, collateral_mint |-> 1, collateral_supply |-> 2, user_collateral |-> 2,
          liquidity_supply |-> 2, liquidity_fee_receiver |-> 2]

P(r, n) == [reserve |-> r, amount |-> n]

Deposited == << P(2, 0), P(1, 2) >>
Borrowed == << P(1, 1), P(2, 1) >>

\* all the token accounts of the first reserve, or one missing
FewOrAllAtas == {{<<1, "collateral">>}, {<<1, "collateral">>, <<1, "liquidity">>}}

ObligationCommands ==
    {[op |-> "liquidate", repay |-> 2, reserve |-> 1],
     [op |-> "withdraw", reserve |-> 1], [op |-> "redeem", reserve |-> 1]}
=============================================================================
