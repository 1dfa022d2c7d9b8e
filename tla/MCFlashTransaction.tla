------------------------- MODULE MCFlashTransaction -------------------------
(***************************************************************************)
(* Two reserves, one of which does not offer flash loans, and all          *)
(* transactions of up to MaxLength instructions over a set of instructions *)
(* in which every mismatch of a borrow and a repayment occurs; in those of *)
(* four the reserve and amount are fixed, so that what varies is how       *)
(* borrows and repayments point at each other.                             *)
(***************************************************************************)
EXTENDS FlashTransaction

CONSTANTS MaxLength, LongLength

FlashConfig(fee) ==
    [optimal_utilization_rate |-> 50, max_utilization_rate |-> 80,
     loan_to_value_ratio |-> 50, liquidation_threshold |-> 60, max_liquidation_threshold |-> 70,
     liquidation_bonus |-> 5, max_liquidation_bonus |-> 10,
     min_borrow_rate |-> 0, optimal_borrow_rate |-> 0, max_borrow_rate |-> 0,
     super_max_borrow_rate |-> 0, borrow_fee_wad |-> 0, flash_loan_fee_wad |-> fee,
     host_fee_percentage |-> 20, deposit_limit |-> U64_MAX, borrow_limit |-> U64_MAX,
     protocol_liquidation_fee |-> 1, protocol_take_rate |-> 20,
     added_borrow_weight_bps |-> 0, reserve_type |-> "Regular"]

OneDisabled == [r \in Reserves |-> FlashConfig(IF r = 1 THEN 3 ELSE U64_MAX)]

Vaults == [r \in Reserves |-> 6]

I(program, kind, r, amount, index) ==
    [program |-> program, kind |-> kind, reserve |-> r, amount |-> amount, index |-> index]

Flash(programs, reserves, amounts, indices) ==
    {I(p, "flash_borrow", r, a, 0) : p \in programs, r \in reserves, a \in amounts}
    \cup {I(p, "flash_repay", r, a, x) : p \in programs, r \in reserves, a \in amounts,
                                         x \in indices}

\* a foreign program takes the loan and hands back one token more
Others == {I("lending", "other", 1, 0, 0), I("lending", "malformed", 1, 0, 0),
           I("foreign", "spend", 1, 3, 0), I("foreign", "earn", 1, 4, 0)}

SeqsUpTo(S, n) == UNION {[1..k -> S] : k \in 1..n}

Mixed == Flash({"lending"}, Reserves, {3}, {0}) \cup Flash({"lending"}, {1}, {7}, {0})
             \cup Flash({"foreign"}, {1}, {3}, {0})
             \cup {I("lending", "flash_repay", 1, 4, 0), I("lending", "flash_repay", 1, 3, 1)}
             \cup Others

Paired == Flash({"lending"}, {1}, {3}, 0..LongLength - 1) \cup {I("lending", "other", 1, 0, 0)}

Arbitrage == {I("lending", "flash_borrow", 1, 3, 0), I("foreign", "spend", 1, 3, 0),
              I("foreign", "earn", 1, 4, 0), I("lending", "flash_repay", 1, 3, 0)}

AllShapes ==
    SeqsUpTo(Mixed, MaxLength) \cup SeqsUpTo(Paired, LongLength) \cup SeqsUpTo(Arbitrage, LongLength)
=============================================================================
