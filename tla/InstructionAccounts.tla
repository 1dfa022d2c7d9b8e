------------------------ MODULE InstructionAccounts ------------------------
(***************************************************************************)
(* The account lists of the instructions.  A builder of the SDK lays the   *)
(* accounts out in an order, with a writable and a signer flag each        *)
(* (sdk/src/instruction.rs); the handler takes them one by one from an     *)
(* iterator (program/src/processor.rs), some of them only if they are      *)
(* there: the Clock sysvar that clients of an earlier SDK still pass, the  *)
(* Switchboard feed, the host's fee receiver.  Nothing but the order ties  *)
(* the two lists together, and nothing but the flags allows the handler's  *)
(* writes and token transfers: the runtime undoes an instruction that      *)
(* writes an account passed read-only or lacks a signature.                *)
(*                                                                         *)
(* An account is named by its role, the handler's name for it; a handler   *)
(* that calls another passes its own roles on.                             *)
(***************************************************************************)
EXTENDS Naturals, Sequences, SequencesExt

CONSTANT MaxPositions   \* the deposits, and the borrows, of an obligation to refresh

\* what the constant has to be
AccountsAssumption == MaxPositions \in Nat

VARIABLES call,       \* the instruction under way: its name and the obligation's positions
          accounts,   \* the accounts left in the handler's iterator
          reads,      \* what the handler's prologue has yet to read
          bound,      \* the handler's variables and the accounts they hold
          outcome     \* idle, reading, or how the instruction ended

vars == <<call, accounts, reads, bound, outcome>>

----------------------------------------------------------------------------
(* Builders.  AccountMeta::new, new_readonly, and the two with signatures. *)

Meta(role, writable, signer) == [key |-> role, writable |-> writable, signer |-> signer]
W(role) == Meta(role, TRUE, FALSE)
R(role) == Meta(role, FALSE, FALSE)
S(role) == Meta(role, FALSE, TRUE)
WS(role) == Meta(role, TRUE, TRUE)

init_lending_market ==
  <<W("lending_market"), R("rent"), R("token_program"), R("oracle_program"),
    R("switchboard_program")>>

set_lending_market_owner_and_config == <<W("lending_market"), S("lending_market_owner")>>

init_reserve ==
  <<W("source_liquidity"), W("destination_collateral"), W("reserve"), R("liquidity_mint"),
    W("liquidity_supply"), W("fee_receiver"), W("collateral_mint"), W("collateral_supply"),
    R("pyth_product"), R("pyth_price"), R("switchboard_feed"), R("lending_market"),
    R("market_authority"), S("lending_market_owner"), S("user_transfer_authority"),
    R("rent"), R("token_program")>>

refresh_reserve == <<W("reserve"), R("pyth_price"), R("switchboard_feed")>>

deposit_reserve_liquidity ==
  <<W("source_liquidity"), W("destination_collateral"), W("reserve"), W("liquidity_supply"),
    W("collateral_mint"), R("lending_market"), R("market_authority"),
    S("user_transfer_authority"), R("token_program")>>

\* mutant: the market is passed read-only, as before it had a rate limiter
redeem_reserve_collateral_readonly ==
  <<W("source_collateral"), W("destination_liquidity"), W("reserve"), W("collateral_mint"),
    W("liquidity_supply"), R("lending_market"), R("market_authority"),
    S("user_transfer_authority"), R("token_program")>>

redeem_reserve_collateral ==
  <<W("source_collateral"), W("destination_liquidity"), W("reserve"), W("collateral_mint"),
    W("liquidity_supply"), W("lending_market"), R("market_authority"),
    S("user_transfer_authority"), R("token_program")>>

init_obligation ==
  <<W("obligation"), R("lending_market"), S("obligation_owner"), R("rent"),
    R("token_program")>>

\* The reserves of the obligation's deposits and borrows, in its order.
DepositReserve == <<"deposit_reserve_1", "deposit_reserve_2", "deposit_reserve_3">>
BorrowReserve == <<"borrow_reserve_1", "borrow_reserve_2", "borrow_reserve_3">>

refresh_obligation(deposits, borrows) ==
  <<W("obligation")>> \o [i \in 1 .. deposits |-> R(DepositReserve[i])]
                      \o [i \in 1 .. borrows |-> R(BorrowReserve[i])]

deposit_obligation_collateral ==
  <<W("source_collateral"), W("destination_collateral"), W("reserve"), W("obligation"),
    R("lending_market"), S("obligation_owner"), S("user_transfer_authority"),
    R("token_program")>>

deposit_reserve_liquidity_and_obligation_collateral ==
  <<W("source_liquidity"), W("user_collateral"), W("reserve"), W("liquidity_supply"),
    W("collateral_mint"), R("lending_market"), R("market_authority"),
    W("destination_collateral"), W("obligation"), WS("obligation_owner"), R("pyth_price"),
    R("switchboard_feed"), S("user_transfer_authority"), R("token_program")>>

withdraw_obligation_collateral_and_redeem_reserve_collateral ==
  <<W("reserve_collateral"), W("user_collateral"), W("reserve"), W("obligation"),
    W("lending_market"), R("market_authority"), W("user_liquidity"), W("collateral_mint"),
    W("liquidity_supply"), S("obligation_owner"), S("user_transfer_authority"),
    R("token_program")>>

withdraw_obligation_collateral ==
  <<W("source_collateral"), W("destination_collateral"), R("withdraw_reserve"),
    W("obligation"), R("lending_market"), R("market_authority"), S("obligation_owner"),
    R("token_program")>>

borrow_obligation_liquidity(host) ==
  <<W("source_liquidity"), W("destination_liquidity"), W("borrow_reserve"),
    W("fee_receiver"), W("obligation"), W("lending_market"), R("market_authority"),
    S("obligation_owner"), R("token_program")>>
    \o (IF host THEN <<W("host_fee_receiver")>> ELSE << >>)

repay_obligation_liquidity ==
  <<W("source_liquidity"), W("destination_liquidity"), W("repay_reserve"), W("obligation"),
    R("lending_market"), S("user_transfer_authority"), R("token_program")>>

liquidate_obligation ==
  <<W("source_liquidity"), W("destination_collateral"), W("repay_reserve"),
    W("repay_liquidity_supply"), R("withdraw_reserve"), W("withdraw_collateral_supply"),
    W("obligation"), R("lending_market"), R("market_authority"),
    S("user_transfer_authority"), R("token_program")>>

update_reserve_config ==
  <<W("reserve"), R("lending_market"), R("market_authority"), S("signer"),
    R("pyth_product"), R("pyth_price"), R("switchboard_feed")>>

liquidate_obligation_and_redeem_reserve_collateral ==
  <<W("source_liquidity"), W("destination_collateral"), W("destination_liquidity"),
    W("repay_reserve"), W("repay_liquidity_supply"), W("withdraw_reserve"),
    W("withdraw_collateral_mint"), W("withdraw_collateral_supply"),
    W("withdraw_liquidity_supply"), W("fee_receiver"), W("obligation"),
    W("lending_market"), R("market_authority"), S("user_transfer_authority"),
    R("token_program")>>

redeem_fees ==
  <<W("reserve"), W("fee_receiver"), W("liquidity_supply"), R("lending_market"),
    R("market_authority"), R("token_program")>>

flash_borrow_reserve_liquidity ==
  <<W("source_liquidity"), W("destination_liquidity"), W("reserve"), R("lending_market"),
    R("market_authority"), R("instructions_sysvar"), R("token_program")>>

flash_repay_reserve_liquidity ==
  <<W("source_liquidity"), W("destination_liquidity"), W("fee_receiver"),
    W("host_fee_receiver"), W("reserve"), R("lending_market"),
    S("user_transfer_authority"), R("instructions_sysvar"), R("token_program")>>

forgive_debt ==
  <<W("obligation"), W("reserve"), R("lending_market"), S("lending_market_owner")>>

update_market_metadata ==
  <<R("lending_market"), WS("lending_market_owner"), W("metadata"), R("system_program")>>

\* The builder of each instruction; FlashLoan has none any more.
Built(ix, deposits, borrows, host) ==
  CASE ix = "InitLendingMarket" -> init_lending_market
    [] ix = "SetLendingMarketOwnerAndConfig" -> set_lending_market_owner_and_config
    [] ix = "InitReserve" -> init_reserve
    [] ix = "RefreshReserve" -> refresh_reserve
    [] ix = "DepositReserveLiquidity" -> deposit_reserve_liquidity
    [] ix = "RedeemReserveCollateral" -> redeem_reserve_collateral
    [] ix = "InitObligation" -> init_obligation
    [] ix = "RefreshObligation" -> refresh_obligation(deposits, borrows)
    [] ix = "DepositObligationCollateral" -> deposit_obligation_collateral
    [] ix = "DepositReserveLiquidityAndObligationCollateral" ->
         deposit_reserve_liquidity_and_obligation_collateral
    [] ix = "WithdrawObligationCollateralAndRedeemReserveCollateral" ->
         withdraw_obligation_collateral_and_redeem_reserve_collateral
    [] ix = "WithdrawObligationCollateral" -> withdraw_obligation_collateral
    [] ix = "BorrowObligationLiquidity" -> borrow_obligation_liquidity(host)
    [] ix = "RepayObligationLiquidity" -> repay_obligation_liquidity
    [] ix = "LiquidateObligation" -> liquidate_obligation
    [] ix = "UpdateReserveConfig" -> update_reserve_config
    [] ix = "LiquidateObligationAndRedeemReserveCollateral" ->
         liquidate_obligation_and_redeem_reserve_collateral
    [] ix = "RedeemFees" -> redeem_fees
    [] ix = "FlashBorrowReserveLiquidity" -> flash_borrow_reserve_liquidity
    [] ix = "FlashRepayReserveLiquidity" -> flash_repay_reserve_liquidity
    [] ix = "ForgiveDebt" -> forgive_debt
    [] ix = "UpdateMarketMetadata" -> update_market_metadata

----------------------------------------------------------------------------
(* The lists of earlier clients: the builders' order, with the place the    *)
(* documentation of LendingInstruction gives for the optional Clock sysvar. *)

\* The index of the Clock sysvar, counted from 0, where a client passes it.
ClockIndex ==
  [InitReserve |-> 15, RefreshReserve |-> 3, DepositReserveLiquidity |-> 8,
   RedeemReserveCollateral |-> 8, InitObligation |-> 3, RefreshObligation |-> 1,
   DepositObligationCollateral |-> 7, WithdrawObligationCollateral |-> 7,
   BorrowObligationLiquidity |-> 8, RepayObligationLiquidity |-> 6,
   DepositReserveLiquidityAndObligationCollateral |-> 13,
   WithdrawObligationCollateralAndRedeemReserveCollateral |-> 11,
   FlashBorrowReserveLiquidity |-> 7]

\* The list of a client of an earlier SDK.
WithClock(ix, list) == InsertAt(list, ClockIndex[ix] + 1, R("clock"))

\* RefreshReserve as clients built it before Switchboard was a fallback.
WithoutSwitchboard(list) == SelectSeq(list, LAMBDA a : a.key # "switchboard_feed")

----------------------------------------------------------------------------
(* The handlers' prologues: the variables in the order in which              *)
(* next_account_info fills them, and the peeks in between.                   *)

Step(how, role) == [how |-> how, role |-> role]
Take(roles) == [k \in DOMAIN roles |-> Step("take", roles[k])]

\* if account_info_iter.peek() == clock::ID { next_account_info(..)?; }
SkipClock == <<Step("skip_clock", "clock")>>

process_init_lending_market ==
  Take(<<"lending_market", "rent", "token_program", "oracle_program", "switchboard_program">>)

process_set_lending_market_owner_and_config ==
  Take(<<"lending_market", "lending_market_owner">>)

process_init_reserve ==
  Take(<<"source_liquidity", "destination_collateral", "reserve", "liquidity_mint",
         "liquidity_supply", "fee_receiver", "collateral_mint", "collateral_supply",
         "pyth_product", "pyth_price", "switchboard_feed", "lending_market",
         "market_authority", "lending_market_owner", "user_transfer_authority">>)
    \o SkipClock \o Take(<<"rent", "token_program">>)

process_refresh_reserve ==
  Take(<<"reserve", "pyth_price">>) \o <<Step("take_unless_clock", "switchboard_feed")>>
    \o SkipClock

process_deposit_reserve_liquidity ==
  Take(<<"source_liquidity", "destination_collateral", "reserve", "liquidity_supply",
         "collateral_mint", "lending_market", "market_authority",
         "user_transfer_authority">>) \o SkipClock \o Take(<<"token_program">>)

process_redeem_reserve_collateral ==
  Take(<<"source_collateral", "destination_liquidity", "reserve", "collateral_mint",
         "liquidity_supply", "lending_market", "market_authority",
         "user_transfer_authority">>) \o SkipClock \o Take(<<"token_program">>)

process_init_obligation ==
  Take(<<"obligation", "lending_market", "obligation_owner">>) \o SkipClock
    \o Take(<<"rent", "token_program">>)

\* One account per deposit and per borrow, and then none may be left.
process_refresh_obligation(deposits, borrows) ==
  Take(<<"obligation">>) \o SkipClock \o Take(SubSeq(DepositReserve, 1, deposits))
    \o Take(SubSeq(BorrowReserve, 1, borrows)) \o <<Step("nothing_left", "none")>>

process_deposit_obligation_collateral ==
  Take(<<"source_collateral", "destination_collateral", "reserve", "obligation",
         "lending_market", "obligation_owner", "user_transfer_authority">>)
    \o SkipClock \o Take(<<"token_program">>)

process_deposit_reserve_liquidity_and_obligation_collateral ==
  Take(<<"source_liquidity", "user_collateral", "reserve", "liquidity_supply",
         "collateral_mint", "lending_market", "market_authority", "destination_collateral",
         "obligation", "obligation_owner", "pyth_price", "switchboard_feed",
         "user_transfer_authority">>) \o SkipClock \o Take(<<"token_program">>)

process_withdraw_obligation_collateral ==
  Take(<<"source_collateral", "destination_collateral", "withdraw_reserve", "obligation",
         "lending_market", "market_authority", "obligation_owner">>)
    \o SkipClock \o Take(<<"token_program">>)

\* The host's fee receiver is taken at the end, when the fees are paid.
process_borrow_obligation_liquidity ==
  Take(<<"source_liquidity", "destination_liquidity", "borrow_reserve", "fee_receiver",
         "obligation", "lending_market", "market_authority", "obligation_owner">>)
    \o SkipClock \o Take(<<"token_program">>) \o <<Step("take_if_any", "host_fee_receiver")>>

process_repay_obligation_liquidity ==
  Take(<<"source_liquidity", "destination_liquidity", "repay_reserve", "obligation",
         "lending_market", "user_transfer_authority">>)
    \o SkipClock \o Take(<<"token_program">>)

process_liquidate_obligation_and_redeem_reserve_collateral ==
  Take(<<"source_liquidity", "destination_collateral", "destination_liquidity",
         "repay_reserve", "repay_liquidity_supply", "withdraw_reserve",
         "withdraw_collateral_mint", "withdraw_collateral_supply",
         "withdraw_liquidity_supply", "fee_receiver", "obligation", "lending_market",
         "market_authority", "user_transfer_authority", "token_program">>)

process_withdraw_obligation_collateral_and_redeem_reserve_liquidity ==
  Take(<<"reserve_collateral", "user_collateral", "reserve", "obligation",
         "lending_market", "market_authority", "user_liquidity", "collateral_mint",
         "liquidity_supply", "obligation_owner", "user_transfer_authority">>)
    \o SkipClock \o Take(<<"token_program">>)

process_update_reserve_config ==
  Take(<<"reserve", "lending_market", "market_authority", "signer", "pyth_product",
         "pyth_price", "switchboard_feed">>)

process_redeem_fees ==
  Take(<<"reserve", "fee_receiver", "liquidity_supply", "lending_market",
         "market_authority", "token_program">>)

process_flash_borrow_reserve_liquidity ==
  Take(<<"source_liquidity", "destination_liquidity", "reserve", "lending_market",
         "market_authority", "instructions_sysvar", "token_program">>)

process_flash_repay_reserve_liquidity ==
  Take(<<"source_liquidity", "destination_liquidity", "fee_receiver", "host_fee_receiver",
         "reserve", "lending_market", "user_transfer_authority", "instructions_sysvar",
         "token_program">>)

process_forgive_debt ==
  Take(<<"obligation", "reserve", "lending_market", "lending_market_owner">>)

process_update_market_metadata ==
  Take(<<"lending_market", "lending_market_owner", "metadata">>)

\* The two instructions that are answered with DeprecatedInstruction.
Deprecated == {"LiquidateObligation", "FlashLoan"}

\* process_instruction: the handler an instruction is given to.
Handler(ix, deposits, borrows) ==
  CASE ix = "InitLendingMarket" -> process_init_lending_market
    [] ix = "SetLendingMarketOwnerAndConfig" -> process_set_lending_market_owner_and_config
    [] ix = "InitReserve" -> process_init_reserve
    [] ix = "RefreshReserve" -> process_refresh_reserve
    [] ix = "DepositReserveLiquidity" -> process_deposit_reserve_liquidity
    [] ix = "RedeemReserveCollateral" -> process_redeem_reserve_collateral
    [] ix = "InitObligation" -> process_init_obligation
    [] ix = "RefreshObligation" -> process_refresh_obligation(deposits, borrows)
    [] ix = "DepositObligationCollateral" -> process_deposit_obligation_collateral
    [] ix = "WithdrawObligationCollateral" -> process_withdraw_obligation_collateral
    [] ix = "BorrowObligationLiquidity" -> process_borrow_obligation_liquidity
    [] ix = "RepayObligationLiquidity" -> process_repay_obligation_liquidity
    [] ix = "DepositReserveLiquidityAndObligationCollateral" ->
         process_deposit_reserve_liquidity_and_obligation_collateral
    [] ix = "WithdrawObligationCollateralAndRedeemReserveCollateral" ->
         process_withdraw_obligation_collateral_and_redeem_reserve_liquidity
    [] ix = "UpdateReserveConfig" -> process_update_reserve_config
    [] ix = "LiquidateObligationAndRedeemReserveCollateral" ->
         process_liquidate_obligation_and_redeem_reserve_collateral
    [] ix = "RedeemFees" -> process_redeem_fees
    [] ix = "FlashBorrowReserveLiquidity" -> process_flash_borrow_reserve_liquidity
    [] ix = "FlashRepayReserveLiquidity" -> process_flash_repay_reserve_liquidity
    [] ix = "ForgiveDebt" -> process_forgive_debt
    [] ix = "UpdateMarketMetadata" -> process_update_market_metadata

----------------------------------------------------------------------------
(* What the handlers do to the accounts: the roles they write and the roles *)
(* whose signature they, or the token program, ask for.  A transfer that    *)
(* only happens when a fee is not zero counts.                              *)

Save(role) == {<<role, "writable">>}
Signed(role) == {<<role, "signer">>}

\* The token program's instructions.  A transfer, a mint or a burn the market's
\* derived authority signs for needs no signature in the list.
Transfer(source, destination) == Save(source) \cup Save(destination)
MintTo(mint, destination) == Save(mint) \cup Save(destination)
Burn(mint, source) == Save(mint) \cup Save(source)
ByUser == Signed("user_transfer_authority")

\* _deposit_reserve_liquidity
DepositLiquidity(destination) ==
  Save("reserve") \cup Transfer("source_liquidity", "liquidity_supply") \cup ByUser
    \cup MintTo("collateral_mint", destination)

\* _redeem_reserve_collateral: the market is saved for its rate limiter.
RedeemCollateral(reserve, mint, source, supply, destination) ==
  Save(reserve) \cup Save("lending_market") \cup Burn(mint, source) \cup ByUser
    \cup Transfer(supply, destination)

\* _deposit_obligation_collateral
DepositCollateral(source) ==
  Signed("obligation_owner") \cup Save("obligation")
    \cup Transfer(source, "destination_collateral") \cup ByUser

\* _withdraw_obligation_collateral: neither the reserve nor the market is saved.
WithdrawCollateral(source, destination) ==
  Signed("obligation_owner") \cup Save("obligation") \cup Transfer(source, destination)

\* _liquidate_obligation
Liquidate ==
  Save("repay_reserve") \cup Save("obligation")
    \cup Transfer("source_liquidity", "repay_liquidity_supply") \cup ByUser
    \cup Transfer("withdraw_collateral_supply", "destination_collateral")

Needs(ix, host) ==
  CASE ix = "InitLendingMarket" -> Save("lending_market")
    [] ix = "SetLendingMarketOwnerAndConfig" ->
         Save("lending_market") \cup Signed("lending_market_owner")
    [] ix = "InitReserve" ->
         Signed("lending_market_owner") \cup Save("reserve") \cup Save("liquidity_supply")
           \cup Save("fee_receiver") \cup Save("collateral_mint") \cup Save("collateral_supply")
           \cup Save("destination_collateral") \cup ByUser
           \cup Transfer("source_liquidity", "liquidity_supply")
           \cup MintTo("collateral_mint", "destination_collateral")
    [] ix = "RefreshReserve" -> Save("reserve")
    [] ix = "DepositReserveLiquidity" -> DepositLiquidity("destination_collateral")
    [] ix = "RedeemReserveCollateral" ->
         RedeemCollateral("reserve", "collateral_mint", "source_collateral",
                          "liquidity_supply", "destination_liquidity")
    [] ix = "InitObligation" -> Signed("obligation_owner") \cup Save("obligation")
    [] ix = "RefreshObligation" -> Save("obligation")
    [] ix = "DepositObligationCollateral" ->
         DepositCollateral("source_collateral") \cup Save("reserve")
    [] ix = "DepositReserveLiquidityAndObligationCollateral" ->
         DepositLiquidity("user_collateral") \cup DepositCollateral("user_collateral")
    [] ix = "WithdrawObligationCollateral" ->
         WithdrawCollateral("source_collateral", "destination_collateral")
    [] ix = "WithdrawObligationCollateralAndRedeemReserveCollateral" ->
         WithdrawCollateral("reserve_collateral", "user_collateral")
           \cup RedeemCollateral("reserve", "collateral_mint", "user_collateral",
                                 "liquidity_supply", "user_liquidity")
    [] ix = "BorrowObligationLiquidity" ->
         Signed("obligation_owner") \cup Save("lending_market") \cup Save("borrow_reserve")
           \cup Save("obligation") \cup Transfer("source_liquidity", "fee_receiver")
           \cup Transfer("source_liquidity", "destination_liquidity")
           \cup (IF host THEN Transfer("source_liquidity", "host_fee_receiver") ELSE {})
    [] ix = "RepayObligationLiquidity" ->
         Save("repay_reserve") \cup Save("obligation") \cup ByUser
           \cup Transfer("source_liquidity", "destination_liquidity")
    [] ix = "UpdateReserveConfig" -> Signed("signer") \cup Save("reserve")
    [] ix = "LiquidateObligationAndRedeemReserveCollateral" ->
         Liquidate
           \cup RedeemCollateral("withdraw_reserve", "withdraw_collateral_mint",
                  "destination_collateral", "withdraw_liquidity_supply", "destination_liquidity")
           \cup Transfer("destination_liquidity", "fee_receiver")
    [] ix = "RedeemFees" -> Save("reserve") \cup Transfer("liquidity_supply", "fee_receiver")
    [] ix = "FlashBorrowReserveLiquidity" ->
         Save("reserve") \cup Transfer("source_liquidity", "destination_liquidity")
    [] ix = "FlashRepayReserveLiquidity" ->
         Save("reserve") \cup Transfer("source_liquidity", "destination_liquidity") \cup ByUser
           \cup Transfer("source_liquidity", "host_fee_receiver")
           \cup Transfer("source_liquidity", "fee_receiver")
    [] ix = "ForgiveDebt" ->
         Signed("lending_market_owner") \cup Save("reserve") \cup Save("obligation")
    [] ix = "UpdateMarketMetadata" ->   \* create_account debits the owner
         Signed("lending_market_owner") \cup Save("lending_market_owner") \cup Save("metadata")

----------------------------------------------------------------------------
(* One instruction at a time: a client lists the accounts, the handler takes *)
(* them, and what it does to them is allowed or undone.                      *)

Instructions ==
  {"InitLendingMarket", "SetLendingMarketOwnerAndConfig", "InitReserve", "RefreshReserve",
   "DepositReserveLiquidity", "RedeemReserveCollateral", "InitObligation",
   "RefreshObligation", "DepositObligationCollateral", "WithdrawObligationCollateral",
   "BorrowObligationLiquidity", "RepayObligationLiquidity", "LiquidateObligation",
   "DepositReserveLiquidityAndObligationCollateral",
   "WithdrawObligationCollateralAndRedeemReserveCollateral", "UpdateReserveConfig",
   "LiquidateObligationAndRedeemReserveCollateral", "RedeemFees",
   "FlashBorrowReserveLiquidity", "FlashRepayReserveLiquidity", "ForgiveDebt",
   "UpdateMarketMetadata"}

NoCall == [ix |-> "none", host |-> FALSE]

Init ==
  /\ call = NoCall
  /\ accounts = << >>
  /\ reads = << >>
  /\ bound = << >>
  /\ outcome = "idle"

\* The lists a client may send for an instruction: the SDK's, with or without
\* the Clock sysvar and the Switchboard feed.
Lists(ix, deposits, borrows, host) ==
  LET list == Built(ix, deposits, borrows, host)
  IN  {list}
        \cup (IF ix \in DOMAIN ClockIndex THEN {WithClock(ix, list)} ELSE {})
        \cup (IF ix = "RefreshReserve"
                THEN {WithoutSwitchboard(list), WithoutSwitchboard(WithClock(ix, list))}
                ELSE {})

Call(ix, deposits, borrows, host) ==
  /\ outcome # "reading"
  /\ call' = [ix |-> ix, host |-> host]
  /\ accounts' \in Lists(ix, deposits, borrows, host)
  /\ reads' = IF ix \in Deprecated THEN << >> ELSE Handler(ix, deposits, borrows)
  /\ bound' = << >>
  /\ outcome' = IF ix \in Deprecated THEN "deprecated" ELSE "reading"

Reading == Head(reads)
ClockAhead == accounts # << >> /\ Head(accounts).key = "clock"

Bind ==
  /\ bound' = (Reading.role :> Head(accounts)) @@ bound
  /\ accounts' = Tail(accounts)
  /\ UNCHANGED outcome

Leave == UNCHANGED <<bound, accounts, outcome>>

Skip == accounts' = Tail(accounts) /\ UNCHANGED <<bound, outcome>>

Refuse(why) == outcome' = why /\ UNCHANGED <<bound, accounts>>

\* next_account_info, peek, and the surplus check of refresh_obligation.
NextAccountInfo ==
  /\ outcome = "reading" /\ reads # << >>
  /\ reads' = Tail(reads)
  /\ UNCHANGED call
  /\ CASE Reading.how = "take" -> IF accounts = << >> THEN Refuse("missing") ELSE Bind
       [] Reading.how = "take_if_any" -> IF accounts = << >> THEN Leave ELSE Bind
       [] Reading.how = "take_unless_clock" ->
            IF accounts = << >> \/ ClockAhead THEN Leave ELSE Bind
       [] Reading.how = "skip_clock" -> IF ClockAhead THEN Skip ELSE Leave
       [] Reading.how = "nothing_left" -> IF accounts = << >> THEN Leave ELSE Refuse("surplus")

\* The flags of the accounts the handler holds.
Granted == UNION {(IF bound[r].writable THEN Save(r) ELSE {})
                    \cup (IF bound[r].signer THEN Signed(r) ELSE {}) : r \in DOMAIN bound}

\* The handler's checks, writes and transfers, under the runtime's rules.
Perform ==
  /\ outcome = "reading" /\ reads = << >>
  /\ outcome' = IF Needs(call.ix, call.host) \subseteq Granted THEN "served" ELSE "denied"
  /\ UNCHANGED <<call, accounts, reads, bound>>

\* ix as the clients call it: with a host or not, for obligations of any size
Calls(ix) ==
  \/ Call(ix, 0, 0, FALSE)
  \/ ix = "BorrowObligationLiquidity" /\ Call(ix, 0, 0, TRUE)
  \/ /\ ix = "RefreshObligation"
     /\ \E deposits, borrows \in 0 .. MaxPositions : Call(ix, deposits, borrows, FALSE)

Next ==
  \/ \E ix \in Instructions : Calls(ix)
  \/ NextAccountInfo
  \/ Perform

Spec == Init /\ [][Next]_vars

----------------------------------------------------------------------------
(* Properties *)

Outcomes == {"idle", "reading", "deprecated", "missing", "surplus", "denied", "served"}

Roles ==
  UNION {{a.key : a \in Range(Built(ix, MaxPositions, MaxPositions, TRUE))} : ix \in Instructions}

\* A handler never holds the Clock sysvar, which only the iterator carries.
TypeOK ==
  /\ call.ix \in Instructions \cup {"none"}
  /\ \A a \in Range(accounts) : a.key \in Roles \cup {"clock"}
  /\ DOMAIN bound \subseteq Roles
  /\ \A r \in DOMAIN bound : bound[r] \in [key : Roles, writable : BOOLEAN, signer : BOOLEAN]
  /\ outcome \in Outcomes

\* Every variable of a handler holds the account its client meant for it,
\* whether the client passes the Clock sysvar, the Switchboard feed and the
\* host's fee receiver or not: no optional account is taken for another.
BindsItsAccounts == \A r \in DOMAIN bound : bound[r].key = r

\* A list built by the SDK, today's or an earlier one, is enough: the handler
\* finds every account it asks for and none too many, and each account it
\* writes is writable and each it wants signed is signed, through the handlers
\* it calls and the token transfers they make.
BuiltListServes == outcome \notin {"missing", "surplus", "denied"}

\* Whoever calls an instruction with a list of the SDK gets it served with the
\* accounts that were meant.
AccountsServe == BindsItsAccounts /\ BuiltListServes
=============================================================================
