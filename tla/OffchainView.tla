---------------------------- MODULE OffchainView ----------------------------
(***************************************************************************)
(* sdk/src/offchain_utils.rs beside a running market: a client reads the   *)
(* program's accounts, asks for the slot, brings its copies of the reserves *)
(* up to it and values the obligations with a second implementation of     *)
(* process_refresh_obligation, the way examples/jito.rs does.  The clock   *)
(* moves on between the two requests, and the slot may come from a node    *)
(* that is behind the one that served the accounts.                        *)
(***************************************************************************)
EXTENDS LendingMarket

CONSTANT PriceTables   \* the tables of prices a client may pass, by oracle key

VARIABLE view          \* the client's copies, and how far it has come

\* prices: HashMap<Pubkey, Option<Decimal>>; an oracle a reserve does not have is the null key
OracleKeys == {"pyth", "switchboard", "null"}

ASSUME PriceTablesAssumption ==
    \A prices \in PriceTables : /\ DOMAIN prices = OracleKeys
                                /\ \A k \in OracleKeys : prices[k] \in SUBSET Nat
                                                         /\ Cardinality(prices[k]) <= 1

NoView == [phase |-> "none"]

viewVars == <<vars, view>>

ViewInit == Init /\ view = NoView

-----------------------------------------------------------------------------
(* get_solend_accounts_as_map: one answer of get_program_accounts.  What   *)
(* does not unpack is left out, and so is an obligation that owes nothing. *)

ReserveAccount(r) ==
    [config |-> config[r], oracles |-> oracles[r], reserve |-> reserve[r],
     update |-> reserve_update[r]]

\* mutant: reserves that are due for a refresh are left out
GetFreshAccounts ==
    /\ view = NoView
    /\ view' = [phase |-> "read",
                reserves |-> [r \in {r \in live : ~reserve_update[r].stale} |-> ReserveAccount(r)],
                obligations |-> [o \in {o \in open : obligation[o].borrows # <<>>} |->
                                    obligation[o]]]
    /\ UNCHANGED vars

GetSolendAccountsAsMap ==
    /\ view = NoView
    /\ view' = [phase |-> "read",
                reserves |-> [r \in live |-> ReserveAccount(r)],
                obligations |-> [o \in {o \in open : obligation[o].borrows # <<>>} |->
                                    obligation[o]]]
    /\ UNCHANGED vars

-----------------------------------------------------------------------------
(* Bringing a copy of a reserve to slot s.  A client that drops the error, *)
(* as the example does, goes on with the copy as it was left.              *)

OffchainRefreshReserveInterest(a, s) ==
    LET accrued == IF s < a.update.slot THEN {}
                   ELSE AccrueInterest(a.config, a.reserve, s - a.update.slot)
    IN  IF accrued = {} THEN a
        ELSE [a EXCEPT !.reserve = CHOOSE res \in accrued : TRUE,
                       !.update = [slot |-> s, stale |-> FALSE]]

\* a null Pyth key with a price of its own hides the Switchboard price
OffchainPrice(a, prices) ==
    LET pyth == IF a.oracles.pyth THEN "pyth" ELSE "null"
        switchboard == IF a.oracles.switchboard THEN "switchboard" ELSE "null"
        Of(key) == IF key = "null" THEN {} ELSE prices[key]
    IN  IF prices[pyth] # {} THEN Of(pyth) ELSE Of(switchboard)

\* offchain_refresh_reserve: the price is stored before interest can fail;
\* smoothed_market_price is left alone
OffchainRefreshReserve(a, s, prices) ==
    LET found == OffchainPrice(a, prices)
    IN  IF found = {} THEN a
        ELSE OffchainRefreshReserveInterest(
                 [a EXCEPT !.reserve.market_price = CHOOSE p \in found : TRUE], s)

\* given: the table of prices, if there was one.  The accounts as they were
\* read, and what they were refreshed with, are kept beside the copies.
Refreshed(s, given, copies) ==
    /\ view.phase = "read"
    /\ view' = [phase |-> "refreshed",
                read |-> [slot |-> s, prices |-> given, reserves |-> view.reserves,
                          obligations |-> view.obligations],
                reserves |-> copies,
                obligations |-> view.obligations]
    /\ UNCHANGED vars

RefreshInterest(s) ==
    Refreshed(s, {}, [r \in DOMAIN view.reserves |->
                         OffchainRefreshReserveInterest(view.reserves[r], s)])

RefreshPrices(s, prices) ==
    Refreshed(s, {prices}, [r \in DOMAIN view.reserves |->
                               OffchainRefreshReserve(view.reserves[r], s, prices)])

-----------------------------------------------------------------------------
(* offchain_refresh_obligation: both loops without the caps, the bounds,   *)
(* the swap and the removals; max_borrow_weight is computed and not used.  *)

\* the lookups and the interest of a debt; otherwise the example panics
OffchainCanValue(ob, reserves) ==
    /\ DepositReserves(ob) \cup BorrowReserves(ob) \subseteq DOMAIN reserves
    /\ \A r \in DepositReserves(ob) : HasExchangeRate(reserves[r].reserve)
    /\ \A i \in DOMAIN ob.borrows :
          CanAccrue(ob.borrows[i],
                    reserves[ob.borrows[i].borrow_reserve].reserve.cumulative_borrow_rate_wads)

\* mutant: debts are valued as recorded, without the interest since
OldDebt(b, res) == [b EXCEPT !.market_value = MarketValue(res, b.borrowed_amount_wads)]

OffchainDebt(b, res) ==
    LET accrued == AccrueBorrow(b, res.cumulative_borrow_rate_wads)
    IN  [accrued EXCEPT !.market_value = MarketValue(res, accrued.borrowed_amount_wads)]

OffchainRefreshedObligation(ob, reserves) ==
    LET Res(r)   == reserves[r].reserve
        Value(d) == MarketValue(Res(d.deposit_reserve),
                                DepositLiquidityAmount(d, Res(d.deposit_reserve)))
        Share(d, field) == DecMul(Value(d), FromPercent(reserves[d.deposit_reserve].config[field]))
        borrows == [i \in DOMAIN ob.borrows |->
                       OffchainDebt(ob.borrows[i], Res(ob.borrows[i].borrow_reserve))]
        Weighted(b) == DecMul(b.market_value, BorrowWeight(reserves[b.borrow_reserve].config))
    IN  [ob EXCEPT
            !.deposits = [i \in DOMAIN @ |-> [@[i] EXCEPT !.market_value = Value(ob.deposits[i])]],
            !.borrows = borrows,
            !.deposited_value = SumOver(ob.deposits, Value),
            !.borrowed_value = SumOver(borrows, Weighted),
            !.unhealthy_borrow_value =
                SumOver(ob.deposits, LAMBDA d : Share(d, "liquidation_threshold")),
            !.super_unhealthy_borrow_value =
                SumOver(ob.deposits, LAMBDA d : Share(d, "max_liquidation_threshold"))]

RefreshObligations ==
    /\ view.phase = "refreshed"
    /\ view' = IF \A o \in DOMAIN view.obligations :
                     OffchainCanValue(view.obligations[o], view.reserves)
               THEN [view EXCEPT
                        !.phase = "valued",
                        !.obligations = [o \in DOMAIN @ |->
                                            OffchainRefreshedObligation(@[o], view.reserves)]]
               ELSE [phase |-> "panicked"]
    /\ UNCHANGED vars

\* the client is done with its copies and may start over
Forget ==
    /\ view.phase \in {"valued", "panicked"}
    /\ view' = NoView
    /\ UNCHANGED vars

\* Instructions of the market, whoever sends them.  Of what happens after the
\* accounts were read the client sees the clock only, and after that nothing.
MarketStep ==
    /\ \/ view = NoView /\ Next
       \/ view.phase = "read" /\ Tick
    /\ UNCHANGED view

ViewNext ==
    \/ MarketStep
    \/ GetSolendAccountsAsMap
    \/ \E s \in 1..slot :
          RefreshInterest(s) \/ \E prices \in PriceTables : RefreshPrices(s, prices)
    \/ RefreshObligations
    \/ Forget

ViewSpec == ViewInit /\ [][ViewNext]_viewVars

-----------------------------------------------------------------------------
(* Properties.                                                             *)

\* The copies are of live reserves, and of obligations that owe something.
ViewTypeOK ==
    /\ view.phase \in {"none", "read", "refreshed", "valued", "panicked"}
    /\ view.phase \in {"read", "refreshed", "valued"} =>
          /\ DOMAIN view.reserves \subseteq live
          /\ DOMAIN view.obligations \subseteq open
          /\ \A o \in DOMAIN view.obligations : view.obligations[o].borrows # <<>>

(***************************************************************************)
(* Whatever slot the client is told, and whatever happened on chain before *)
(* it read, its copies can be valued: every reserve a debt names is there, *)
(* none is behind the debt's recorded rate, and no exchange rate fails.    *)
(* offchain_refresh_obligation unwraps the one, examples/jito.rs the rest. *)
(***************************************************************************)
RefreshNeverPanics == view.phase # "panicked"

(* What the program makes of the accounts as they were read, worked out    *)
(* with its own operators and from nothing the client has computed.        *)

\* get_price: Pyth's price, or Switchboard's when Pyth has none; the price on
\* record when the client was given no table
ProgramPrice(a, given) ==
    IF given = {} THEN {a.reserve.market_price}
    ELSE UNION {IF a.oracles.pyth /\ prices["pyth"] # {} THEN prices["pyth"]
                ELSE IF a.oracles.switchboard THEN prices["switchboard"] ELSE {} : prices \in given}

\* process_refresh_reserve in the slot the client was told, or in that of the
\* last update when that is later: the clock of the program does not go back
ProgramReserve(a, read) ==
    {[res EXCEPT !.market_price = p] :
        res \in AccrueInterest(a.config, a.reserve, MaxOf(read.slot, a.update.slot) - a.update.slot),
        p \in ProgramPrice(a, read.prices)}

\* a price under the null key hides Switchboard's from the client alone
Hidden(a, given) == ~a.oracles.pyth /\ \E prices \in given : prices["null"] # {}

(***************************************************************************)
(* The client foretells what process_refresh_reserve followed by           *)
(* process_refresh_obligation record: whenever the program can refresh the *)
(* reserves of an obligation as the client read them, it gives deposits    *)
(* and debts the worth the client has computed, and the two thresholds     *)
(* differ only by the program's global cap.  A slot from a node that lags  *)
(* behind the accounts is no excuse: the copy counts as of its last update.*)
(***************************************************************************)
ViewForetellsRefresh ==
    view.phase = "valued" =>
        \A o \in DOMAIN view.obligations :
            LET seen    == view.read.obligations[o]
                named   == DepositReserves(seen) \cup BorrowReserves(seen)
                account == view.read.reserves
                program == RefreshedObligation(
                               seen,
                               [r \in named |-> CHOOSE res \in ProgramReserve(account[r], view.read) : TRUE],
                               [r \in named |-> account[r].config])
                mine    == view.obligations[o]
                cap     == FromU64(GlobalUnhealthyBorrowValue)
            IN  (\A r \in named : /\ ProgramReserve(account[r], view.read) # {}
                                   /\ ~Hidden(account[r], view.read.prices)) =>
                    /\ program.deposited_value = mine.deposited_value
                    /\ program.borrowed_value = mine.borrowed_value
                    /\ program.unhealthy_borrow_value = MinOf(mine.unhealthy_borrow_value, cap)
                    /\ program.super_unhealthy_borrow_value =
                           MinOf(mine.super_unhealthy_borrow_value, cap)
=============================================================================
