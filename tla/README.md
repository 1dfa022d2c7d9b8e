# A TLA+ model of the Solend lending program

The repository holds an on-chain lending program (`token-lending/program`), the
state, arithmetic and instruction formats it is built on (`token-lending/sdk`),
and a command line client (`token-lending/cli`). This directory models them: the
program's state with one action per instruction and the fixed-point arithmetic
with its roundings, the oracles it reads, the transactions that flash loans live
in, the formats its clients and its earlier releases share with it, and the
clients that read, wait and send.

## Inventory

| Component | State | Operations | What makes it correct |
| --- | --- | --- | --- |
| Decimal, Rate (`sdk/src/math`) | none | scaled +, *, /, floor, ceil, round, try_pow | rounds the way the callers assume |
| Rate limiter (`state/rate_limiter.rs`) | config, window_start, prev_qty, cur_qty | new, `_update`, `current_outflow`, `remaining_outflow`, `update` | counters are the outflow of two windows; outflow over a window's length is bounded; time never tightens |
| Reserve (`state/reserve.rs`) | available, borrowed and fee amounts, cumulative rate, two prices, mint supply, config, limiter, last_update | deposit, redeem, borrow, repay, forgive, accrue, redeem fees | books agree with token accounts, collateral tokens never lose value, the supply covers the fees up to a truncation |
| Obligation (`state/obligation.rs`) | ordered deposits and borrows, six recorded values, isolated flag, last_update | find-or-add, withdraw, repay, accrue, limits | lists fit the account, recorded values are of this slot when used, debts are never ahead of the reserve |
| Liquidation (`state/reserve.rs`) | none | bonus, amounts, protocol fee | liquidator earns no more than the bonus |
| Market (`state/lending_market.rs`) | owner, risk authority, liquidator, limiter | init, set owner and config | signers change only what they may |
| Processor (`program/src/processor.rs`) | all of the above and the SPL token balances | 21 live instructions | all of the above, composed |
| Oracles (`sdk/src/oracles.rs`, `get_price`) | external feeds; a reserve's two prices and its feeds' keys | read Pyth, fall back to Switchboard 1 or 2, convert | a reserve in use is priced by a feed it has now, recently, with the published number |
| Flash loans (`processor.rs`) | the instruction list of a transaction | borrow, repay, the scan that pairs them | a loan is atomic: repaid with its fee or never made |
| Instruction data (`sdk/src/instruction.rs`) | none | pack, unpack | bytes have one reading, the one that was sent |
| Account lists (`sdk/src/instruction.rs`, handlers' prologues) | none | 22 builders, 21 readers | every account gets the role and privilege it was built for |
| Account bytes (`pack_into_slice`, `unpack_from_slice`) | market, reserve, obligation, limiter | load, save, load what an earlier release saved | what is loaded is what was saved; positions fit |
| Off-chain helpers (`sdk/src/offchain_utils.rs`) | a client's copies | download, refresh interest, prices, obligations | foretells what the program's refresh records; finds every reserve |
| Command line client (`cli/src/main.rs`, `lending_state.rs`) | a command between its reads and its transactions | update-reserve, set-lending-market-owner-and-config, add-reserve, liquidate, withdraw, redeem | an update changes what it names; a failed command can be run again; positions are acted on as read |
| Market metadata, errors, brick | - | - | see Not modelled |

Interaction: every instruction is an atomic transition over the accounts it is
given. Instructions of different users interleave freely, several of them run in
one transaction (flash borrow, anything, flash repay), and time passes between
transactions only. An instruction that fails is rolled back with its transaction,
so in `LendingMarket` an error path is a disabled action; `FlashTransaction` runs
transactions instruction by instruction and models the roll-back itself. What is
hard in the program is cached values (prices, obligation values, flags) and their
staleness, the order of sub-steps in a handler that unpacks and packs the same
account several times, rounding in every direction, boundaries of windows, lists
and widths, and sequences of legal calls nobody tried. Clients add concurrency
and failure: a command reads accounts, then sends transactions that land later,
in any order with those of others, or never, and the process may be stopped in
between. `PROJECT.json`, "hazards", lists them line by line with the properties
that would catch them.

## Modules

| Module | Models | Notes |
| --- | --- | --- |
| `WadMath` | `math/decimal.rs`, `math/rate.rs` | `Decimal` is an integer scaled by `WAD`; truncations as in the code |
| `RateLimiter` | `state/rate_limiter.rs` | operators on limiter records |
| `OutflowLimit` | one limiter in use | `slot`, `limiter`, and the history `meter` |
| `Reserve` | `state/reserve.rs` | operators on reserve records and configurations |
| `Obligation` | `state/obligation.rs`, valuation loop of `process_refresh_obligation` | position lists are sequences |
| `Liquidation` | `calculate_bonus`, `calculate_liquidation` | |
| `LendingMarket` | `processor.rs`, `last_update.rs`, `lending_market.rs` | composes all of the above; one action per instruction |
| `FlashLoan` | - | abstract specification: a loan is one step that leaves only its fee |
| `FlashTransaction` | flash borrow and repay, `is_cpi_call`, the runtime | implements `FlashLoan` under `LoansAreAtomic` |
| `PriceFeed` | `oracles.rs`, `get_price`, price part of init, refresh and config update | feeds publish and fall silent; history of where a price came from |
| `OffchainView` | `offchain_utils.rs`, `examples/jito.rs` | EXTENDS `LendingMarket`: a client beside a running market |
| `InstructionCodec` | `LendingInstruction::pack`, `unpack`, metadata blob | two field lists, a transport that cuts, lengthens or alters |
| `InstructionAccounts` | builders, handlers' account reading | accounts by role, with privileges |
| `StoredAccounts` | packing of market, reserve, obligation, limiter | one account through a series of handlers |
| `AdminClient` | update-reserve, set-lending-market-owner-and-config | several administrators |
| `SetupClient` | add-reserve | three transactions, expiry, interruption, retry |
| `PositionClient` | liquidate-obligation, withdraw-collateral, redeem-collateral | several commands while others change the positions |
| `MCFormats` | `process_instruction` | composes codec, account lists and stored accounts |
| `CommandLine` | `main` of the client | composes the three groups of commands |
| `MCOutflowLimit`, `MCLendingMarket`, `MCFlashTransaction`, `MCPriceFeed`, `MCOffchainView`, `MCInstructionCodec`, `MCAdminClient`, `MCCommandLine` | - | values of the constants for TLC |
| `ReserveProofs` | - | lemmas on the arithmetic, limiter and reserve operators |
| `OutflowLimitProofs`, `PriceFeedProofs`, `FlashTransactionProofs`, `StoredAccountsProofs`, `CommandLineProofs` | - | theorems on one component each |
| `LendingMarketProofs` | - | lemmas on obligations; theorems on the market: types, freshness, the vault, position lists, debts against their reserves |
| `MarketBooksProofs` | - | EXTENDS `LendingMarketProofs` and `OffchainView`: the books across accounts, stopped reserves, the client's copies |

`LendingMarket` keeps one function per account type, indexed by reserve or
obligation: `reserve`, `config`, `oracles`, `reserve_update` (the reserve's
`last_update`), `reserve_limiter`, `obligation`, `obligation_update`; `market`;
`token`, the SPL balances of a reserve (vault, fee receiver, collateral mint and
supply, and one balance each for everybody else's liquidity and collateral);
`live` and `open`, the initialised accounts; and `flash`, the loan of the current
transaction. `price_slot` is a history variable: the slot of the last oracle read.
An action has the name of its handler. Calculations that may fail return a set,
empty for `Err`; `\E x \in F(..)` then reads as `let x = f(..)?`.

Abstractions. Checks that tie accounts to each other (owner, mint, derived
authority) hold by the indexing. Signers are kept where handlers distinguish
them (market owner, risk authority, `solend_market_owner`, whitelisted
liquidator). All users share one token balance: a user can be short of tokens only
when all are. `mint_decimals` is 0, so a price is per smallest unit. In
`LendingMarket` a price reading is a member of a given set, or absent; how it is
chosen and converted is `PriceFeed`'s subject. Likewise `flash` assumes that a
borrow is followed by its repayment, which is what `FlashTransaction` shows. The
widths of 192- and 128-bit intermediates are not bounded, those of packed fields
are (`PackReserve`, `PackObligation`, `SetToken`). `SLOTS_PER_YEAR` and the caps of
`process_refresh_obligation` are constants, so that small numbers show their effect.

`FlashTransaction`. `tx` is the instructions sysvar, `pc` the instruction that runs
next, `reserve` and `token` what the transaction sees, `ledger` what was last
committed. `FindsRepay` is the borrow's loop over the later instructions,
`FindsBorrow` the repayment's check of the index it names. A foreign program's
instruction may call the lending program; the sysvar then shows the foreign one,
and `IsCpiCall` turns both flash instructions away.

`PriceFeed`. A Pyth feed publishes price, confidence and moving average with an
exponent of either sign, Switchboard feeds a price; `GetPrice` asks Pyth first.
`SetSmoothed` is the part of `_refresh_reserve` that keeps an old average when
Switchboard stands in for a configured Pyth feed.

`StoredAccounts`. The bytes of a field are one slot, and the two `array_refs!` lists
are two sequences of names; an account of an earlier release ends in zeros. The
positions of an obligation are written by offset, a deposit being shorter than a
borrow as it is in bytes (88 and 112), into a region that is never cleared. `InstructionCodec` scales the widths
(two bytes for a u64, three for a key) and keeps order, types and what a reader
does with too few bytes. `InstructionAccounts` names an account by its role.

Clients. `AdminClient` keeps a transaction as the whole account it would write, with
the settings others changed since the read (`missed`). `SetupClient` keeps the
messages under way; `Interrupt` stops the process while one of them may still
land. An update resets two settings nobody named: the reserve type, whose option has a
default, and the market's whitelisted liquidator when it is left out (`Defaults`).
`PositionClient` keeps what a command read of the obligation and of the reserves. Which
reserves are fresh, and which can pay, when its transaction lands is up to others
(`Arrivals`); a command counts as servable (`Servable`) on the positions and with the token
accounts there are when it starts, and what others do to them excuses a failure. The three groups share no account, so `CommandLine` picks one per
behaviour.

Types. Each module's `TypeOK` documents its variables. The market's is checked
(`pool`) and proved, the limiter's proved.

## Runs

All bounds are in the `.cfg` files. The scale is 1000 wads to one (10 for the
limiter and the feeds, 100 for the clients), to stay within TLC's integers. The two
`admin` runs, which compare percents with basis points, have the code's 100 and 10000 to one;
in the others a basis point is a thousandth (a hundredth for the clients), and nothing they
check compares the two. `U64_MAX` is small, so that the sentinel "as much as possible" and overflows of the packed
fields occur.

| Run | Question | Bounds |
| --- | --- | --- |
| `outflow_limit` | Does one limiter keep its promise whatever the gaps and boundaries? | 9 slots, windows of 1 and 3 slots and a disabled limiter, 4 quantities and "all that is left": three window boundaries are crossed |
| `outflow_doc` | Is the comment's strict bound true? (no) | the same |
| `pool` | Do the books agree with the tokens, do depositors lose nothing, and can the protocol's fees exceed what a reserve has? | 1 reserve of 5 tokens, most of them lent out at rates that make fees of whole tokens, 1 obligation, 3 slots, market limiter on; one configuration with deposits, flash loans and a fee on borrowing of which the host gets a part, one without any of them; all collateral withdrawn, redeemed one by one or liquidated, bad debt forgiven; the close factor is 55% |
| `positions` | Can an obligation be used on old values, or left unhealthy? | 2 reserves (regular, isolated), moving average above the price, 2 slots |
| `liquidation` | Who is liquidated, in what order, for how much, and what if the seized collateral cannot be redeemed? | 2 reserves of different weight, a price that grows fourfold, obligations of up to 3 positions with two debts, liquidated in parts, a flash loan that empties a reserve, bad debt forgiven, 2 slots; the close factor is 55% (20% in the code), so that two calls close a debt |
| `admin` | Can an administrator's step break the stop of outflows? | 2 keys in all roles, 2 configurations, 2 limiters, oracle fallback |
| `admin_config` | Does a stored configuration stay valid? (no) | the same: one configuration with a bonus of 24% and a fee of 0.1%, one with 10% and 1.2% |
| `flash_transaction` | Can a loan escape its repayment, and is an honest one served? | all transactions of up to 3 instructions out of 14 kinds, in which every mismatch of reserve, amount, index and program occurs, and of 4 in which borrows and repayments point at each other in every way; 2 reserves, one without flash loans |
| `price_feed` | Which feed does a usable price come from, and is it the published number? | 4 feeds, two readings each (too uncertain, too large, negative included), 3 slots with an age limit of 1 |
| `offchain_view` | Do compounding, partial repayment and fee redemption fit together, and does a client compute what the program would? | 1 reserve with either oracle or both, 3 slots (two compounding periods), borrows of 3, a snapshot, a slot that may be older or newer, three tables of prices |
| `formats` | Does the program understand what the SDK sends and what earlier releases stored? | every instruction with its fields set one at a time, every cut, one byte more, every altered byte; every builder's list with and without clock, host and Switchboard accounts, up to 2 deposits and 2 borrows; reserves of every earlier length, obligations of 3 positions in 3 reserves |
| `command_line` | What can concurrent, failing and repeated commands do? | 2 administrators of 2 commands out of 14; 3 runs of add-reserve with lamports for two; 3 commands on an obligation with a reserve on both sides and an empty deposit, some or all token accounts, 2 steps of others, reserves fresh and able to pay or not |

Between them the passing runs fire every action. Deadlock is checked everywhere but
in `command_line`, where clients stop after their last command. For every property a mutant of the code (an operator marked `mutant:` in the modules)
violates it under the same bounds.

What the properties of several parts mean: `AllowanceSound` (limiter) is
`NeverOverdrawn` and `QuietPeriodRestores`; `BooksBalance` is `VaultMatchesAvailable` and
`CollateralConserved`; `PositionsSound` is `PositionsFit` and `HeaviestDebtFirst`;
`LoansComplete` is `LoanReturned` and `HonestLoanServed`; `AccountsServe` is
`BindsItsAccounts` and `BuiltListServes`; `AccountsSurvive` is `LoadsWhatWasSaved` and
`PositionsAlwaysSave`; `UpdatesContained` is `OnlyNamedOrMissed`,
`FeesSetBySolendOnly` and `PythFeedNotReverted`; `RetryIsSafe` is `NoApprovalLeft`,
`BalanceSuffices` and `ReportIsFinal`.

`RoundingSlack` is the number of wads a truncated exchange rate or ratio may move
between parties in one step. In `pool` it is a fortieth of a token: an exchange rate of 1/5,
truncated at 1/1000, prices a supply of 5 tokens up to 25 wads too high. The mutant roundings
move a whole token. In `liquidation` it is a tenth of a token, since a ratio truncated
at 1/1000 is multiplied by 80 tokens.

`SupplyCoversFees` needs no such number: it bounds what a redemption may
overdraw by the supply and the exchange rate before it, and lets nothing else overdraw.

`ViewForetellsRefresh` compares the client's values with those the program's own operators
give for the accounts as they were downloaded (`view.read`), the slot and the prices it was
told; nothing the client computed goes into the other side.

Refinement. `LoansAreAtomic` is the specification of `FlashLoan` with its variables read
off the ledger: `vault` is the supply account, `lent` the borrowed amount, `fees` what
the two fee accounts hold. A commit maps to one loan or to a stutter, every other
step to a stutter.

Fairness. Users never have to act, so the market has none. `FlashTransaction` assumes
weak fairness of the runtime's steps only: a transaction that was started is
executed to its end or rolled back. `command_line` assumes weak fairness of
delivery: a message under way lands or expires, since its blockhash is valid for a
limited number of slots. Under the first, liquidity that a loan takes out returns and
an honest loan is committed (`LoansComplete`); under the second a run of add-reserve
ends (`RunEnds`).

Findings. `outflow_doc`: the limiter's comment promises less than twice
`max_outflow` over the closed range of W + 1 slots; two full windows, each spent
in its last slot, reach exactly twice. Over any W consecutive slots it is
strictly less (`WindowSpanBelowDouble`), and at most twice is proved.
`admin_config`: `solend_market_owner`'s update takes the fee fields of a
validated configuration and keeps the other fields of the stored one, which together need not
pass `validate_reserve_config`: a stored bonus of 24% and a new fee of 1.2% come to 25.2%,
above the 25% allowed. A stored bonus of 21% to 25% can be exceeded in this way; the bonus
actually paid stays capped.

Observations. Behaviour the models carry that a maintainer may want to know of:

- A negative Switchboard version 1 result is cast to u128, which saturates: the price
  becomes 0 (`processor.rs`:3029). Version 2 refuses it. `PriceIsPublished` says so.
- update-reserve's option reserve-type has a default (`main.rs`:982): leaving it out
  turns an isolated reserve into a regular one. set-lending-market-owner-and-config
  without a whitelisted liquidator clears the one there is (`main.rs`:1218, 1834), while
  the owner and the limiter keep theirs. `OnlyNamedOrMissed` has to except both.
- A redemption pays by an exchange rate truncated to 18 digits, so the last collateral can be
  paid a few wads more than the supply less the fees (`SupplyCoversFees` says how many).
  `total_supply` then fails (`reserve.rs`:622), and with it deposits and, from the next slot
  on, everything that accrues interest on that reserve, repayments included.
- redeem-collateral sends its instruction without a refresh (`main.rs`:1402), and the program
  refuses a reserve that was not refreshed in the current slot (`processor.rs`:795). By
  itself the command fails; it works only when somebody else happens to refresh the
  reserve in the slot it lands in. Deposits and repayments refresh the interest themselves,
  and the commands on obligations send the refreshes they need.
- `get_or_create_associated_token_address` names the associated token program where the
  token program is expected (`main.rs`:2295), so that creating a missing account fails and
  the command ends there; the comment at `main.rs`:1517 says the accounts are created.
- The documented account lists of RedeemReserveCollateral and BorrowObligationLiquidity
  mark the lending market read-only (`instruction.rs`:139, 229); the handlers write
  it, and the builders mark it writable. The mutant of `AccountsServe` is the
  documented list.
- UpdateReserveConfig is documented to take a refreshed reserve (`instruction.rs`:384) and
  does not check it: a new rate curve is applied to the slots since the last refresh.
- add-reserve gives the first collateral tokens to an account owned by a keypair it makes
  and forgets (`main.rs`:1609): nobody can redeem the first deposit.

## Proofs

A few of the proofs take minutes: `LendingMarketProofs` and `MarketBooksProofs` about six each,
the others less than three together.

`OutflowLimitProofs` proves, for every scale, window, limit, set of quantities and
clock bound: `LimiterTyped`, `WindowsBounded`, `CountersMatchHistory` and
`AtMostDouble`. The inductive invariant `IndInv` adds to the types that the meter
is monotone, that the window is aligned to a multiple of its length and not in
the future, that nothing was admitted after it (`NothingSince`: `_update` runs
only with an outflow, so the limiter may lag behind the clock), and the counters
read at the present slot. `SlideCases` is the lemma on `_update`'s three cases,
`DivBounds` and `MultipleStep` the arithmetic of flooring to a window. The bound
of each window uses that `current_outflow` is at least `cur_qty`, whatever the
truncated weight of the other window; the bound of the closed range that it lies
within two windows.

`LendingMarketProofs` proves `PricesAreFresh` for every market: over all
instructions, a reserve not marked stale was priced in the slot of its last
update. The invariant adds that no update is from the future. The argument has
one step per action: a handler that runs the lite refresh marks the reserve stale
again, except the liquidation of a reserve with nothing available; there the
guard (the reserve was fresh on entry) carries the price over.

`MarketTyped` proves the type invariant over all instructions. Packed accounts
are typed by the packing check; what needs an argument is what is not packed
afterwards: both rate limiters, which `RateLimiterUpdate` keeps typed only when
charged with a natural number. `ReserveProofs` follows the amounts through
`calculate_fees`, `calculate_borrow`, `max_withdraw_amount` and the exchange rate.

`VaultExact` proves `VaultMatchesAvailable`. The invariant adds the types and
`IdleEmpty`: a reserve not yet initialised has nothing available, since
`init_reserve` starts its books afresh, and a flash loan is out of an initialised
reserve. Interest leaves the available liquidity alone
(`InterestKeepsAvailable`); every other flow moves the same number of tokens on
the books and in the vault. It is not the same expression in two places: a
borrow takes `floor(borrow_amount)` off the books and pays out a host fee, an
owner's fee and the received amount (`BorrowSplit`: they add up, on both
branches of `calculate_borrow`), and a flash loan takes the floor of a whole number
of wads (`FloorOfWhole`). A liquidation may repay into the vault it redeems from
(`LiquidateVault`).

`AllowanceAlwaysSound`, `TimeOnlyRelaxes` and `SpanBelowDouble` are about what
`remaining_outflow` reports. The lemma under all three is `OutflowFalls`: the limiter
slid to the next slot counts no more than the one slid to this slot. Inside a window the
truncated weight of the previous window falls; at a boundary what was counted in full
becomes a part, and `_update`'s three cases agree with each other one slot apart
(`SlideOn`). `NeverOverdrawn` is inductive with it. The strict bound over W slots
follows: two full windows would need a weight of zero while part of the first is still
in the span. That can only happen for windows longer than WAD slots, where the
truncation makes the weight zero too early; the theorem's hypothesis excludes them
(10^18 slots take more than ten thousand million years).

`ObligationsAreFresh` proves `ObligationFresh`. Its invariant adds the freshness of
reserves, and that no update of an obligation is from the future. A refresh is the only
step that makes an obligation fresh, and it requires every reserve to be fresh; no
instruction moves `price_slot` back, and `init_reserve` cannot meet a reserve that
is already used.

In `MarketBooksProofs`, `CollateralIsConserved` and `BooksAlwaysBalance` sum over the deposits of every
obligation. `SumOver` over a list is a sum over its positions (`HeldIsSum`), a deposit or
withdrawal changes it by the amount moved, also when it adds or removes an entry
(`DepositHeld`, `WithdrawHeld`), and the deposits a refresh drops are empty
(`RefreshHeld`). Each action is then reduced to three numbers: what the obligations
gain, what the supply account receives and what the mint issues (`Gains`,
`Receives`, `Mints`). The invariant adds that an obligation not yet created holds
nothing.

`PositionsAlwaysFit` proves that the lists fit the account. What makes it inductive is that
there is a place no borrow ever takes: without it a full list of borrows whose last
deposit was withdrawn would not fit the 88 bytes of the first position.
`HeaviestStaysFirst` and `IsolatedStaysAlone` hold under a stated condition, an action
formula over all steps: no reserve in use changes its weight, or its tier. Without it
they are false, because a change of configuration marks the reserve and not the
obligations stale; the runs that check the two properties have no such change either.
`IsolatedStaysAlone` rests on `borrowing_isolated_asset`, which only a refresh computes:
the invariant says that it is right in an obligation that is fresh.

`DebtsCanAccrue` proves `DebtRateBehindReserve`. A reserve's cumulative rate never falls,
for every curve that `validate_reserve_config` admits (`CurveOrdered`), every
utilization and every number of slots: `Rate::try_pow` of a rate of at least one is at
least one, whatever its squarings truncate (`PowAtLeastOne`, by induction on the passes
of the loop). Debts are only dated with a rate their reserve has had (`Dated`).

`DebtsAlwaysMatch` proves `DebtsMatchReserve` along the lines of `CollateralIsConserved`,
with debts for deposits. A debt counts in its reserve as of the rate it is dated with, and
the property is about reserves whose rate is still one; so the invariant (`RatesInv`) adds
that a live reserve's rate is at least one and every debt is dated between one and that
rate. At rate one no debt has interest to accrue, and what a borrow, a repayment, a
liquidation or a forgiven debt books in the obligation it books in the reserve
(`BooksDebt`); above one nothing is claimed, and no step comes back to one. A repayment
takes off the lesser of the amount and what the reserve records, which is no less because
the debts are part of it.

`StoppedMeansStopped` proves `StoppedReserveKeepsLiquidity`. Every outflow that is not
excepted is charged to the reserve's limiter with a positive amount (`BorrowCharges` and
its like: the amounts are followed through the calculations), and a limiter whose
maximum is zero admits none (`RateLimiterAllows` reads a counter of zero or more). The
invariant (`LimitersInv`) is that the window of an enabled limiter starts at a multiple of
its length and not after the current slot, so that the weight of the previous window is
not negative.

`ViewNeverPanics` is about `OffchainView`: a client that downloads the accounts and refreshes
its copies while the market goes on. The invariant (`ViewInv`) holds the market's debt
invariant and that obligations hold collateral of live reserves only; of the copies, that
they have every reserve the copied obligations name, with debts not ahead of them, which
`offchain_refresh_interest` keeps because rates do not fall. The hypothesis
`[]ExchangeRatesUsable` says that the exchange rates of the refreshed copies can be computed
within their 128 bits. It is needed: a reserve of very many collateral tokens and very
little liquidity has none, and then the program fails to refresh the obligation as well. In the run
`offchain_view` it holds throughout.

`LoansAreSecured` and `FlashImplementsAtomicLoans`: a transaction is in one of three
phases (no loan, loan out, loan back: `FlashPhases`). While a loan is out the one
repayment the borrow found is still to come and nothing between can borrow again, so
the transaction either reaches it or is rolled back; a commit is then one step of
`FlashLoan`, or none.

`AlwaysPricedByOracle`, `SmoothedAlwaysBelongs` and `PricesArePublished` are one
inductive invariant with the types. The arithmetic is in `PriceAnswered`: whichever
reader answered, the price stands for the publication (`Stands`), for any exponent,
scale and float; version 1 needs that PRICE_QUOTIENT divides WAD.

`SavedIsLoaded` and `UpgradesAreOrdered` are one invariant of `StoredAccounts`, `AccountInv`: what
the bytes unpack to is what was last meant, and that is something the program works with (a
reserve whose pairs are in order; a market with a risk authority and, if it has one, a
liquidator that is not the null key; an obligation whose positions fit). The lemmas
`UnpackPackReserve`, `UnpackPackMarket` and `UnpackPackObligation` say that unpacking undoes
packing for such an account, over whatever the bytes held before: fields by the equality of the
two orders (`ReadWritten`), the repairs of `unpack_from_slice` because they change nothing
that is in order, positions because no two of them write the same cell (`PlacesApart`).
That the lists fit uses that a borrow is added to a list only beside a deposit
(`RoomFits`, `BorrowHandler`). An account of an earlier release is in order once it is unpacked
(`UnpackOrder`, `UnpackedMarket`).

The theorems of `CommandLineProofs` are about `CommandLineSpec`; a step of another group of
commands is a stutter of the one a theorem is about.

`UpdatesAreContained` is an action property of `AdminClient`. The invariant (`ClientInv`) is about every
transaction under way: for every setting it would write, it writes what the account holds
now, or the command names the setting, or somebody changed it since the read, or it resets
the reserve type or the whitelisted liquidator. The program's own rules give the rest: fees are taken from a transaction of
`solend_market_owner` only, and a Pyth feed needs the product account.

`RetriesAreSafe` is about `SetupClient`, for every rent, fee, balance and number of runs. What makes
it inductive (`SetupInv`): accounts of runs to come are unused; a message under way is
the one the client waits for or belongs to an interrupted run; a run under way has no reserve yet; and a run
nobody disturbed is on course, that is, the payer holds what the messages still to come
cost, and the accounts of the earlier ones exist. The assumption
(`CommandLineAssumption`) says that `Rent` is given for the six accounts of a run and that
amounts are naturals.

`UndisturbedIsServed` and `ActedOnWhatWasRead` are about `PositionClient`. Both rest on a closed
form of the transaction a client sends (`ExecutedCommand`, by induction on its
instructions): nothing, unless the oracles agree for every reserve listed and the list is the
reserves of the positions as they are when it lands; else the command's own instruction on
the refreshed positions. The second theorem is then the observation that only its own
transaction ends a waiting client with "ok" (`ActsByLanding`). The first needs the invariant
`PositionInv`: a client nobody has disturbed has read what is on the chain, its command can be
served there, and it looks only for token accounts that are there, so that it never comes to
creating one. It finds its reserves among those it read (`ReservesFound`). `ServedCommand` shows that the refresh
which goes before does no harm: dropping empty positions keeps the others in their order
(`RetainedKeeps`), and the heaviest debt is the first one afterwards (`HeaviestFirstList`), which
is the only one a liquidation may repay. The creation of a token account never succeeds,
because its instruction names the wrong program (`CreationFails`), so no client goes on after one.
redeem-collateral refreshes nothing and depends on what it finds: the theorem is about the
landings that find the reserve fresh and able to pay (`CurrentIsServed`); the others fail, in the
model as in the program.

The proofs rest on the modules' assumptions only: scales and widths are naturals, WAD is
positive and divisible by the percents, basis points and the price quotient, inputs
have their widths, there are finitely many obligations, the value for "no flash loan" is
not a loan, a price account is either Pyth's or Switchboard's, keys are not the null key.

Induction over data is done with sets of numbers (`NatSetInduction`: a set that holds
zero and is closed under successor holds every number); it carries the lemmas on
`TryPow`, `Retain`, the sums, and the instructions of a transaction. Only model-checked:

- the temporal properties with fairness (`LoansComplete`, `RunEnds`);
- `ShareValueNeverDrops`, `TakingOutKeepsHealth` and `LiquidatorWithinBonus`: their slack for
  truncations is a number of the instance, and what `TryPow` computes is known from below only;
- `SupplyCoversFees`: a product of amounts, rates and truncated quotients that the provers
  do not get through;
- `ViewForetellsRefresh`: it compares two folds over position lists, of the client and of the
  program;
- `DecodesWhatWasSent`, `OneReading` and `AccountsServe`: recursive readers over byte and account
  lists.

## Not modelled

- Errors: names and texts. A failed instruction changes nothing, whatever its error.
- Brick program: an entrypoint that refuses every instruction.
- Market metadata beyond its encoding and account list: no handler reads it.
- The client's view commands, create-market (one transaction), argument declarations and
  printing.
- The SPL token program, the runtime and the oracle programs, except as the code uses them.
- Checks of account owners, magic numbers and derived addresses, and the 128- and 192-bit
  widths of intermediates.

## Plan

1. Done: limiter; reserve, obligation and liquidation arithmetic; the processor; flash
   transactions and their refinement; oracles; formats; off-chain view; clients; the
   runs and theorems above.
2. Next theorems: a slack for `ShareValueNeverDrops` that is computed from the scale and
   the amounts, so that it can be proved for all of them.
3. Possible extensions: several obligations on one reserve; an abstract pool (shares and
   assets as exact rationals) that a reserve implements up to rounding; `TryPow` against
   its reference definition.
