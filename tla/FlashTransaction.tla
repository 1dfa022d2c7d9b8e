-------------------------- MODULE FlashTransaction --------------------------
(***************************************************************************)
(* A flash loan in the transaction that takes it.  The borrow hands out    *)
(* the tokens because it has read, in the instructions sysvar, that a      *)
(* repayment follows; nothing but this check and the atomicity of the      *)
(* transaction secures the loan.  The module runs whole transactions,      *)
(* instruction by instruction, as the runtime does: any top-level          *)
(* instruction may be the lending program's or a foreign one's, a foreign  *)
(* one may call the lending program, and an instruction that fails undoes  *)
(* the transaction.                                                        *)
(*                                                                         *)
(* Transactions that write the same accounts run one after the other, so   *)
(* one of them is under way at a time, in the slot interest was last       *)
(* accrued in: the interest refresh of the borrow finds nothing to add.    *)
(***************************************************************************)
EXTENDS Reserve, Sequences

CONSTANTS
    Reserves,
    Config,        \* Config[r]: the ReserveConfig of r
    Vault,         \* Vault[r]: available liquidity at first
    WalletSupply,  \* tokens of each mint the user holds at first
    OutsideSupply, \* tokens of each mint in other programs at first
    Transactions   \* the transactions users may submit

Programs == {"lending", "foreign"}

\* other: neither a flash instruction nor anything that moves these tokens;
\* malformed: data LendingInstruction::unpack rejects; spend and earn: a
\* foreign program takes the user's tokens or pays it some
Kinds == {"flash_borrow", "flash_repay", "other", "malformed", "spend", "earn"}

\* A top-level instruction.  One of a foreign program whose kind is the
\* lending program's is a call (CPI) of that instruction from within it.
Instruction == [program : Programs, kind : Kinds, reserve : Reserves, amount : U64,
                index : Nat]

ASSUME FlashAssumption ==
    /\ Config \in [Reserves -> ReserveConfig]
    /\ Vault \in [Reserves -> U64] /\ WalletSupply \in U64 /\ OutsideSupply \in U64
    /\ Transactions \subseteq Seq(Instruction)
    /\ WAD \in U128

VARIABLES
    tx,        \* instructions sysvar: the transaction under way, or <<>>
    pc,        \* the instruction to execute next
    reserve,   \* ReserveRec per reserve, as this transaction sees it
    token,     \* token balances per reserve, as this transaction sees them
    ledger,    \* both as of the last committed transaction
    outcome    \* what became of the last transaction

vars == <<tx, pc, reserve, token, ledger, outcome>>

TokenRec == [supply : U64, wallet : U64, outside : U64, fee_receiver : U64, host : U64]

Init ==
    /\ tx = <<>> /\ pc = 1 /\ outcome = "none"
    /\ reserve = [r \in Reserves |->
          [available_amount |-> Vault[r], borrowed_amount_wads |-> 0,
           cumulative_borrow_rate_wads |-> WAD, accumulated_protocol_fees_wads |-> 0,
           market_price |-> WAD, smoothed_market_price |-> WAD,
           mint_total_supply |-> Vault[r]]]
    /\ token = [r \in Reserves |-> [supply |-> Vault[r], wallet |-> WalletSupply,
                                    outside |-> OutsideSupply, fee_receiver |-> 0, host |-> 0]]
    /\ ledger = [reserve |-> reserve, token |-> token]

\* spl_token_transfer between two accounts of the mint; it succeeds when the
\* result is a TokenRec again
Transfer(t, a, b, amount) == [t EXCEPT ![a] = @ - amount, ![b] = @ + amount]

-----------------------------------------------------------------------------
(* What the flash instructions read in the sysvar: the top-level           *)
(* instructions and the index of the current one.  A call by another       *)
(* program shows that program's instruction.                               *)

StackHeight(t, i) == IF t[i].program = "lending" THEN 1 ELSE 2

IsCpiCall(t, i) == t[i].program # "lending" \/ StackHeight(t, i) > 1

LaterLending(t, i) == {j \in DOMAIN t : j > i /\ t[j].program = "lending"}

LaterRepays(t, i) == {j \in LaterLending(t, i) : t[j].kind = "flash_repay"}

RepayMatches(t, i, j) ==
    /\ t[j].reserve = t[i].reserve
    /\ t[j].amount = t[i].amount
    /\ t[j].index = i - 1

\* mutants: a second repayment let pass; a later borrow let pass; the
\* index the repayment names not looked at
ScanAllowsRepays(t, i) ==
    /\ \A j \in LaterLending(t, i) : t[j].kind \notin {"flash_borrow", "malformed"}
    /\ \E j \in LaterRepays(t, i) : RepayMatches(t, i, j)

ScanAllowsBorrows(t, i) ==
    /\ \A j \in LaterLending(t, i) : t[j].kind # "malformed"
    /\ \A j \in LaterRepays(t, i) : t[j].reserve = t[i].reserve /\ t[j].amount = t[i].amount
    /\ \E j \in LaterRepays(t, i) : \A k \in LaterRepays(t, i) : k = j

ScanRefusesOthers(t, i) ==
    /\ \A j \in LaterLending(t, i) : t[j].kind = "flash_repay"
    /\ \E j \in LaterRepays(t, i) : RepayMatches(t, i, j)

\* the loop of _flash_borrow_reserve_liquidity over the rest of the
\* transaction: exactly one repayment, the matching one, and no other borrow
FindsRepay(t, i) ==
    /\ \A j \in LaterLending(t, i) : t[j].kind \notin {"flash_borrow", "malformed"}
    /\ \A j \in LaterRepays(t, i) : RepayMatches(t, i, j)
    /\ \E j \in LaterRepays(t, i) : \A k \in LaterRepays(t, i) : k = j

\* "validate flash borrow" of _flash_repay_reserve_liquidity; the index is
\* zero based, and naming the repayment itself is caught by its kind
FindsBorrow(t, j) ==
    /\ t[j].index <= j - 1
    /\ LET b == t[t[j].index + 1]
       IN  /\ b.program = "lending" /\ b.kind = "flash_borrow"
           /\ b.reserve = t[j].reserve /\ b.amount = t[j].amount

-----------------------------------------------------------------------------
(* The handlers, each as the set of <<reserve, token>> pairs it may leave  *)
(* behind: {} for Err.                                                     *)

FlashBorrowReserveLiquidity(t, i) ==
    LET r == t[i].reserve
        a == t[i].amount
    IN  Result(/\ Config[r].flash_loan_fee_wad # U64_MAX
               /\ ~IsCpiCall(t, i)
               /\ FindsRepay(t, i)
               /\ a <= reserve[r].available_amount
               /\ LiquidityBorrow(reserve[r], FromU64(a)) \in ReserveRec
               /\ Transfer(token[r], "supply", "wallet", a) \in TokenRec,
               <<[reserve EXCEPT ![r] = LiquidityBorrow(@, FromU64(a))],
                 [token EXCEPT ![r] = Transfer(@, "supply", "wallet", a)]>>)

\* <<fee, host fee>> of a loan, fee including the host's part
FlashLoanFees(r, a) ==
    {f \in CalculateFees(Config[r], FromU64(a), Config[r].flash_loan_fee_wad, FALSE) :
        f[2] <= f[1]}

\* the amount, then the host's fee, then the reserve's
PayBack(t, a, f) ==
    Transfer(Transfer(Transfer(t, "wallet", "supply", a), "wallet", "host", f[2]),
             "wallet", "fee_receiver", f[1] - f[2])

FlashRepayReserveLiquidity(t, i) ==
    LET r == t[i].reserve
        a == t[i].amount
    IN  {<<[reserve EXCEPT ![r] = LiquidityRepay(@, a, FromU64(a))],
           [token EXCEPT ![r] = PayBack(@, a, f)]>> :
         f \in {g \in FlashLoanFees(r, a) :
                   /\ ~IsCpiCall(t, i)
                   /\ FindsBorrow(t, i)
                   /\ LiquidityRepay(reserve[r], a, FromU64(a)) \in ReserveRec
                   /\ PayBack(token[r], a, g) \in TokenRec}}

\* an instruction of a foreign program that moves the user's tokens
ForeignTransfer(t, i) ==
    LET r == t[i].reserve
        moved == IF t[i].kind = "earn" THEN Transfer(token[r], "outside", "wallet", t[i].amount)
                 ELSE Transfer(token[r], "wallet", "outside", t[i].amount)
    IN  Result(t[i].program = "foreign" /\ moved \in TokenRec,
               <<reserve, [token EXCEPT ![r] = moved]>>)

Effects(t, i) ==
    CASE t[i].kind = "flash_borrow" -> FlashBorrowReserveLiquidity(t, i)
      [] t[i].kind = "flash_repay" -> FlashRepayReserveLiquidity(t, i)
      [] t[i].kind \in {"spend", "earn"} -> ForeignTransfer(t, i)
      [] t[i].kind = "malformed" -> {}
      [] OTHER -> {<<reserve, token>>}

-----------------------------------------------------------------------------
(* The runtime.                                                            *)

Idle == tx = <<>>

Submit(t) ==
    /\ Idle /\ t # <<>>
    /\ tx' = t /\ pc' = 1 /\ outcome' = "running"
    /\ UNCHANGED <<reserve, token, ledger>>

Execute ==
    /\ ~Idle /\ pc <= Len(tx)
    /\ \E e \in Effects(tx, pc) : reserve' = e[1] /\ token' = e[2]
    /\ pc' = pc + 1
    /\ UNCHANGED <<tx, ledger, outcome>>

RollBack ==
    /\ ~Idle /\ pc <= Len(tx)
    /\ Effects(tx, pc) = {}
    /\ reserve' = ledger.reserve /\ token' = ledger.token
    /\ tx' = <<>> /\ pc' = 1 /\ outcome' = "failed"
    /\ UNCHANGED ledger

Commit ==
    /\ ~Idle /\ pc = Len(tx) + 1
    /\ ledger' = [reserve |-> reserve, token |-> token]
    /\ tx' = <<>> /\ pc' = 1 /\ outcome' = "committed"
    /\ UNCHANGED <<reserve, token>>

RuntimeStep == Execute \/ RollBack \/ Commit

Next == RuntimeStep \/ \E t \in Transactions : Submit(t)

\* The runtime takes every transaction it started to its end; nobody has to
\* submit one.
Spec == Init /\ [][Next]_vars /\ WF_vars(RuntimeStep)

-----------------------------------------------------------------------------
(* Properties.                                                             *)

TypeOK ==
    /\ tx \in Seq(Instruction) /\ pc \in 1..(Len(tx) + 1)
    /\ reserve \in [Reserves -> ReserveRec] /\ token \in [Reserves -> TokenRec]
    /\ ledger \in [reserve : [Reserves -> ReserveRec], token : [Reserves -> TokenRec]]
    /\ outcome \in {"none", "running", "committed", "failed"}

\* the executed flash borrows and repayments of the transaction under way
Borrowed == {i \in 1..(pc - 1) : tx[i].kind = "flash_borrow"}

Repaid == {i \in 1..(pc - 1) : tx[i].kind = "flash_repay"}

(***************************************************************************)
(* While a loan is out, the transaction still holds ahead of it the one    *)
(* instruction that pays it back, in full and to the same reserve, and the *)
(* vault lacks exactly the amount of that loan: there is never a second    *)
(* one, however borrows, repayments and calls from other programs are      *)
(* arranged in the transaction.                                            *)
(***************************************************************************)
LoanSecured ==
    \A i \in Borrowed :
        \/ \E j \in Repaid : RepayMatches(tx, i, j)
        \/ /\ \E j \in pc..Len(tx) : /\ tx[j].program = "lending" /\ tx[j].kind = "flash_repay"
                                     /\ RepayMatches(tx, i, j)
           /\ \A r \in Reserves :
                 ledger.token[r].supply - token[r].supply =
                     (IF r = tx[i].reserve THEN tx[i].amount ELSE 0)

\* what the fee of a loan may be; none is offered at the largest fee
LoanFee(r, a) ==
    IF Config[r].flash_loan_fee_wad = U64_MAX THEN {} ELSE {f[1] : f \in FlashLoanFees(r, a)}

(***************************************************************************)
(* The flash instructions implement atomic loans: what a committed         *)
(* transaction leaves on the ledger is what no loan, or one loan with its  *)
(* fee, would have left.                                                   *)
(***************************************************************************)
Loans == INSTANCE FlashLoan WITH
    Fee   <- [r \in Reserves |-> [a \in U64 |-> LoanFee(r, a)]],
    vault <- [r \in Reserves |-> ledger.token[r].supply],
    lent  <- [r \in Reserves |-> ledger.reserve[r].borrowed_amount_wads],
    fees  <- [r \in Reserves |-> ledger.token[r].fee_receiver + ledger.token[r].host]

LoansAreAtomic == Loans!Spec

\* Liquidity that a flash loan takes out of a vault comes back: by the
\* repayment or by the transaction being undone.
LoanReturned ==
    \A r \in Reserves : token[r].supply < Vault[r] ~> token[r].supply = Vault[r]

(***************************************************************************)
(* A transaction of instructions that cannot fail by themselves around one *)
(* borrow and its repayment, with the liquidity and the user's means for   *)
(* it: the loan the tests of flash_borrow_repay.rs take.                   *)
(***************************************************************************)
HonestLoan(i, j) ==
    LET r == tx[i].reserve
        a == tx[i].amount
    IN  /\ i < j /\ RepayMatches(tx, i, j)
        /\ tx[i].kind = "flash_borrow" /\ tx[j].kind = "flash_repay"
        /\ tx[i].program = "lending" /\ tx[j].program = "lending"
        /\ \A k \in DOMAIN tx \ {i, j} : tx[k].kind = "other"
        /\ Config[r].flash_loan_fee_wad # U64_MAX
        /\ a <= ledger.token[r].supply /\ ledger.token[r].wallet + a \in U64
        /\ \E f \in FlashLoanFees(r, a) : f[1] <= ledger.token[r].wallet

\* An honest loan is served: the scans on both sides, which see every other
\* instruction of the transaction too, do not turn it away.
HonestLoanServed ==
    (~Idle /\ \E i, j \in DOMAIN tx : HonestLoan(i, j)) ~> outcome = "committed"

\* Every loan comes to its end: what it took out of the vault returns, and an
\* honest one is granted and committed.
LoansComplete == LoanReturned /\ HonestLoanServed
=============================================================================
