----------------------- MODULE FlashTransactionProofs -----------------------
(***************************************************************************)
(* Proofs about FlashTransaction, for every set of reserves,               *)
(* configurations, balances and transactions of any length: a loan is      *)
(* secured while it is out, and what transactions leave on the ledger is   *)
(* what atomic loans would have left.                                      *)
(***************************************************************************)
EXTENDS FlashTransaction, ReserveProofs

-----------------------------------------------------------------------------
(* The inductive invariant.                                                *)

\* what the loan of the transaction has taken out of reserve r by now: out
\* tokens are missing in the vault and lent on the books, paid were paid in fees
Differs(r, out, paid) ==
    /\ ledger.token[r].supply = token[r].supply + out
    /\ reserve[r].borrowed_amount_wads = ledger.reserve[r].borrowed_amount_wads + FromU64(out)
    /\ token[r].fee_receiver + token[r].host
          = ledger.token[r].fee_receiver + ledger.token[r].host + paid

\* the one borrow was executed: it had the liquidity and found its repayment
Granted(i) ==
    /\ Borrowed = {i}
    /\ tx[i].program = "lending"
    /\ FindsRepay(tx, i)
    /\ Config[tx[i].reserve].flash_loan_fee_wad # U64_MAX
    /\ tx[i].amount <= ledger.token[tx[i].reserve].supply

\* no loan yet: nothing of the reserves has changed
NoLoan ==
    /\ Borrowed = {} /\ Repaid = {}
    /\ \A r \in Reserves : Differs(r, 0, 0)

\* a loan is out, of which the vault lacks exactly the amount
LoanOut(i) ==
    /\ Granted(i) /\ Repaid = {}
    /\ \A r \in Reserves : Differs(r, IF r = tx[i].reserve THEN tx[i].amount ELSE 0, 0)

\* the loan is repaid by the instruction that its borrow found, with the fee
LoanBack(i, j) ==
    /\ Granted(i) /\ Repaid = {j} /\ j \in LaterRepays(tx, i)
    /\ \E f \in FlashLoanFees(tx[i].reserve, tx[i].amount) :
          \A r \in Reserves : Differs(r, 0, IF r = tx[i].reserve THEN f[1] ELSE 0)

(***************************************************************************)
(* A transaction goes through three phases, whatever its instructions are: *)
(* no loan, one loan out, one loan back.  A loan is never followed by      *)
(* another, because the borrow has seen every later instruction.           *)
(***************************************************************************)
FlashInv ==
    /\ TypeOK
    /\ \/ NoLoan
       \/ \E i \in Borrowed : LoanOut(i)
       \/ \E i \in Borrowed, j \in Repaid : LoanBack(i, j)

-----------------------------------------------------------------------------
(* Token accounts.                                                         *)

TokenFields == {"supply", "wallet", "outside", "fee_receiver", "host"}

\* the balances of a reserve's accounts, within their width or not yet
Balances(t) == t = [f \in TokenFields |-> t[f]]

\* A transfer changes the two balances it names, and only those.
LEMMA TransferFields ==
  ASSUME NEW t, Balances(t), NEW a \in TokenFields, NEW b \in TokenFields, a # b, NEW x
  PROVE  /\ Balances(Transfer(t, a, b, x))
         /\ Transfer(t, a, b, x)[a] = t[a] - x
         /\ Transfer(t, a, b, x)[b] = t[b] + x
         /\ \A f \in TokenFields \ {a, b} : Transfer(t, a, b, x)[f] = t[f]
<1>. QED
  BY DEF Transfer, Balances

\* The accounts of a typed state are balances, in natural numbers.
LEMMA TokenBalances ==
  ASSUME NEW t \in TokenRec
  PROVE  /\ Balances(t) /\ t.supply \in Nat /\ t.wallet \in Nat
         /\ t.outside \in Nat /\ t.fee_receiver \in Nat /\ t.host \in Nat
<1>. QED
  BY WadAssumption DEF TokenRec, Balances, TokenFields, U64

\* A repayment puts the amount into the vault and the fee into two accounts.
LEMMA PayBackFields ==
  ASSUME NEW t \in TokenRec, NEW a \in Nat, NEW f, f[1] \in Nat, f[2] \in Nat
  PROVE  /\ PayBack(t, a, f).supply = t.supply + a
         /\ PayBack(t, a, f).fee_receiver + PayBack(t, a, f).host
               = t.fee_receiver + t.host + f[1]
<1>1. PICK t1 : t1 = Transfer(t, "wallet", "supply", a)
  OBVIOUS
<1>2. /\ Balances(t1) /\ t1.supply = t.supply + a
      /\ t1.fee_receiver = t.fee_receiver /\ t1.host = t.host
  BY <1>1, TokenBalances, TransferFields DEF TokenFields
<1>3. PICK t2 : t2 = Transfer(t1, "wallet", "host", f[2])
  OBVIOUS
<1>4. /\ Balances(t2) /\ t2.supply = t1.supply
      /\ t2.fee_receiver = t1.fee_receiver /\ t2.host = t1.host + f[2]
  BY <1>2, <1>3, TransferFields DEF TokenFields
<1>5. PICK t3 : t3 = Transfer(t2, "wallet", "fee_receiver", f[1] - f[2])
  OBVIOUS
<1>6. /\ t3.supply = t2.supply
      /\ t3.fee_receiver = t2.fee_receiver + (f[1] - f[2]) /\ t3.host = t2.host
  BY <1>4, <1>5, TransferFields DEF TokenFields
<1>7. PayBack(t, a, f) = t3
  BY <1>1, <1>3, <1>5 DEF PayBack
<1>. QED
  BY <1>2, <1>4, <1>6, <1>7, TokenBalances

-----------------------------------------------------------------------------
(* Type correctness.                                                       *)

\* An instruction is handled according to its kind.
LEMMA EffectsByKind ==
  ASSUME NEW t, NEW i
  PROVE  /\ t[i].kind = "flash_borrow" => Effects(t, i) = FlashBorrowReserveLiquidity(t, i)
         /\ t[i].kind = "flash_repay" => Effects(t, i) = FlashRepayReserveLiquidity(t, i)
         /\ t[i].kind = "spend" => Effects(t, i) = ForeignTransfer(t, i)
         /\ t[i].kind = "earn" => Effects(t, i) = ForeignTransfer(t, i)
         /\ t[i].kind = "malformed" => Effects(t, i) = {}
         /\ t[i].kind = "other" => Effects(t, i) = {<<reserve, token>>}
<1>1. t[i].kind = "flash_borrow" => Effects(t, i) = FlashBorrowReserveLiquidity(t, i)
  BY Zenon DEF Effects
<1>2. t[i].kind = "flash_repay" => Effects(t, i) = FlashRepayReserveLiquidity(t, i)
  BY Zenon DEF Effects
<1>3. t[i].kind = "spend" => Effects(t, i) = ForeignTransfer(t, i)
  BY Zenon DEF Effects
<1>4. t[i].kind = "earn" => Effects(t, i) = ForeignTransfer(t, i)
  BY Zenon DEF Effects
<1>5. t[i].kind = "malformed" => Effects(t, i) = {}
  BY Zenon DEF Effects
<1>6. t[i].kind = "other" => Effects(t, i) = {<<reserve, token>>}
  BY Zenon DEF Effects
<1>. QED
  BY <1>1, <1>2, <1>3, <1>4, <1>5, <1>6

\* What an instruction leaves behind has its type.
LEMMA EffectsTyped ==
  ASSUME TypeOK, pc \in DOMAIN tx, NEW e \in Effects(tx, pc)
  PROVE  e[1] \in [Reserves -> ReserveRec] /\ e[2] \in [Reserves -> TokenRec]
<1>1. tx[pc] \in Instruction /\ tx[pc].reserve \in Reserves
  <2>1. tx \in Seq(Instruction)
    BY DEF TypeOK
  <2>2. tx[pc] \in Instruction
    BY <2>1
  <2>. QED
    BY <2>2 DEF Instruction
<1>2. reserve \in [Reserves -> ReserveRec] /\ token \in [Reserves -> TokenRec]
  BY DEF TypeOK
<1>3. CASE e \in FlashBorrowReserveLiquidity(tx, pc)
  BY <1>1, <1>2, <1>3 DEF FlashBorrowReserveLiquidity, Result
<1>4. CASE e \in FlashRepayReserveLiquidity(tx, pc)
  BY <1>1, <1>2, <1>4 DEF FlashRepayReserveLiquidity
<1>5. CASE e \in ForeignTransfer(tx, pc)
  BY <1>1, <1>2, <1>5 DEF ForeignTransfer, Result
<1>6. CASE e = <<reserve, token>>
  BY <1>2, <1>6
<1>. QED
  BY <1>1, <1>3, <1>4, <1>5, <1>6, EffectsByKind DEF Instruction, Kinds

\* Every step keeps the types.
LEMMA NextTyped == TypeOK /\ [Next]_vars => TypeOK'
<1>. SUFFICES ASSUME TypeOK, [Next]_vars PROVE TypeOK'
  OBVIOUS
<1>0. tx \in Seq(Instruction) /\ Len(tx) \in Nat /\ pc \in 1..(Len(tx) + 1)
      /\ DOMAIN tx = 1..Len(tx)
  BY DEF TypeOK
<1>1. ASSUME NEW t \in Transactions, Submit(t) PROVE TypeOK'
  <2>1. t \in Seq(Instruction)
    BY FlashAssumption
  <2>2. Len(t) \in Nat
    BY <2>1
  <2>. QED
    BY <1>1, <2>1, <2>2 DEF Submit, TypeOK
<1>2. CASE Execute
  <2>1. PICK e \in Effects(tx, pc) : reserve' = e[1] /\ token' = e[2]
    BY <1>2 DEF Execute
  <2>2. pc \in DOMAIN tx
    BY <1>0, <1>2 DEF Execute
  <2>3. reserve' \in [Reserves -> ReserveRec] /\ token' \in [Reserves -> TokenRec]
    BY <2>1, <2>2, EffectsTyped
  <2>4. pc' \in 1..(Len(tx) + 1)
    BY <1>0, <1>2 DEF Execute
  <2>. QED
    BY <1>2, <2>3, <2>4 DEF Execute, TypeOK
<1>3. CASE RollBack
  BY <1>3 DEF RollBack, TypeOK
<1>4. CASE Commit
  BY <1>4 DEF Commit, TypeOK
<1>5. CASE UNCHANGED vars
  BY <1>5 DEF vars, TypeOK
<1>. QED
  BY <1>1, <1>2, <1>3, <1>4, <1>5 DEF Next, RuntimeStep

-----------------------------------------------------------------------------
(* The phases of a transaction.                                            *)

\* What Execute adds to the executed borrows and repayments.
LEMMA ExecuteAdds ==
  ASSUME TypeOK, Execute
  PROVE  /\ tx' = tx /\ ledger' = ledger
         /\ pc \in DOMAIN tx /\ tx[pc] \in Instruction
         /\ Borrowed' = IF tx[pc].kind = "flash_borrow" THEN Borrowed \cup {pc} ELSE Borrowed
         /\ Repaid' = IF tx[pc].kind = "flash_repay" THEN Repaid \cup {pc} ELSE Repaid
         /\ \A i \in Borrowed \cup Repaid : i \in DOMAIN tx /\ i < pc
<1>1. tx \in Seq(Instruction) /\ pc \in 1..(Len(tx) + 1)
  BY DEF TypeOK
<1>2. Len(tx) \in Nat /\ DOMAIN tx = 1..Len(tx)
  BY <1>1
<1>3. tx' = tx /\ ledger' = ledger /\ pc' = pc + 1 /\ pc <= Len(tx)
  BY DEF Execute
<1>4. pc \in DOMAIN tx /\ pc \in Nat
  BY <1>1, <1>2, <1>3
<1>5. tx[pc] \in Instruction
  BY <1>1, <1>4
<1>6. 1..(pc' - 1) = (1..(pc - 1)) \cup {pc}
  BY <1>2, <1>3, <1>4
<1>7. /\ Borrowed' = IF tx[pc].kind = "flash_borrow" THEN Borrowed \cup {pc} ELSE Borrowed
      /\ Repaid' = IF tx[pc].kind = "flash_repay" THEN Repaid \cup {pc} ELSE Repaid
  BY <1>3, <1>6 DEF Borrowed, Repaid
<1>8. \A i \in Borrowed \cup Repaid : i \in DOMAIN tx /\ i < pc
  BY <1>2, <1>3, <1>4 DEF Borrowed, Repaid
<1>. QED
  BY <1>3, <1>4, <1>5, <1>7, <1>8

\* After a borrow that was granted, the only flash instruction of the lending
\* program that can follow is the one repayment that the borrow found.
LEMMA OnlyItsRepayment ==
  ASSUME TypeOK, NEW i \in Borrowed, FindsRepay(tx, i), NEW k \in DOMAIN tx, k > i,
         tx[k].program = "lending"
  PROVE  /\ tx[k].kind # "flash_borrow"
         /\ tx[k].kind = "flash_repay" => /\ k \in LaterRepays(tx, i) /\ RepayMatches(tx, i, k)
                                          /\ LaterRepays(tx, i) = {k}
<1>1. k \in LaterLending(tx, i)
  BY DEF LaterLending
<1>2. tx[k].kind # "flash_borrow"
  BY <1>1 DEF FindsRepay
<1>3. ASSUME tx[k].kind = "flash_repay"
      PROVE  /\ k \in LaterRepays(tx, i) /\ RepayMatches(tx, i, k) /\ LaterRepays(tx, i) = {k}
  <2>1. k \in LaterRepays(tx, i)
    BY <1>1, <1>3 DEF LaterRepays
  <2>. QED
    BY <2>1 DEF FindsRepay
<1>. QED
  BY <1>2, <1>3

\* A repayment that is executed names a borrow that was executed before it.
LEMMA RepaymentHasBorrow ==
  ASSUME TypeOK, pc \in DOMAIN tx, tx[pc].kind = "flash_repay", FindsBorrow(tx, pc)
  PROVE  \E i \in Borrowed : tx[i].reserve = tx[pc].reserve /\ tx[i].amount = tx[pc].amount
<1>1. tx \in Seq(Instruction) /\ pc \in 1..(Len(tx) + 1)
  BY DEF TypeOK
<1>2. tx[pc] \in Instruction
  BY <1>1
<1>3. tx[pc].index \in Nat /\ pc \in Nat
  BY <1>1, <1>2 DEF Instruction
<1>4. PICK b : b = tx[pc].index + 1
  OBVIOUS
<1>5. /\ b - 1 <= pc - 1 /\ tx[b].program = "lending" /\ tx[b].kind = "flash_borrow"
      /\ tx[b].reserve = tx[pc].reserve /\ tx[b].amount = tx[pc].amount
  BY <1>3, <1>4 DEF FindsBorrow
<1>6. b # pc
  BY <1>5
<1>7. b \in 1..(pc - 1)
  BY <1>3, <1>4, <1>5, <1>6
<1>. QED
  BY <1>5, <1>7 DEF Borrowed

\* What the flash instructions must change in the accounts for a loan to have
\* out tokens missing and paid fees, compared with before.
LEMMA DiffersNext ==
  ASSUME TypeOK, TypeOK', ledger' = ledger, NEW q \in Reserves,
         NEW out \in Nat, NEW paid \in Nat, NEW more \in Nat, NEW fee \in Nat,
         NEW less \in Nat, less <= out, Differs(q, out, paid),
         token'[q].supply = token[q].supply + less - more,
         reserve'[q].borrowed_amount_wads
            = reserve[q].borrowed_amount_wads + FromU64(more) - FromU64(less),
         token'[q].fee_receiver + token'[q].host
            = token[q].fee_receiver + token[q].host + fee
  PROVE  Differs(q, out + more - less, paid + fee)'
<1>1. /\ token[q] \in TokenRec /\ token'[q] \in TokenRec /\ ledger.token[q] \in TokenRec
      /\ reserve[q] \in ReserveRec /\ reserve'[q] \in ReserveRec
      /\ ledger.reserve[q] \in ReserveRec
  BY DEF TypeOK
<1>2. /\ token[q].supply \in Nat /\ token'[q].supply \in Nat /\ ledger.token[q].supply \in Nat
      /\ token[q].fee_receiver \in Nat /\ token[q].host \in Nat
      /\ token'[q].fee_receiver \in Nat /\ token'[q].host \in Nat
      /\ ledger.token[q].fee_receiver \in Nat /\ ledger.token[q].host \in Nat
  BY <1>1, TokenBalances
<1>3. /\ reserve[q].borrowed_amount_wads \in Nat /\ reserve'[q].borrowed_amount_wads \in Nat
      /\ ledger.reserve[q].borrowed_amount_wads \in Nat
  BY <1>1, ReserveNat
<1>4. /\ FromU64(out) \in Nat /\ FromU64(more) \in Nat /\ FromU64(less) \in Nat
      /\ FromU64(out + more - less) = FromU64(out) + FromU64(more) - FromU64(less)
  BY WadAssumption DEF FromU64
<1>5. /\ ledger.token[q].supply = token[q].supply + out
      /\ reserve[q].borrowed_amount_wads
            = ledger.reserve[q].borrowed_amount_wads + FromU64(out)
      /\ token[q].fee_receiver + token[q].host
            = ledger.token[q].fee_receiver + ledger.token[q].host + paid
  BY DEF Differs
<1>6. ledger.token[q].supply = token'[q].supply + (out + more - less)
  BY <1>2, <1>5
<1>7. reserve'[q].borrowed_amount_wads
         = ledger.reserve[q].borrowed_amount_wads + FromU64(out + more - less)
  BY <1>3, <1>4, <1>5
<1>8. token'[q].fee_receiver + token'[q].host
         = ledger.token[q].fee_receiver + ledger.token[q].host + (paid + fee)
  BY <1>2, <1>5
<1>. QED
  BY <1>6, <1>7, <1>8 DEF Differs

\* A reserve whose account and books do not change differs as before.
LEMMA DiffersKept ==
  ASSUME ledger' = ledger, NEW q, NEW out, NEW paid, Differs(q, out, paid),
         reserve'[q] = reserve[q], token'[q].supply = token[q].supply,
         token'[q].fee_receiver = token[q].fee_receiver, token'[q].host = token[q].host
  PROVE  Differs(q, out, paid)'
<1>. QED
  BY DEF Differs

\* The first borrow of a transaction, if it succeeds, is granted.
LEMMA BorrowTakesOut ==
  ASSUME TypeOK, NoLoan, Execute, tx[pc].kind = "flash_borrow", NEW i, i = pc
  PROVE  LoanOut(i)' /\ i \in Borrowed'
<1>0. /\ tx' = tx /\ ledger' = ledger /\ tx[i] \in Instruction
      /\ Borrowed' = {i} /\ Repaid' = {}
  BY ExecuteAdds DEF NoLoan
<1>. PICK r, a : r = tx[i].reserve /\ a = tx[i].amount
  OBVIOUS
<1>1. r \in Reserves /\ a \in Nat
  BY <1>0, WadAssumption DEF Instruction, U64
<1>2. TypeOK'
  BY NextTyped DEF Next, RuntimeStep
<1>3. /\ reserve \in [Reserves -> ReserveRec] /\ token \in [Reserves -> TokenRec]
      /\ reserve' \in [Reserves -> ReserveRec] /\ token' \in [Reserves -> TokenRec]
      /\ ledger \in [reserve : [Reserves -> ReserveRec], token : [Reserves -> TokenRec]]
  BY <1>2 DEF TypeOK
<1>4. PICK e \in FlashBorrowReserveLiquidity(tx, i) : reserve' = e[1] /\ token' = e[2]
  BY EffectsByKind DEF Execute
<1>5. /\ Config[r].flash_loan_fee_wad # U64_MAX /\ ~IsCpiCall(tx, i) /\ FindsRepay(tx, i)
      /\ reserve' = [reserve EXCEPT ![r] = LiquidityBorrow(@, FromU64(a))]
      /\ token' = [token EXCEPT ![r] = Transfer(@, "supply", "wallet", a)]
  BY <1>4 DEF FlashBorrowReserveLiquidity, Result
<1>6. tx[i].program = "lending"
  BY <1>5 DEF IsCpiCall
<1>7. /\ token'[r].supply = token[r].supply - a
      /\ token'[r].fee_receiver = token[r].fee_receiver /\ token'[r].host = token[r].host
  <2>1. Balances(token[r])
    BY <1>1, <1>3, TokenBalances
  <2>2. token'[r] = Transfer(token[r], "supply", "wallet", a)
    BY <1>1, <1>3, <1>5
  <2>. QED
    BY <2>1, <2>2, TransferFields DEF TokenFields
<1>8. reserve'[r].borrowed_amount_wads = reserve[r].borrowed_amount_wads + FromU64(a)
  BY <1>1, <1>3, <1>5 DEF LiquidityBorrow, ReserveRec
<1>9. \A q \in Reserves : q # r => reserve'[q] = reserve[q] /\ token'[q] = token[q]
  BY <1>1, <1>3, <1>5
<1>10. \A q \in Reserves : Differs(q, 0, 0)
  BY DEF NoLoan
<1>11. ASSUME NEW q \in Reserves PROVE Differs(q, IF q = r THEN a ELSE 0, 0)'
  <2>1. CASE q # r
    BY <1>0, <1>9, <1>10, <2>1, DiffersKept
  <2>2. CASE q = r
    <3>1. Differs(r, 0 + a - 0, 0 + 0)'
      <4>1. FromU64(0) = 0 /\ FromU64(a) \in Nat
        BY <1>1, WadAssumption DEF FromU64
      <4>2. /\ token[r].supply \in Nat /\ reserve[r].borrowed_amount_wads \in Nat
            /\ token[r].fee_receiver \in Nat /\ token[r].host \in Nat
        BY <1>1, <1>3, TokenBalances, ReserveNat
      <4>3. /\ token'[r].supply = token[r].supply + 0 - a
            /\ reserve'[r].borrowed_amount_wads
                  = reserve[r].borrowed_amount_wads + FromU64(a) - FromU64(0)
            /\ token'[r].fee_receiver + token'[r].host
                  = token[r].fee_receiver + token[r].host + 0
        BY <1>1, <1>7, <1>8, <4>1, <4>2
      <4>4. 0 \in Nat /\ 0 <= 0 /\ Differs(r, 0, 0)
        BY <1>1, <1>10
      <4>. QED
        BY <1>0, <1>1, <1>2, <4>3, <4>4, DiffersNext, Zenon
    <3>. QED
      BY <1>1, <2>2, <3>1
  <2>. QED
    BY <2>1, <2>2
<1>12. a <= ledger.token[r].supply
  <2>1. ledger.token[r].supply = token'[r].supply + a
    BY <1>0, <1>1, <1>11 DEF Differs
  <2>2. token'[r].supply \in Nat
    BY <1>1, <1>3, TokenBalances
  <2>. QED
    BY <1>1, <2>1, <2>2
<1>. QED
  BY <1>0, <1>5, <1>6, <1>11, <1>12 DEF LoanOut, Granted

\* The fees of a loan are natural numbers.
LEMMA LoanFeesNat ==
  ASSUME NEW r \in Reserves, NEW a \in Nat, NEW f \in FlashLoanFees(r, a)
  PROVE  f[1] \in Nat /\ f[2] \in Nat
<1>1. Config[r] \in ReserveConfig
  BY FlashAssumption
<1>2. Config[r].flash_loan_fee_wad \in Nat
  BY <1>1, WadAssumption DEF ReserveConfig, U64
<1>3. FromU64(a) \in Nat
  BY ConversionsNat
<1>4. f \in CalculateFees(Config[r], FromU64(a), Config[r].flash_loan_fee_wad, FALSE)
  BY DEF FlashLoanFees
<1>. QED
  BY <1>1, <1>2, <1>3, <1>4, FeesNat

\* What is known of a repayment that is executed.
LEMMA RepayTerms ==
  ASSUME TypeOK, Execute, tx[pc].kind = "flash_repay", NEW r, NEW a,
         r = tx[pc].reserve, a = tx[pc].amount
  PROVE  /\ tx[pc].program = "lending" /\ FindsBorrow(tx, pc)
         /\ \E f \in FlashLoanFees(r, a) :
               /\ reserve' = [reserve EXCEPT ![r] = LiquidityRepay(@, a, FromU64(a))]
               /\ token' = [token EXCEPT ![r] = PayBack(@, a, f)]
<1>1. PICK e \in FlashRepayReserveLiquidity(tx, pc) : reserve' = e[1] /\ token' = e[2]
  BY EffectsByKind DEF Execute
<1>2. PICK f \in FlashLoanFees(r, a) :
        /\ ~IsCpiCall(tx, pc) /\ FindsBorrow(tx, pc)
        /\ e = <<[reserve EXCEPT ![r] = LiquidityRepay(@, a, FromU64(a))],
                 [token EXCEPT ![r] = PayBack(@, a, f)]>>
  BY <1>1 DEF FlashRepayReserveLiquidity
<1>. QED
  BY <1>1, <1>2 DEF IsCpiCall

\* The repayment that is executed while a loan is out brings all of it back,
\* and the fee.
LEMMA RepayGivesBack ==
  ASSUME TypeOK, NEW i \in Borrowed, LoanOut(i), Execute, tx[pc].kind = "flash_repay",
         NEW j, j = pc
  PROVE  LoanBack(i, j)' /\ i \in Borrowed' /\ j \in Repaid'
<1>0. /\ tx' = tx /\ ledger' = ledger /\ j \in DOMAIN tx /\ tx[j] \in Instruction
      /\ Borrowed' = Borrowed /\ Repaid' = {j} /\ i \in DOMAIN tx /\ i < j
  BY ExecuteAdds DEF LoanOut
<1>. PICK r, a : r = tx[j].reserve /\ a = tx[j].amount
  OBVIOUS
<1>1. r \in Reserves /\ a \in Nat
  BY <1>0, WadAssumption DEF Instruction, U64
<1>2. TypeOK'
  BY NextTyped DEF Next, RuntimeStep
<1>3. /\ reserve \in [Reserves -> ReserveRec] /\ token \in [Reserves -> TokenRec]
      /\ reserve' \in [Reserves -> ReserveRec] /\ token' \in [Reserves -> TokenRec]
      /\ ledger \in [reserve : [Reserves -> ReserveRec], token : [Reserves -> TokenRec]]
  BY <1>2 DEF TypeOK
<1>4. PICK f \in FlashLoanFees(r, a) :
         /\ reserve' = [reserve EXCEPT ![r] = LiquidityRepay(@, a, FromU64(a))]
         /\ token' = [token EXCEPT ![r] = PayBack(@, a, f)]
  BY RepayTerms
<1>5. tx[j].program = "lending" /\ FindsBorrow(tx, j)
  BY RepayTerms
<1>6. Borrowed = {i} /\ FindsRepay(tx, i)
  BY DEF LoanOut, Granted
<1>7. tx[i].reserve = r /\ tx[i].amount = a
  BY <1>0, <1>5, <1>6, RepaymentHasBorrow
<1>8. j \in LaterRepays(tx, i)
  BY <1>0, <1>5, <1>6, OnlyItsRepayment
<1>9. f[1] \in Nat /\ f[2] \in Nat
  BY <1>1, LoanFeesNat
<1>10. /\ token'[r].supply = token[r].supply + a
       /\ token'[r].fee_receiver + token'[r].host = token[r].fee_receiver + token[r].host + f[1]
  <2>1. token[r] \in TokenRec
    BY <1>1, <1>3
  <2>2. token'[r] = PayBack(token[r], a, f)
    BY <1>1, <1>3, <1>4
  <2>. QED
    BY <1>1, <1>9, <2>1, <2>2, PayBackFields
<1>11. \A q \in Reserves : Differs(q, IF q = r THEN a ELSE 0, 0)
  BY <1>7 DEF LoanOut
<1>12. Differs(r, a, 0)
  BY <1>1, <1>11
<1>13. FromU64(0) = 0 /\ FromU64(a) \in Nat
  BY <1>1, WadAssumption DEF FromU64
<1>14. reserve'[r].borrowed_amount_wads = reserve[r].borrowed_amount_wads + FromU64(0) - FromU64(a)
  <2>1. /\ reserve[r].borrowed_amount_wads \in Nat
        /\ ledger.reserve[r].borrowed_amount_wads \in Nat
    BY <1>1, <1>3, ReserveNat
  <2>2. MinOf(FromU64(a), reserve[r].borrowed_amount_wads) = FromU64(a)
    BY <1>12, <1>13, <2>1 DEF Differs, MinOf
  <2>3. reserve'[r].borrowed_amount_wads
          = reserve[r].borrowed_amount_wads - MinOf(FromU64(a), reserve[r].borrowed_amount_wads)
    BY <1>1, <1>3, <1>4 DEF LiquidityRepay, ReserveRec
  <2>. QED
    BY <1>13, <2>1, <2>2, <2>3
<1>15. \A q \in Reserves : q # r => reserve'[q] = reserve[q] /\ token'[q] = token[q]
  BY <1>1, <1>3, <1>4
<1>16. ASSUME NEW q \in Reserves PROVE Differs(q, 0, IF q = r THEN f[1] ELSE 0)'
  <2>1. CASE q # r
    BY <1>0, <1>11, <1>15, <2>1, DiffersKept
  <2>2. CASE q = r
    <3>1. Differs(r, a + 0 - a, 0 + f[1])'
      <4>1. token[r].supply \in Nat
        BY <1>1, <1>3, TokenBalances
      <4>2. token'[r].supply = token[r].supply + a - 0 /\ 0 \in Nat /\ a <= a
        BY <1>1, <1>10, <4>1
      <4>. QED
        BY <1>0, <1>1, <1>2, <1>9, <1>10, <1>12, <1>14, <4>2, DiffersNext, Zenon
    <3>2. a + 0 - a = 0 /\ 0 + f[1] = f[1]
      BY <1>1, <1>9
    <3>. QED
      BY <2>2, <3>1, <3>2
  <2>. QED
    BY <2>1, <2>2
<1>17. Granted(i)'
  BY <1>0 DEF LoanOut, Granted
<1>. QED
  BY <1>0, <1>7, <1>8, <1>16, <1>17 DEF LoanBack

\* Any other instruction leaves the phase of the transaction as it is.
LEMMA OtherKeepsAccounts ==
  ASSUME TypeOK, Execute, tx[pc].kind \notin {"flash_borrow", "flash_repay"},
         NEW q \in Reserves
  PROVE  /\ reserve'[q] = reserve[q] /\ token'[q].supply = token[q].supply
         /\ token'[q].fee_receiver = token[q].fee_receiver /\ token'[q].host = token[q].host
<1>1. tx[pc] \in Instruction
  BY ExecuteAdds
<1>. PICK r, a : r = tx[pc].reserve /\ a = tx[pc].amount
  OBVIOUS
<1>2. token \in [Reserves -> TokenRec] /\ r \in Reserves
  BY <1>1 DEF TypeOK, Instruction
<1>3. tx[pc].kind \in {"spend", "earn", "malformed", "other"}
  BY <1>1 DEF Instruction, Kinds
<1>4. CASE tx[pc].kind = "malformed"
  BY <1>4, EffectsByKind DEF Execute
<1>5. CASE tx[pc].kind = "other"
  BY <1>5, EffectsByKind DEF Execute
<1>6. CASE tx[pc].kind \in {"spend", "earn"}
  <2>1. PICK e \in ForeignTransfer(tx, pc) : reserve' = e[1] /\ token' = e[2]
    BY <1>6, EffectsByKind DEF Execute
  <2>2. PICK t : t = IF tx[pc].kind = "earn" THEN Transfer(token[r], "outside", "wallet", a)
                     ELSE Transfer(token[r], "wallet", "outside", a)
    OBVIOUS
  <2>3. e = <<reserve, [token EXCEPT ![r] = t]>>
    BY <2>1, <2>2 DEF ForeignTransfer, Result
  <2>4. Balances(token[r])
    BY <1>2, TokenBalances
  <2>5. /\ t.supply = token[r].supply /\ t.fee_receiver = token[r].fee_receiver
        /\ t.host = token[r].host
    <3>1. CASE t = Transfer(token[r], "outside", "wallet", a)
      BY <2>4, <3>1, TransferFields DEF TokenFields
    <3>2. CASE t = Transfer(token[r], "wallet", "outside", a)
      BY <2>4, <3>2, TransferFields DEF TokenFields
    <3>. QED
      BY <2>2, <3>1, <3>2
  <2>. QED
    BY <1>2, <2>1, <2>3, <2>5
<1>. QED
  BY <1>3, <1>4, <1>5, <1>6

\* A borrow that is executed is a top-level instruction of the program.
LEMMA BorrowIsTopLevel ==
  ASSUME Execute, tx[pc].kind = "flash_borrow"
  PROVE  tx[pc].program = "lending"
<1>1. PICK e \in FlashBorrowReserveLiquidity(tx, pc) : TRUE
  BY EffectsByKind DEF Execute
<1>. QED
  BY <1>1 DEF FlashBorrowReserveLiquidity, Result, IsCpiCall

\* What an instruction does to the phase of its transaction.
LEMMA ExecutePhases ==
  ASSUME FlashInv, Execute
  PROVE  FlashInv'
<1>0. TypeOK /\ TypeOK'
  BY NextTyped DEF FlashInv, Next, RuntimeStep
<1>1. /\ tx' = tx /\ ledger' = ledger /\ pc \in DOMAIN tx /\ tx[pc] \in Instruction
      /\ Borrowed' = IF tx[pc].kind = "flash_borrow" THEN Borrowed \cup {pc} ELSE Borrowed
      /\ Repaid' = IF tx[pc].kind = "flash_repay" THEN Repaid \cup {pc} ELSE Repaid
      /\ \A i \in Borrowed \cup Repaid : i \in DOMAIN tx /\ i < pc
  BY <1>0, ExecuteAdds
<1>2. pc \in Int
  BY <1>0 DEF TypeOK
<1>3. ASSUME tx[pc].kind \notin {"flash_borrow", "flash_repay"}
      PROVE  \A q, out, paid : q \in Reserves /\ Differs(q, out, paid) => Differs(q, out, paid)'
  BY <1>0, <1>1, <1>3, OtherKeepsAccounts, DiffersKept
<1>4. CASE NoLoan
  <2>1. CASE tx[pc].kind = "flash_borrow"
    BY <1>0, <1>4, <2>1, BorrowTakesOut DEF FlashInv
  <2>2. CASE tx[pc].kind = "flash_repay"
    BY <1>0, <1>1, <1>4, <2>2, RepayTerms, RepaymentHasBorrow DEF NoLoan
  <2>3. CASE tx[pc].kind \notin {"flash_borrow", "flash_repay"}
    <3>1. NoLoan'
      BY <1>1, <1>3, <1>4, <2>3 DEF NoLoan
    <3>. QED
      BY <1>0, <3>1 DEF FlashInv
  <2>. QED
    BY <2>1, <2>2, <2>3
<1>5. ASSUME NEW i \in Borrowed, LoanOut(i) PROVE FlashInv'
  <2>1. i \in DOMAIN tx /\ pc > i /\ FindsRepay(tx, i)
    BY <1>1, <1>2, <1>5 DEF LoanOut, Granted
  <2>2. CASE tx[pc].kind = "flash_borrow"
    BY <1>0, <1>1, <2>1, <2>2, BorrowIsTopLevel, OnlyItsRepayment
  <2>3. CASE tx[pc].kind = "flash_repay"
    BY <1>0, <1>5, <2>3, RepayGivesBack DEF FlashInv
  <2>4. CASE tx[pc].kind \notin {"flash_borrow", "flash_repay"}
    <3>1. LoanOut(i)'
      <4>1. Granted(i)' /\ Repaid' = {}
        BY <1>1, <1>5, <2>4 DEF LoanOut, Granted
      <4>2. ASSUME NEW q \in Reserves
            PROVE  Differs(q, IF q = tx[i].reserve THEN tx[i].amount ELSE 0, 0)'
        BY <1>1, <1>3, <1>5, <2>4 DEF LoanOut
      <4>. QED
        BY <4>1, <4>2 DEF LoanOut
    <3>2. i \in Borrowed'
      BY <1>1, <2>4
    <3>. QED
      BY <1>0, <3>1, <3>2 DEF FlashInv
  <2>. QED
    BY <2>2, <2>3, <2>4
<1>6. ASSUME NEW i \in Borrowed, NEW j \in Repaid, LoanBack(i, j) PROVE FlashInv'
  <2>1. i \in DOMAIN tx /\ pc > i /\ FindsRepay(tx, i) /\ j < pc /\ j \in LaterRepays(tx, i)
    BY <1>1, <1>2, <1>6 DEF LoanBack, Granted, LaterRepays, LaterLending
  <2>2. CASE tx[pc].kind = "flash_borrow"
    BY <1>0, <1>1, <2>1, <2>2, BorrowIsTopLevel, OnlyItsRepayment
  <2>3. CASE tx[pc].kind = "flash_repay"
    <3>1. tx[pc].program = "lending"
      BY <1>0, <2>3, RepayTerms
    <3>2. LaterRepays(tx, i) = {pc}
      BY <1>0, <1>1, <2>1, <2>3, <3>1, OnlyItsRepayment
    <3>. QED
      BY <1>2, <2>1, <3>2
  <2>4. CASE tx[pc].kind \notin {"flash_borrow", "flash_repay"}
    <3>1. Granted(i)' /\ Repaid' = {j} /\ (j \in LaterRepays(tx, i))'
      BY <1>1, <1>6, <2>4 DEF LoanBack, Granted
    <3>2. PICK f \in FlashLoanFees(tx[i].reserve, tx[i].amount) :
             \A q \in Reserves : Differs(q, 0, IF q = tx[i].reserve THEN f[1] ELSE 0)
      BY <1>6 DEF LoanBack
    <3>3. ASSUME NEW q \in Reserves
          PROVE  Differs(q, 0, IF q = tx[i].reserve THEN f[1] ELSE 0)'
      BY <1>1, <1>3, <2>4, <3>2
    <3>4. LoanBack(i, j)'
      BY <1>1, <3>1, <3>3 DEF LoanBack
    <3>5. i \in Borrowed' /\ j \in Repaid'
      BY <1>1, <2>4
    <3>. QED
      BY <1>0, <3>4, <3>5 DEF FlashInv
  <2>. QED
    BY <2>2, <2>3, <2>4
<1>. QED
  BY <1>4, <1>5, <1>6 DEF FlashInv

\* the ledger holds what the accounts hold
AtLedger == ledger = [reserve |-> reserve, token |-> token] /\ pc = 1

\* Where the ledger holds what the accounts hold there is no loan.
LEMMA LedgerIsNoLoan == TypeOK /\ AtLedger => NoLoan
<1>. SUFFICES ASSUME TypeOK, AtLedger PROVE NoLoan
  OBVIOUS
<1>1. Borrowed = {} /\ Repaid = {}
  BY DEF Borrowed, Repaid, AtLedger
<1>2. ASSUME NEW q \in Reserves PROVE Differs(q, 0, 0)
  <2>1. token[q] \in TokenRec /\ reserve[q] \in ReserveRec
    BY DEF TypeOK
  <2>2. /\ token[q].supply \in Nat /\ token[q].fee_receiver \in Nat /\ token[q].host \in Nat
        /\ reserve[q].borrowed_amount_wads \in Nat
    BY <2>1, TokenBalances, ReserveNat
  <2>3. FromU64(0) = 0
    BY WadAssumption DEF FromU64
  <2>. QED
    BY <2>2, <2>3 DEF Differs, AtLedger
<1>. QED
  BY <1>1, <1>2 DEF NoLoan

\* A transaction that has come to its end has no loan out.
LEMMA EndsWithoutLoanOut ==
  ASSUME TypeOK, Commit, NEW i \in Borrowed
  PROVE  ~LoanOut(i)
<1>1. SUFFICES ASSUME LoanOut(i) PROVE FALSE
  OBVIOUS
<1>2. tx \in Seq(Instruction) /\ pc = Len(tx) + 1
  BY DEF TypeOK, Commit
<1>3. DOMAIN tx = 1..Len(tx) /\ Len(tx) \in Nat
  BY <1>2
<1>4. PICK j \in LaterRepays(tx, i) : TRUE
  BY <1>1 DEF LoanOut, Granted, FindsRepay
<1>5. j \in DOMAIN tx /\ tx[j].kind = "flash_repay"
  BY <1>4 DEF LaterRepays, LaterLending
<1>6. j \in Repaid
  BY <1>2, <1>3, <1>5 DEF Repaid
<1>. QED
  BY <1>1, <1>6 DEF LoanOut

\* Between transactions there is no loan.
LEMMA IdleIsNoLoan ==
  ASSUME FlashInv, Idle
  PROVE  NoLoan /\ pc = 1
<1>1. pc = 1
  <2>1. Len(tx) = 0 /\ pc \in 1..(Len(tx) + 1)
    BY DEF FlashInv, TypeOK, Idle
  <2>. QED
    BY <2>1
<1>2. Borrowed = {}
  BY <1>1 DEF Borrowed
<1>. QED
  BY <1>1, <1>2 DEF FlashInv

\* The invariant is inductive.
LEMMA FlashInductive == FlashInv /\ [Next]_vars => FlashInv'
<1>. SUFFICES ASSUME FlashInv, [Next]_vars PROVE FlashInv'
  OBVIOUS
<1>0. TypeOK /\ TypeOK'
  BY NextTyped DEF FlashInv
<1>1. ASSUME NEW t \in Transactions, Submit(t) PROVE FlashInv'
  <2>1. NoLoan /\ pc = 1
    BY <1>1, IdleIsNoLoan DEF Submit
  <2>2. NoLoan'
    BY <1>1, <2>1 DEF Submit, NoLoan, Differs, Borrowed, Repaid
  <2>. QED
    BY <1>0, <2>2 DEF FlashInv
<1>2. CASE Execute
  BY <1>2, ExecutePhases
<1>3. CASE RollBack
  <2>1. AtLedger'
    BY <1>0, <1>3 DEF RollBack, TypeOK, AtLedger
  <2>2. NoLoan'
    BY <1>0, <2>1, LedgerIsNoLoan, PTL
  <2>. QED
    BY <1>0, <2>2 DEF FlashInv
<1>4. CASE Commit
  <2>1. AtLedger'
    BY <1>4 DEF Commit, AtLedger
  <2>2. NoLoan'
    BY <1>0, <2>1, LedgerIsNoLoan, PTL
  <2>. QED
    BY <1>0, <2>2 DEF FlashInv
<1>5. CASE UNCHANGED vars
  <2>. USE <1>5 DEF vars
  <2>1. Borrowed' = Borrowed /\ Repaid' = Repaid
    BY DEF Borrowed, Repaid
  <2>2. NoLoan => NoLoan'
    BY <2>1 DEF NoLoan, Differs
  <2>3. ASSUME NEW i PROVE Granted(i) => Granted(i)'
    BY <2>1 DEF Granted
  <2>4. ASSUME NEW i PROVE LoanOut(i) => LoanOut(i)'
    BY <2>1, <2>3 DEF LoanOut, Differs
  <2>5. ASSUME NEW i, NEW j PROVE LoanBack(i, j) => LoanBack(i, j)'
    BY <2>1, <2>3 DEF LoanBack, Differs
  <2>. QED
    BY <1>0, <2>1, <2>2, <2>4, <2>5 DEF FlashInv
<1>. QED
  BY <1>1, <1>2, <1>3, <1>4, <1>5 DEF Next, RuntimeStep

\* The market starts well typed and without a loan.
LEMMA FlashInit == Init => FlashInv
<1>. SUFFICES ASSUME Init PROVE FlashInv
  OBVIOUS
<1>1. TypeOK
  <2>1. tx \in Seq(Instruction) /\ pc \in 1..(Len(tx) + 1)
    BY DEF Init
  <2>2. 0 \in U64 /\ 0 \in U128 /\ WAD \in U128
    BY WadAssumption, FlashAssumption DEF U64, U128
  <2>3. ASSUME NEW r \in Reserves PROVE reserve[r] \in ReserveRec /\ token[r] \in TokenRec
    <3>1. Vault[r] \in U64
      BY FlashAssumption
    <3>2. reserve[r] \in ReserveRec
      BY <2>2, <3>1 DEF Init, ReserveRec
    <3>3. token[r] \in TokenRec
      BY <2>2, <3>1, FlashAssumption DEF Init, TokenRec
    <3>. QED
      BY <3>2, <3>3
  <2>4. reserve \in [Reserves -> ReserveRec] /\ token \in [Reserves -> TokenRec]
    <3>1. /\ reserve = [r \in Reserves |-> reserve[r]] /\ token = [r \in Reserves |-> token[r]]
      BY DEF Init
    <3>. QED
      BY <2>3, <3>1
  <2>5. /\ ledger = [reserve |-> reserve, token |-> token]
        /\ outcome \in {"none", "running", "committed", "failed"}
    BY DEF Init
  <2>. QED
    BY <2>1, <2>4, <2>5 DEF TypeOK
<1>2. NoLoan
  BY <1>1, LedgerIsNoLoan DEF Init, AtLedger
<1>. QED
  BY <1>1, <1>2 DEF FlashInv

\* Every reachable state is in one of the three phases.
THEOREM FlashPhases == Spec => []FlashInv
<1>. QED
  BY FlashInit, FlashInductive, PTL DEF Spec

-----------------------------------------------------------------------------
(* What the phases mean for the market.                                    *)

(***************************************************************************)
(* For every set of reserves and every transaction, the tokens that a      *)
(* flash borrow has handed out are secured: the repayment is ahead, and    *)
(* what the vault lacks is this one loan.                                  *)
(***************************************************************************)
THEOREM LoansAreSecured == Spec => []LoanSecured
<1>1. FlashInv => LoanSecured
  <2>. SUFFICES ASSUME FlashInv, NEW i \in Borrowed
       PROVE  \/ \E j \in Repaid : RepayMatches(tx, i, j)
              \/ /\ \E j \in pc..Len(tx) : /\ tx[j].program = "lending"
                                           /\ tx[j].kind = "flash_repay"
                                           /\ RepayMatches(tx, i, j)
                 /\ \A r \in Reserves :
                       ledger.token[r].supply - token[r].supply =
                           (IF r = tx[i].reserve THEN tx[i].amount ELSE 0)
    BY DEF LoanSecured
  <2>0. tx \in Seq(Instruction) /\ pc \in 1..(Len(tx) + 1)
    BY DEF FlashInv, TypeOK
  <2>1. Len(tx) \in Nat /\ DOMAIN tx = 1..Len(tx)
    BY <2>0
  <2>2. ~NoLoan
    BY DEF NoLoan
  <2>3. CASE LoanOut(i)
    <3>1. PICK j \in LaterRepays(tx, i) : RepayMatches(tx, i, j)
      BY <2>3 DEF LoanOut, Granted, FindsRepay
    <3>2. j \in 1..Len(tx) /\ tx[j].program = "lending" /\ tx[j].kind = "flash_repay"
      BY <2>1 DEF LaterRepays, LaterLending
    <3>3. j \notin Repaid
      BY <2>3 DEF LoanOut
    <3>4. j \in pc..Len(tx)
      BY <2>0, <2>1, <3>2, <3>3 DEF Repaid
    <3>5. ASSUME NEW r \in Reserves
          PROVE  ledger.token[r].supply - token[r].supply =
                    (IF r = tx[i].reserve THEN tx[i].amount ELSE 0)
      <4>1. tx[i] \in Instruction
        BY <2>0, <2>1 DEF Borrowed
      <4>2. tx[i].amount \in Nat
        BY <4>1, WadAssumption DEF Instruction, U64
      <4>3. token[r] \in TokenRec
        BY DEF FlashInv, TypeOK
      <4>4. token[r].supply \in Nat
        BY <4>3, TokenBalances
      <4>5. ledger.token[r].supply
              = token[r].supply + (IF r = tx[i].reserve THEN tx[i].amount ELSE 0)
        BY <2>3 DEF LoanOut, Differs
      <4>. QED
        BY <4>2, <4>4, <4>5
    <3>. QED
      BY <3>1, <3>2, <3>4, <3>5
  <2>4. CASE \E j \in Repaid : LoanBack(i, j)
    BY <2>4 DEF LoanBack, Granted, FindsRepay
  <2>. QED
    BY <2>2, <2>3, <2>4 DEF FlashInv, LoanOut, LoanBack, Granted
<1>. QED
  BY <1>1, FlashPhases, PTL

-----------------------------------------------------------------------------
(* The refinement.  Only Commit changes the ledger.                        *)

\* The market starts as the atomic loans do: a vault, nothing lent, no fees.
LEMMA LoansInit == Init => Loans!Init
<1>. SUFFICES ASSUME Init PROVE Loans!Init
  OBVIOUS
<1>1. TypeOK
  BY FlashInit DEF FlashInv
<1>2. ASSUME NEW r \in Reserves
      PROVE  /\ ledger.token[r].supply \in Nat /\ ledger.reserve[r].borrowed_amount_wads \in Nat
             /\ ledger.token[r].fee_receiver + ledger.token[r].host = 0
  <2>1. ledger.token[r] \in TokenRec /\ ledger.reserve[r] \in ReserveRec
    BY <1>1 DEF TypeOK
  <2>2. ledger.token[r].fee_receiver = 0 /\ ledger.token[r].host = 0
    BY DEF Init
  <2>. QED
    BY <2>1, <2>2, TokenBalances, ReserveNat
<1>. QED
  BY <1>2 DEF Loans!Init

\* A committed transaction in which no loan was taken is a stutter.
LEMMA CommitWithoutLoan ==
  ASSUME TypeOK, Commit, NoLoan
  PROVE  UNCHANGED Loans!vars
<1>1. ASSUME NEW r \in Reserves
      PROVE  /\ ledger'.token[r].supply = ledger.token[r].supply
             /\ ledger'.reserve[r].borrowed_amount_wads = ledger.reserve[r].borrowed_amount_wads
             /\ ledger'.token[r].fee_receiver + ledger'.token[r].host
                   = ledger.token[r].fee_receiver + ledger.token[r].host
  <2>1. /\ token[r] \in TokenRec /\ ledger.token[r] \in TokenRec
        /\ reserve[r] \in ReserveRec /\ ledger.reserve[r] \in ReserveRec
    BY DEF TypeOK
  <2>2. /\ token[r].supply \in Nat /\ ledger.reserve[r].borrowed_amount_wads \in Nat
        /\ ledger.token[r].fee_receiver \in Nat /\ ledger.token[r].host \in Nat
    BY <2>1, TokenBalances, ReserveNat
  <2>3. FromU64(0) = 0
    BY WadAssumption DEF FromU64
  <2>4. Differs(r, 0, 0) /\ ledger'.token = token /\ ledger'.reserve = reserve
    BY DEF NoLoan, Commit
  <2>. QED
    BY <2>2, <2>3, <2>4 DEF Differs
<1>. QED
  BY <1>1 DEF Loans!vars

\* A committed transaction with a loan in it is one atomic loan.
LEMMA CommitWithLoan ==
  ASSUME TypeOK, Commit, NEW i \in Borrowed, NEW j \in Repaid, LoanBack(i, j)
  PROVE  Loans!Next
<1>. PICK r, a : r = tx[i].reserve /\ a = tx[i].amount
  OBVIOUS
<1>0. r \in Reserves /\ a \in U64 /\ a \in Nat
  <2>1. tx \in Seq(Instruction) /\ pc = Len(tx) + 1
    BY DEF TypeOK, Commit
  <2>2. i \in DOMAIN tx
    BY <2>1 DEF Borrowed
  <2>3. tx[i] \in Instruction
    BY <2>1, <2>2
  <2>. QED
    BY <2>3, WadAssumption DEF Instruction, U64
<1>1. PICK f \in FlashLoanFees(r, a) :
         \A q \in Reserves : Differs(q, 0, IF q = r THEN f[1] ELSE 0)
  BY DEF LoanBack
<1>2. Config[r].flash_loan_fee_wad # U64_MAX /\ a <= ledger.token[r].supply
  BY DEF LoanBack, Granted
<1>3. f[1] \in Nat
  BY <1>0, LoanFeesNat
<1>4. ASSUME NEW q \in Reserves
      PROVE  /\ ledger'.token[q].supply = ledger.token[q].supply
             /\ ledger'.reserve[q].borrowed_amount_wads = ledger.reserve[q].borrowed_amount_wads
             /\ ledger'.token[q].fee_receiver + ledger'.token[q].host
                   = ledger.token[q].fee_receiver + ledger.token[q].host
                        + (IF q = r THEN f[1] ELSE 0)
             /\ ledger.token[q].fee_receiver + ledger.token[q].host \in Nat
  <2>1. /\ token[q] \in TokenRec /\ ledger.token[q] \in TokenRec
        /\ reserve[q] \in ReserveRec /\ ledger.reserve[q] \in ReserveRec
    BY DEF TypeOK
  <2>2. /\ token[q].supply \in Nat /\ ledger.reserve[q].borrowed_amount_wads \in Nat
        /\ ledger.token[q].fee_receiver \in Nat /\ ledger.token[q].host \in Nat
    BY <2>1, TokenBalances, ReserveNat
  <2>3. FromU64(0) = 0
    BY WadAssumption DEF FromU64
  <2>4. /\ Differs(q, 0, IF q = r THEN f[1] ELSE 0)
        /\ ledger'.token = token /\ ledger'.reserve = reserve
    BY <1>1 DEF Commit
  <2>. QED
    BY <1>3, <2>2, <2>3, <2>4 DEF Differs
<1>5. PICK Fees : Fees = [q \in Reserves |-> [b \in U64 |-> LoanFee(q, b)]]
  OBVIOUS
<1>6. a \in DOMAIN Fees[r] /\ f[1] \in Fees[r][a]
  BY <1>0, <1>2, <1>5 DEF LoanFee
<1>7. /\ a <= [q \in Reserves |-> ledger.token[q].supply][r]
      /\ [q \in Reserves |-> ledger'.token[q].fee_receiver + ledger'.token[q].host]
            = [[q \in Reserves |-> ledger.token[q].fee_receiver + ledger.token[q].host]
                  EXCEPT ![r] = @ + f[1]]
  BY <1>0, <1>2, <1>3, <1>4
<1>8. /\ [q \in Reserves |-> ledger'.token[q].supply]
            = [q \in Reserves |-> ledger.token[q].supply]
      /\ [q \in Reserves |-> ledger'.reserve[q].borrowed_amount_wads]
            = [q \in Reserves |-> ledger.reserve[q].borrowed_amount_wads]
  BY <1>4
<1>9. Loans!Loan(r, a)
  BY <1>5, <1>6, <1>7, <1>8 DEF Loans!Loan
<1>. QED
  BY <1>0, <1>5, <1>6, <1>9 DEF Loans!Next

(***************************************************************************)
(* Whatever transactions are submitted, what they leave on the ledger is   *)
(* what no loan, or one atomic loan with its fee, would have left.         *)
(***************************************************************************)
THEOREM FlashImplementsAtomicLoans == Spec => LoansAreAtomic
<1>1. FlashInv /\ [Next]_vars => [Loans!Next]_(Loans!vars)
  <2>. SUFFICES ASSUME FlashInv, [Next]_vars PROVE [Loans!Next]_(Loans!vars)
    OBVIOUS
  <2>1. CASE ledger' = ledger
    BY <2>1 DEF Loans!vars
  <2>2. CASE Commit
    <3>1. NoLoan \/ \E i \in Borrowed, j \in Repaid : LoanBack(i, j)
      BY <2>2, EndsWithoutLoanOut DEF FlashInv
    <3>. QED
      BY <2>2, <3>1, CommitWithoutLoan, CommitWithLoan DEF FlashInv
  <2>. QED
    BY <2>1, <2>2 DEF Next, RuntimeStep, Submit, Execute, RollBack, vars
<1>. QED
  BY <1>1, LoansInit, FlashPhases, PTL DEF Spec, LoansAreAtomic, Loans!Spec
=============================================================================
