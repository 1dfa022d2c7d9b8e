----------------------------- MODULE FlashLoan -----------------------------
(***************************************************************************)
(* What the flash loans of a market promise, seen from outside: a loan is  *)
(* atomic.  It needs the liquidity to be there, and all it leaves behind   *)
(* is its fee; what the vault holds and what is lent out do not change.    *)
(***************************************************************************)
EXTENDS Integers

CONSTANTS
    Reserves,
    Fee          \* Fee[r][amount]: the fees a loan may cost, {} when it is not offered

VARIABLES
    vault,       \* tokens in the liquidity supply account of a reserve
    lent,        \* wads its books say are borrowed
    fees         \* tokens paid in fees for its loans

vars == <<vault, lent, fees>>

Init ==
    /\ vault \in [Reserves -> Nat]
    /\ lent \in [Reserves -> Nat]
    /\ fees = [r \in Reserves |-> 0]

Loan(r, amount) ==
    /\ amount <= vault[r]
    /\ \E f \in Fee[r][amount] : fees' = [fees EXCEPT ![r] = @ + f]
    /\ UNCHANGED <<vault, lent>>

Next == \E r \in Reserves : \E amount \in DOMAIN Fee[r] : Loan(r, amount)

Spec == Init /\ [][Next]_vars
=============================================================================
