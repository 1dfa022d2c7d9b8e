------------------------------- MODULE WadMath -------------------------------
(***************************************************************************)
(* The fixed-point arithmetic of token-lending/sdk/src/math.  A Decimal or *)
(* a Rate is modelled by its scaled integer: the number of wads it holds.  *)
(* Every operator rounds exactly where the code rounds.  The scale, 10^18  *)
(* in the code, is a parameter, and so are the number of percents and of   *)
(* basis points in one, so that small instances keep every rounding case.  *)
(*                                                                         *)
(* The operators are total; the overflow of a checked operation is caught  *)
(* where its result is stored, by the width of the packed field, and the   *)
(* underflow of a checked subtraction is a guard of the caller.            *)
(***************************************************************************)
EXTENDS Integers

CONSTANTS
    WAD,             \* scaled value of one (common.rs WAD)
    PercentsPerOne,  \* 100 in the code
    BpsPerOne,       \* 10000 in the code
    U64_MAX,         \* u64::MAX: width of an amount, and the "all" sentinel
    U128_MAX         \* width of a packed Decimal

ASSUME WadAssumption ==
    /\ WAD \in Nat \ {0} /\ PercentsPerOne \in Nat \ {0}
    /\ BpsPerOne \in Nat \ {0} /\ U64_MAX \in Nat \ {0} /\ U128_MAX \in Nat
    /\ WAD % PercentsPerOne = 0 /\ WAD % BpsPerOne = 0 /\ WAD % 2 = 0

U64 == 0..U64_MAX

U128 == 0..U128_MAX

\* Decimal::from(u64) / Rate::from_percent / Decimal::from_bps
FromU64(n) == n * WAD

FromPercent(p) == p * (WAD \div PercentsPerOne)

FromBps(b) == b * (WAD \div BpsPerOne)

\* Decimal::try_mul(Decimal) and Rate::try_mul(Rate): truncating
DecMul(a, b) == (a * b) \div WAD

\* Decimal::try_div(Decimal) and Rate::try_div(Rate): truncating, b # 0
DecDiv(a, b) == (a * WAD) \div b

TryFloor(d) == d \div WAD

TryCeil(d) == (WAD - 1 + d) \div WAD

TryRound(d) == ((WAD \div 2) + d) \div WAD

MinOf(a, b) == IF a <= b THEN a ELSE b

MaxOf(a, b) == IF a >= b THEN a ELSE b

(***************************************************************************)
(* Rate::try_pow: exponentiation by squaring, truncating at every product. *)
(* A pass of the loop halves the exponent and squares the base.            *)
(***************************************************************************)
PowPass(p) ==
    LET exp  == p.exp \div 2
        base == DecMul(p.base, p.base)
    IN  [exp |-> exp, base |-> base, ret |-> IF exp % 2 # 0 THEN DecMul(p.ret, base) ELSE p.ret]

\* the loop as a whole: it ends after at most exp passes
TryPow(rate, exp) ==
    LET loop[n \in 0..exp] ==
            IF n = 0
            THEN [exp |-> exp, base |-> rate, ret |-> IF exp % 2 # 0 THEN rate ELSE WAD]
            ELSE IF loop[n - 1].exp = 0 THEN loop[n - 1] ELSE PowPass(loop[n - 1])
    IN  loop[exp].ret
=============================================================================
