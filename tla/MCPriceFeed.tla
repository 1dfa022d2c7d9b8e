---------------------------- MODULE MCPriceFeed ----------------------------
(***************************************************************************)
(* Two Pyth feeds, one in cents and one in tens, so that the exponent has  *)
(* either sign, and one Switchboard feed of each version.  The feed in     *)
(* cents publishes a good price and one whose confidence interval is a     *)
(* little too wide; the one in tens a good price, and one with a moving    *)
(* average too large for the packed field; each Switchboard feed a         *)
(* negative result as well.                                                *)
(***************************************************************************)
EXTENDS PriceFeed

EitherSign == [f \in PythFeeds |-> IF f = "cents" THEN -2 ELSE 1]

ThreeDecimals == [f \in SwitchboardV2 |-> 3]

Publications ==
    [f \in PythFeeds |->
        IF f = "cents"
        THEN {[price |-> 27, conf |-> 2, ema |-> 31], [price |-> 27, conf |-> 3, ema |-> 30]}
        ELSE {[price |-> 2, conf |-> 0, ema |-> 3], [price |-> 2, conf |-> 0, ema |-> 31]}]

Results == [f \in SwitchboardFeeds |-> {-1, 1999}]
=============================================================================
