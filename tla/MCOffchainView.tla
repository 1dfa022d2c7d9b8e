--------------------------- MODULE MCOffchainView ---------------------------
(* A market that earns interest, watched by a client off the chain.        *)
EXTENDS MCLendingMarket, OffchainView

\* reserves with either oracle or with both
EitherOracle == {[pyth |-> TRUE, switchboard |-> FALSE], [pyth |-> FALSE, switchboard |-> TRUE],
                 [pyth |-> TRUE, switchboard |-> TRUE]}

\* two prices that differ; Switchboard's only; that and one under the null key
ClientPrices ==
    {[pyth |-> {2 * WAD}, switchboard |-> {WAD}, null |-> {}],
     [pyth |-> {}, switchboard |-> {2 * WAD}, null |-> {}],
     [pyth |-> {}, switchboard |-> {2 * WAD}, null |-> {3 * WAD}]}
=============================================================================
