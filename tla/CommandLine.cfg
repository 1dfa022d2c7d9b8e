SPECIFICATION CommandLineSpec
CONSTANTS
    WAD = 100  PercentsPerOne = 100  BpsPerOne = 100
    U64_MAX = 40  U128_MAX = 160000
    SLOTS_PER_YEAR = 1
    MAX_BONUS_PCT = 25  MAX_PROTOCOL_LIQUIDATION_FEE_DECA_BPS = 50
    Keys = {"A", "B", "R", "5ph", "F1", "F2", "P1", "P2", "S1"}
    Signers = {"A", "B", "R", "5ph"}
    NULL_PUBKEY = "null"  SolendOwner = "5ph"
    Unit = 10  MaxCommands = 2
    Reserve0 <- RegularReserve  Market0 <- MarketAccount
    ReserveOptions <- ReserveCommands  MarketOptions <- MarketCommands
    Clients = {1, 2}
    MaxRuns = 3  Rent <- Rents  Fee = 1  Lamports = 34  Spent = 9
    SourceTokens = 5  Amount = 2  MaxDisturbed = 2
    Takers = {1, 2}  Reserves = {1, 2}  Feeds = {"f", "g"}
    Deposits0 <- Deposited  Borrows0 <- Borrowed  Atas0 <- FewOrAllAtas
    TakerCommands <- ObligationCommands
    MaxAmount = 2  MaxPositions = 2  MaxTaken = 3  MaxMoved = 2
CHECK_DEADLOCK FALSE
INVARIANTS
    RetryIsSafe
    NeverRefusedUndisturbed
PROPERTIES
    UpdatesContained
    ActsOnWhatWasRead
    RunEnds
