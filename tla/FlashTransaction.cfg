SPECIFICATION Spec
CONSTANTS
    WAD = 1000  PercentsPerOne = 100  BpsPerOne = 1000
    U64_MAX = 15  U128_MAX = 160000
    SLOTS_PER_YEAR = 1
    MAX_BONUS_PCT = 25  MAX_PROTOCOL_LIQUIDATION_FEE_DECA_BPS = 50
    Reserves = {1, 2}
    Config <- OneDisabled  Vault <- Vaults  WalletSupply = 7  OutsideSupply = 1
    Transactions <- AllShapes
    MaxLength = 3  LongLength = 4
INVARIANTS
    LoanSecured
PROPERTIES
    LoansAreAtomic
    LoansComplete
