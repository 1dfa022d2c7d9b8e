SPECIFICATION Spec
CONSTANTS
    WAD = 1000  PercentsPerOne = 100  BpsPerOne = 1000
    U64_MAX = 9  U128_MAX = 160000
    SLOTS_PER_YEAR = 1
    MAX_BONUS_PCT = 25  MAX_PROTOCOL_LIQUIDATION_FEE_DECA_BPS = 50
    Reserves = {1}
    MAX_OBLIGATION_RESERVES = 3
    LIQUIDATION_CLOSE_FACTOR = 55  MAX_LIQUIDATABLE_VALUE_AT_ONCE = 500
    GlobalAllowedBorrowValue = 1000  GlobalUnhealthyBorrowValue = 1100
    Obligations = {o1}
    Keys = {own}  SolendOwner = own  NoKey = NoKey  NoFlash = NoFlash
    MarketLimiter <- DefaultMarketLimiter
    MaxSlot = 3  WalletSupply = 9  RoundingSlack = 25
    InitConfigs <- PoolConfigs  InitAmounts = {5}
    OracleSetups <- PythOnly
    PythPrices <- SteadyPrices  SwitchboardPrices <- NoPrices
    DepositAmounts = {3}  RedeemAmounts = {1}
    CollateralAmounts = {4}  WithdrawAmounts = {9}
    BorrowAmounts = {9}  RepayAmounts = {9}
    LiquidateAmounts = {9}  ForgiveAmounts = {9}
    FlashAmounts = {2}
    ConfigUpdates = {}  LimiterUpdates = {}
    MarketLimiterUpdates = {}
INVARIANTS
    TypeOK
    VaultMatchesAvailable
    CollateralConserved
PROPERTIES
    ShareValueNeverDrops
    SupplyCoversFees
