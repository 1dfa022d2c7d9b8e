SPECIFICATION Spec
CONSTANTS
    WAD = 1000  PercentsPerOne = 100  BpsPerOne = 1000
    U64_MAX = 120  U128_MAX = 2400000
    SLOTS_PER_YEAR = 1
    MAX_BONUS_PCT = 25  MAX_PROTOCOL_LIQUIDATION_FEE_DECA_BPS = 50
    Reserves = {1, 2}
    MAX_OBLIGATION_RESERVES = 3
    LIQUIDATION_CLOSE_FACTOR = 55  MAX_LIQUIDATABLE_VALUE_AT_ONCE = 500
    GlobalAllowedBorrowValue = 1000  GlobalUnhealthyBorrowValue = 1100
    Obligations = {o1}
    Keys = {own}  SolendOwner = own  NoKey = NoKey  NoFlash = NoFlash
    MarketLimiter <- DisabledLimiter
    MaxSlot = 2  WalletSupply = 82  RoundingSlack = 100
    InitConfigs <- WeightedConfigs  InitAmounts = {80}
    OracleSetups <- PythOnly
    PythPrices <- RisingPrices  SwitchboardPrices <- NoPrices
    DepositAmounts = {}  RedeemAmounts = {}
    CollateralAmounts = {80}  WithdrawAmounts = {}
    BorrowAmounts = {16}  RepayAmounts = {}
    LiquidateAmounts = {120}  ForgiveAmounts = {120}
    FlashAmounts = {80}
    ConfigUpdates = {}  LimiterUpdates = {}
    MarketLimiterUpdates = {}
INVARIANTS
    PriceFresh
    BooksBalance
    PositionsSound
PROPERTIES
    LiquidatorWithinBonus
    ShareValueNeverDrops
