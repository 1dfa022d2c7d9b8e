SPECIFICATION Spec
CONSTANTS
    WAD = 10000  PercentsPerOne = 100  BpsPerOne = 10000
    U64_MAX = 9  U128_MAX = 1600000
    SLOTS_PER_YEAR = 1
    MAX_BONUS_PCT = 25  MAX_PROTOCOL_LIQUIDATION_FEE_DECA_BPS = 50
    Reserves = {1}
    MAX_OBLIGATION_RESERVES = 3
    LIQUIDATION_CLOSE_FACTOR = 20  MAX_LIQUIDATABLE_VALUE_AT_ONCE = 500
    GlobalAllowedBorrowValue = 1000  GlobalUnhealthyBorrowValue = 1100
    Obligations = {}
    Keys = {own, sol}  SolendOwner = sol  NoKey = NoKey  NoFlash = NoFlash
    MarketLimiter <- DisabledLimiter
    MaxSlot = 2  WalletSupply = 6  RoundingSlack = 9
    InitConfigs <- BonusConfigs  InitAmounts = {6}
    OracleSetups <- PythMaybeSwitchboard
    PythPrices <- SteadyPrices  SwitchboardPrices <- FallbackPrices
    DepositAmounts = {2}  RedeemAmounts = {2}
    CollateralAmounts = {}  WithdrawAmounts = {}
    BorrowAmounts = {}  RepayAmounts = {}
    LiquidateAmounts = {}  ForgiveAmounts = {}
    FlashAmounts = {}
    ConfigUpdates <- ConfigChanges  LimiterUpdates <- LimiterChanges
    MarketLimiterUpdates <- MarketLimiterChanges
INVARIANTS
    ConfigStaysValid
