SPECIFICATION ViewSpec
CONSTANTS
    WAD = 1000  PercentsPerOne = 100  BpsPerOne = 1000
    U64_MAX = 16  U128_MAX = 300000
    SLOTS_PER_YEAR = 1
    MAX_BONUS_PCT = 25  MAX_PROTOCOL_LIQUIDATION_FEE_DECA_BPS = 50
    Reserves = {1}
    MAX_OBLIGATION_RESERVES = 3
    LIQUIDATION_CLOSE_FACTOR = 20  MAX_LIQUIDATABLE_VALUE_AT_ONCE = 500
    GlobalAllowedBorrowValue = 3  GlobalUnhealthyBorrowValue = 4
    Obligations = {o1}
    Keys = {own}  SolendOwner = own  NoKey = NoKey  NoFlash = NoFlash
    MarketLimiter <- DefaultMarketLimiter
    MaxSlot = 3  WalletSupply = 15  RoundingSlack = 16
    InitConfigs <- EarningConfigs  InitAmounts = {10}
    OracleSetups <- EitherOracle
    PythPrices <- SteadyPrices  SwitchboardPrices <- SteadyQuotes
    DepositAmounts = {}  RedeemAmounts = {}
    CollateralAmounts = {8}  WithdrawAmounts = {}
    BorrowAmounts = {3}  RepayAmounts = {5}
    LiquidateAmounts = {}  ForgiveAmounts = {}
    FlashAmounts = {}
    ConfigUpdates = {}  LimiterUpdates = {}
    MarketLimiterUpdates = {}
    PriceTables <- ClientPrices
INVARIANTS
    DebtRateBehindReserve
    RefreshNeverPanics
    ViewForetellsRefresh
