SPECIFICATION Spec
CONSTANTS
    WAD = 1000  PercentsPerOne = 100  BpsPerOne = 1000
    U64_MAX = 12  U128_MAX = 220000
    SLOTS_PER_YEAR = 1
    MAX_BONUS_PCT = 25  MAX_PROTOCOL_LIQUIDATION_FEE_DECA_BPS = 50
    Reserves = {1, 2}
    MAX_OBLIGATION_RESERVES = 3
    LIQUIDATION_CLOSE_FACTOR = 20  MAX_LIQUIDATABLE_VALUE_AT_ONCE = 500
    GlobalAllowedBorrowValue = 1000  GlobalUnhealthyBorrowValue = 1100
    Obligations = {o1}
    Keys = {own}  SolendOwner = own  NoKey = NoKey  NoFlash = NoFlash
    MarketLimiter <- DisabledLimiter
    MaxSlot = 2  WalletSupply = 9  RoundingSlack = 12
    InitConfigs <- TieredConfigs  InitAmounts = {8}
    OracleSetups <- PythOnly
    PythPrices <- SplitPrices  SwitchboardPrices <- NoPrices
    DepositAmounts = {}  RedeemAmounts = {}
    CollateralAmounts = {6}  WithdrawAmounts = {12}
    BorrowAmounts = {1, 12}  RepayAmounts = {12}
    LiquidateAmounts = {}  ForgiveAmounts = {}
    FlashAmounts = {}
    ConfigUpdates = {}  LimiterUpdates = {}
    MarketLimiterUpdates = {}
INVARIANTS
    ObligationFresh
    IsolatedBorrowedAlone
    DebtsMatchReserve
PROPERTIES
    TakingOutKeepsHealth
