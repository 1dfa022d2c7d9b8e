SPECIFICATION Spec
CONSTANTS
    WAD = 10  PercentsPerOne = 10  BpsPerOne = 10
    U64_MAX = 1000  U128_MAX = 300
    PythFeeds = {"cents", "tens"}  SwitchboardV1 = {"sb1"}  SwitchboardV2 = {"sb2"}
    NULL_PUBKEY = "null"
    Expo <- EitherSign  Scale <- ThreeDecimals
    PythReadings <- Publications
    SwitchboardReadings <- Results
    PRICE_QUOTIENT = 5  FloatUnit = 1000
    PYTH_CONFIDENCE_RATIO = 10  STALE_AFTER_SLOTS_ELAPSED = 1
    MaxSlot = 3
INVARIANTS
    PricedByConfiguredOracle
    SmoothedPriceBelongs
    PriceIsPublished
