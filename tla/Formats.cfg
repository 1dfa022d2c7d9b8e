SPECIFICATION FormatsSpec
CONSTANTS
    MAX_OBLIGATION_RESERVES = 3
    FeeCap = 1
    Percents = {0, 1, 2}
    Keys = {1, 2}
    Reserves = {1, 2, 3}
INVARIANTS
    DecodesWhatWasSent
    OneReading
    AccountsServe
    AccountsSurvive
    UpgradedReserveInOrder
