SPECIFICATION Spec
CONSTANTS
    WAD = 10
    PercentsPerOne = 10
    BpsPerOne = 10
    U64_MAX = 20
    U128_MAX = 1000
    MaxSlot = 8
    Configs <- MCConfigs
    Quantities <- MCQuantities
INVARIANT DocumentedGuarantee
