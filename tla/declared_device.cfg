SPECIFICATION MCSpec
CONSTANTS
    Eps = {ep1, ep2}
    ClusterIds = {idA, idB}
    AttrIds = {attr1, attr2, attr3}
    CmdIds = {cmd1, cmd2}
    AttrKinds <- MCAttrKinds
    CmdKinds <- MCCmdKinds
    kMaxAllowedArgumentSize = 100
    kMaxItems = 5
    Blocks = {block1, block2}
    minBatteryVoltage = 900
    maxBatteryVoltage = 1600
    AdcReadings = {0, 65, 895, 896, 899, 900, 901, 1253, 1599, 1600, 1603, 1604, 3100}
INVARIANTS
    TypeOK
    CompilesExactly
    AttrReachesMember
    EndpointTables
    LookupsMatch
    LibraryFits
    TypedValuesArrive
    BatteryTold
SYMMETRY MCSymmetry
CHECK_DEADLOCK FALSE
