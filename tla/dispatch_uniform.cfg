SPECIFICATION Spec
CONSTANTS
    ep1 = ep1
    ep2 = ep2
    ep3 = ep3
    idA = idA
    idB = idB
    cmd = cmd
    attr = attr
    Cmds = {cmd}
    Attrs = {attr}
    Devices <- MCDevices
    kMaxEntries = 3
INVARIANTS
    TypeOK
    RightCluster
    ServedUnlessLost
    NoNullCall
    LossesTold
    SlotsSuffice
CONSTRAINT MCOneRequest
SYMMETRY MCSymmetry
