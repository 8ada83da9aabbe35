SPECIFICATION Spec
CONSTANTS
    Signatures <- MCSignatures
    Chars = {1, 2}
    kMaxAllowedArgumentSize = 6
    kIntSize = 4
    PassLiterals = FALSE
    EvalOrders = {"left to right"}
INVARIANTS
    TypeOK
    AlwaysStored
    FixedArgsArrive
    NumbersReadBack
