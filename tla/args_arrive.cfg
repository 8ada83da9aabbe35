SPECIFICATION Spec
CONSTANTS
    Signatures <- MCStrings
    Chars = {1, 2}
    kMaxAllowedArgumentSize = 8
    kIntSize = 4
    PassLiterals = TRUE
    EvalOrders = {"left to right", "right to left"}
INVARIANTS
    ArgsArrive
