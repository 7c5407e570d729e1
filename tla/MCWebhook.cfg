SPECIFICATION Spec
CONSTANTS
    SeqMod = 3
    MAX_FP_ITER = 2
    Logged = {0}
INVARIANTS
    SearchReturns
