SPECIFICATION Spec
CONSTANTS
    Writers = {w1, w2, w3}
    MaxOps = 2
INVARIANTS HandoverSound FifoOnce
PROPERTIES OwnResult EveryWriteReturns
CHECK_DEADLOCK FALSE
