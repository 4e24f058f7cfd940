CONSTANTS
    Futures = {f1, f2, f3}
    Nobody = nobody
SPECIFICATION FairSpec
INVARIANTS HandedOver WaiterIsWoken
PROPERTIES SlotImplementsCalls WaitReturns
CHECK_DEADLOCK FALSE
