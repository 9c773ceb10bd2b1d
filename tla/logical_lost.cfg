\* Three changes decoded while the monitor polls; Batch = 2 stands for 100.
CONSTANTS
    Batch = 2
    MaxWal = 3
SPECIFICATION Spec
INVARIANT
    ConsumedChangesDelivered
