SPECIFICATION Spec
CONSTANTS
    Capacity = 4
    Value = {a, b}
    Request = {0, 1, 2, 3, 4, 5}
INVARIANTS
    TypeOK
    EmptyMeansSizeZero
    TwoReservesSuffice
PROPERTIES
    ImplementsFifo
