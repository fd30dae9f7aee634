SPECIFICATION TableSpec
CONSTANTS
    LimForLast = 2
    MaxASize = 8
    MaxInteger = 31
    MaxVicinity = 1
    Seeds = {0, 5}
    ListSizes = {3}
    Values = {"v"}
    HashOf <- MCHashOf
    Programs <- MCPrograms
INVARIANTS
    TableIsMap
    TraversalComplete
    LengthIsBorder
