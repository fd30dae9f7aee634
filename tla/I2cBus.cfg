SPECIFICATION FairSpec
CONSTANTS
    Bits <- BitsTwo
    Own <- OwnAddr
    ScanList <- BothAddrs
    Payloads <- UpToTwoBytes
    Lengths <- OneOrTwo
    Replies <- TwoReplies
    Spelled <- OtherByte
    MaxHolds = 1
INVARIANTS
    CallsDeliver
    BusLeftFree
    RecoveryFreesReader
PROPERTY
    CallReturns
