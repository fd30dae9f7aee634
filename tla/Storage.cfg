SPECIFICATION Spec
CONSTANTS
    Pieces <- AllStrings
    Absent = Absent
    Demo <- DemoText
    Howto <- HowtoText
    Scripts <- OneScript
    Upload <- TwoPieces
    Names <- OneName
    OldName <- OldDefault
    DefaultName <- NewDefault
    Records <- OneRecord
    Slots <- OneSlot
    MaxCalls = 2
    MaxFaults = 1
    MaxRestarts = 1
    MaxTogether = 3
INVARIANTS
    FilesAsMeant
    FileSystemReady
    OnlyClashesWild
CHECK_DEADLOCK FALSE
