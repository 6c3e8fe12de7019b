CONSTANTS
    Calls = {c1, c2}
    Coding <- MCCoding
    Plain <- MCPlain
    Texts <- MCTexts
    Missing = Missing
    Folder = Folder
    Refused = Refused
    Process = Process
    NoCall = NoCall
    LF = 10
    CR = 13
    LineSep <- MCLineSep
    MaxToolRetries = 2
    MaxWrite = 2
    MaxChanges = 1
    MaxFaults = 1
SYMMETRY Symmetric
SPECIFICATION Spec
INVARIANTS
    NoLostUpdate
    ReportsMatch
    OnePlace
    ReadsAreWhole
CHECK_DEADLOCK FALSE
