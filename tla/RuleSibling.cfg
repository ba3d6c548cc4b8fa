SPECIFICATION Spec
CONSTANTS
    Upcased <- MCUpcased
    Root <- MCRoot
    TypeNames <- MCTypeNames
    Devices <- MCDevices
    KeyPaths <- MCKeyPaths
    Written <- MCWritten
    Images <- MCImages
    Files <- MCFiles
    NewNames <- MCNewNames
    Directories <- MCDirectories
INVARIANTS NoOtherKeyCounts
CHECK_DEADLOCK FALSE
