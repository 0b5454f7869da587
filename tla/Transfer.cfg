SPECIFICATION Spec
CONSTANTS
    MAX_DATA_SIZE = 240
    Half = 104
    Sizes = {0, 24, 241}
    Tails <- TailsOfADigit
    Window = 2
    MaxCommands = 2
CHECK_DEADLOCK FALSE
INVARIANTS TypeOK AcknowledgedStays RefusedForAReason TornOnlyByCrash DownloadTrue
PROPERTIES UploadEnds
