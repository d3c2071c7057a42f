SPECIFICATION ConsoleSpec
CONSTANTS
    MaxThreads = 2
    MaxCount = 3
    MaxSlotRetry = 1
    Console = TRUE
    Nobody = Nobody
PROPERTY InterruptStops
