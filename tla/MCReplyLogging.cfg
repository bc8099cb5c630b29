SPECIFICATION StreamSpec
CONSTANTS
    MaxSentences = 1
    ChanCap = 1
PROPERTIES
    LoggingIsNonFatal
CHECK_DEADLOCK FALSE
