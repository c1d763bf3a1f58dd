SPECIFICATION Spec
CONSTANTS
    Amp = Amp
    Texts <- CacheTexts
    Tables <- CacheTables
    Repls <- CacheRepls
INVARIANTS EveryMatchReplaced
CHECK_DEADLOCK FALSE
