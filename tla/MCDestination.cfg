\* destination over every address book of up to three entries.
CONSTANTS
    Stats <- MCStats
    Calls <- MCCalls
    MaxBook = 3

SPECIFICATION Spec

INVARIANT ReturnsReference
CHECK_DEADLOCK FALSE
