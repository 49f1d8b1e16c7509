\* Two turns, and in the raw harness one more after the reconnect.
CONSTANTS
    Harnesses <- MCHarnesses
    Turns = 2
SPECIFICATION Spec
INVARIANTS
    EndedByItsOwn
    RowsOfTheirOwn
PROPERTIES
    BenchEnds
CHECK_DEADLOCK FALSE
