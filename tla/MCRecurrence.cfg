SPECIFICATION Spec
CONSTANTS
    Sessions = {"s", "t"}
    Vocabulary = {0, 1}
    MaxOrder = 4
    MaxLength = 6
INVARIANTS RatesAreExact CountsAreOccurrences
CHECK_DEADLOCK FALSE
