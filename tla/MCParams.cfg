CONSTANTS
    Garbage = Garbage
    Option <- MCOption
    MaxArgs = 4
SPECIFICATION Spec
INVARIANTS WrittenAsAsked RefusedIfWrong
CHECK_DEADLOCK FALSE
