CONSTANTS
    NFFT = 2
    Tone <- MCTone
SPECIFICATION Spec
INVARIANTS IntegersAsMeasured FloatsAsMeasured
CHECK_DEADLOCK FALSE
