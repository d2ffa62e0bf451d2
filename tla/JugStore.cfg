SPECIFICATION Spec
CONSTANTS
    Jugs = {j1, j2}
    Versions = {1, 2}
    Chunks = 2
    MaxFaults = 0
INVARIANT RunsWhatWasChecked
CHECK_DEADLOCK FALSE
