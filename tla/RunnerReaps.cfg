CONSTANTS
    shell = shell
    helper = helper
    Members <- Two
    Leader = shell
    Daemons <- None
    PipeSize = 1
    Chunks = 1
    MaxSignals = 3
    MaxFaults = 0
CHECK_DEADLOCK FALSE
SPECIFICATION Spec
INVARIANTS ChildReaped
