CONSTANTS
    shell = shell
    helper = helper
    Members <- Two
    Leader = shell
    Daemons <- OneDaemon
    PipeSize = 2
    Chunks = 2
    MaxSignals = 2
    MaxFaults = 1
CHECK_DEADLOCK FALSE
SPECIFICATION Spec
INVARIANTS TypeOK TranscriptInOrder TranscriptComplete SuccessIsWhole GroupStopped FailureStops
