SPECIFICATION PcaSpec
CONSTANTS
    PcaJobs <- MCInitJobs
    PcaVersions = 0
    PcaHalts = 1
INVARIANT InitRegenerated
CHECK_DEADLOCK FALSE
