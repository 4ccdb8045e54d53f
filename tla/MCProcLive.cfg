SPECIFICATION FairSpec
CONSTANTS
    NPROC = 2
    NCPU = 2
    MaxPid = 3
    KillPids = {}
PROPERTIES LocksReleased ZombiesReaped
