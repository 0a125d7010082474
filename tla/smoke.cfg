\* One smoke directory, two traders, a backend restarted at will.
CONSTANTS
    Missing = Missing
    Failing = Failing
    Machines = {m1, m2}
    Performance = {TRUE}
    Copied = {"nested", "invalid"}
    LastTime = 1
    MaxArtifacts = 2
    MaxCommands = 6
SYMMETRY MachineSymmetry
SPECIFICATION Spec
INVARIANTS
    JudgedIsPackaged
    OneRun
    MadeIsAccepted
CHECK_DEADLOCK FALSE
