SPECIFICATION FairSpec
CONSTANTS
    Procs = {p, q, o}
    Offline = {o}
    FileCount = 2
    Size = 2
    Leftovers <- Partials
    MaxFaults = 2
    Absent = Absent
INVARIANTS TypeOK SnapshotIsExact
PROPERTIES KeepsGoodBytes SnapshotIsProvided
