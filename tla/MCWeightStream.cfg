SPECIFICATION Spec
CONSTANTS
    Items = {i1, i2, i3}
    SlotCount = 2
    RECLAIM_FENCE_GENERATIONS = 2
    TABLE_GENERATIONS = 2
    BounceSlots = 2
    Requests <- Triples
    MaxRounds = 4
    MaxReplays = 4
    Absent = Absent
SYMMETRY Symmetry
INVARIANTS TypeOK ReplayReadsItsItems SourcesStable ResidencyIsReal CacheAgrees
PROPERTIES RoundIsResident
