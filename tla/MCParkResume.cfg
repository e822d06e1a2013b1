SPECIFICATION FairSpec
CONSTANTS
    Slots = {s1, s2}
    Pages = {p1, p2, p3}
    MaxAdmissions = 3
    MaxFaults = 2
    Source = Source
    Zero = Zero
    Garbage = Garbage
INVARIANTS TypeOK LoadedIsExact
PROPERTIES ParkedComesBack
CHECK_DEADLOCK FALSE
