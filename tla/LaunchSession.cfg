SPECIFICATION LaunchSpec
CONSTANTS
    l1 = l1
    l2 = l2
    l3 = l3
    Launchers <- MCLaunchers
    Retries = 2
    Old = Old
    Malformed = Malformed
    Absent = Absent
SYMMETRY MCSymmetry
INVARIANT LaunchSound
PROPERTIES ReusedIsTheServer OnlyTheUnawareRemove
CHECK_DEADLOCK FALSE
