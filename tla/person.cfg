SPECIFICATION Spec
CONSTANTS
    s1 = s1
    s2 = s2
    s3 = s3
    l1 = l1
    Savers <- ThreeSavers
    Loaders <- OneLoader
    Days = {0, 1}
    SummerDays = {1}
    UidBits = 1
    MaxId = 3
SYMMETRY Interchangeable
INVARIANTS TypeOK AloneIsSaved LoadShowsSaved
PROPERTIES TableSteps
CHECK_DEADLOCK FALSE
