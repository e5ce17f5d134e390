CONSTANTS
    SR_COUNT = 4
    SLB_SIZE = 8
    StaleEntries <- MCStale
SPECIFICATION FairSpec
INVARIANTS
    SingleTranslation
    SlbDiscipline
    SoftwareAgrees
    SlbieUnambiguous
PROPERTIES
    FaultResolves
