CONSTANTS
    Statuses <- HttpStatuses
    ExceptionHops = 1
    MaxHops = 2
SPECIFICATION FairRunnerSpec
INVARIANTS TablesPartition DecidesAsDocumented StatusIsReported StartIsAccountedFor EntryIsOneShot
PROPERTIES NoSecondStart Settles
CHECK_DEADLOCK FALSE
