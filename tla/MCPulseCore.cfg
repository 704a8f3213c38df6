SPECIFICATION FairSpec
CONSTANTS
    Procs = {"op", "cron"}
    Scheduled = {"cron"}
    Calls <- PulseCommands
    MaxCalls = 2
    MaxDeaths = 1
    Garbled = Garbled
    None = None
    Torn = Torn
    Gone = Gone
    Gs = {"g"}
    Roots = 2
    OldG <- TheG
    Tables <- TheTables
    Databases <- TheDatabases
    NoteDirs <- TheNotes
    Logs <- TheLogs
    StaleWarnDays = 7
    Premflows <- ThePremflows
    PipeSize = 1
    OldStores <- TheStores
    OldArchive <- TheArchive
    Incoming <- ThePack
    OpsAudit <- TheAudit
    MaxEdits = 1
    MaxSecond = 1
INVARIANTS TypeOK 
PROPERTIES ChecksSettle PackCatchesUp
CHECK_DEADLOCK FALSE
