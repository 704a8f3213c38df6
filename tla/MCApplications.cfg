SPECIFICATION FairSpec
CONSTANTS
    Procs = {"op", "cron"}
    Writer = "op"
    Scheduled = {"cron"}
    Calls <- Commands_
    MaxCalls = 2
    MaxDeaths = 1
    Garbled = Garbled
    Posting <- Postings
    TrackerKey <- TrackerKeys
    FormUrls = {3}
    Side <- SideRows
    StaleAfter = 0
    MaxDay = 1
    OldLedger <- TheLedger
    OldAudits <- TheAudits
INVARIANTS TypeOK RowsKept NoTwin ReuseGrounded TrackerSound
PROPERTIES PassIsEarned ExportsSettle
CHECK_DEADLOCK FALSE
