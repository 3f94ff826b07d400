CONSTANTS
    Jobs = {"sync", "backup", "prune"}
    Every <- MCEvery
    Day = 11
    MaxRun <- MCMaxRun
SPECIFICATION Spec
INVARIANTS
    ShutdownReportsNothing
    OneBackupPerNight
    HealthyMeansFreshSync
    HealthyWhileSyncsSucceed
PROPERTIES
    NoBackToBackTick
    NoNightWithoutBackup
    EveryJobRunsAgain
