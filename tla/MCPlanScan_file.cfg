CONSTANTS
    Procs = {"serve", "archive"}
    Scanners = {"archive"}
    NMigrations = 2
    Repeatable = {2}
    Blank <- MCBlank
    NoOne = "nobody"
    Plans = {"p1", "p2"}
    MaxChanges = 2
SPECIFICATION Spec
INVARIANTS
    WriterNeverStuck
    MigratedOnce
    VerdictIsLastGoodScan
