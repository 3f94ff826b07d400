CONSTANTS
    Txns = {1, 2}
    Subs = {1, 2}
    Parent <- MCParent
    Dates = {1, 2}
    Kinds = {"loan payment", "fee abroad"}
    CategoryOf <- MCCategoryOf
    OnBudget = {"loan payment"}
    Transfers = {"loan payment"}
    Inflow = {"ready to assign"}
    Filters <- MCFilters
    Cited = {"loans"}
    Period <- MCPeriod
    Baseline <- MCBaseline
    MaxPage = 2
    MaxTicks = 3
SPECIFICATION Spec
INVARIANTS
    PagesCoverSteadyLines
    CountsAddUp
    FreshnessNeverOlderThanData
    NumbersCanBeCited
