SPECIFICATION Spec
CONSTANTS
    Machine = {m1, m2}
    m1 = m1
    m2 = m2
    Reported = {"succeeded"}
    Lines = 2
    MaxMachines = 1
    MaxInFlight = 1
    MaxRows = 1
    MaxEvents = 2
    Filters <- MCFilters
    Connections = 2
    PageSize = 1
    Limit = 2
INVARIANTS TypeOK FleetLatest SnapshotRecent LogsOwn PageInRange StoredOnce
PROPERTIES FleetConverges SlotsReturned RefinesEventLog
CHECK_DEADLOCK FALSE
