SPECIFICATION Spec
CONSTANTS
    images = images
    config = config
    f1 = f1
    f2 = f2
    Cat = {images, config}
    Folder = {sub}
    MaxDepth = 2
    Name = {f1, f2}
    Recorded = {f1}
    Nothing = Nothing
    Initial <- MCInitial
    MaxClicks = 5
    MaxLists = 2
INVARIANTS TypeOK BusyExact TicksListed ListingHere ResultsOwn
PROPERTIES DeletedWhereSeen LandsWhereSaid QueueKept SpinnersEnd
