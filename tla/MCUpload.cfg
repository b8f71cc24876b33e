SPECIFICATION USpec
CONSTANTS
    f1 = f1
    f2 = f2
    File = {f1}
    Length <- MCLength
    Inode = {i1, i2, i3}
    Req = {r1, r2}
    Absent = Absent
    Blank = Blank
    Hole = Hole
    Overlaps = {}
    ForeignResume = FALSE
    MaxFaults = 1
    Mine = f1
    Previous = Absent
    MAX_ATTEMPTS = 3
    MaxDrops = 2
INVARIANTS ClientTypeOK SuccessMeansPublished OffsetStaged
PROPERTIES UploadSucceeds
