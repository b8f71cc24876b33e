SPECIFICATION Spec
CONSTANTS
    f1 = f1
    f2 = f2
    File = {f1}
    Length <- MCLength
    Inode = {i1, i2, i3, i4}
    Req = {r1, r2}
    Absent = Absent
    Blank = Blank
    Hole = Hole
    Overlaps = {{"patch"}}
    ForeignResume = FALSE
    MaxFaults = 0
SYMMETRY MCSymmetry
INVARIANTS PublishedIntact
