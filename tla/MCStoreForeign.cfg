SPECIFICATION Spec
CONSTANTS
    f1 = f1
    f2 = f2
    File = {f1, f2}
    Length <- MCLength
    Inode = {i1, i2, i3, i4}
    Req = {r1, r2}
    Absent = Absent
    Blank = Blank
    Hole = Hole
    Overlaps = {}
    ForeignResume = TRUE
    MaxFaults = 0
SYMMETRY MCSymmetry
INVARIANTS VerifyConfirms
