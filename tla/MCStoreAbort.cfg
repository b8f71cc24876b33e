SPECIFICATION Spec
CONSTANTS
    f1 = f1
    f2 = f2
    File = {f1, f2}
    Length <- MCLength
    Inode = {i1, i2, i3, i4}
    Req = {r1, r2}
    Absent = Absent
    Blank = Blank
    Hole = Hole
    Overlaps = {{"delete"}, {"patch", "delete"}}
    ForeignResume = FALSE
    MaxFaults = 1
SYMMETRY MCSymmetry
INVARIANTS SidecarMatches
PROPERTIES PublishedImmutable RefinesAtomicBytes
