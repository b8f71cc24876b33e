SPECIFICATION Spec
CONSTANTS
    s1 = s1
    s2 = s2
    p1 = p1
    p2 = p2
    Serial = {s1, s2}
    Default = Default
    Password = {p1, p2}
    Absent = Absent
    Keep = Keep
    HasKey = TRUE
    PolicyUrl = TRUE
    Editor = {a}
    Initial <- MCInitialEdited
    MaxClicks = 5
PROPERTY UntouchedKeeps
