SPECIFICATION Spec
CONSTANTS
    u1 = u1
    u2 = u2
    f1 = f1
    f2 = f2
    f3 = f3
    f4 = f4
    fileA = fileA
    fileB = fileB
    Updates = {u1, u2}
    Caddyfiles = {fileA, fileB}
    Files = {f1, f2, f3, f4}
    Missing = Missing
    Torn = Torn
    Overlap = FALSE
    MaxCrashes = 2
SYMMETRY Symmetry
INVARIANTS
    TypeOK
    AutosaveWhole
PROPERTIES
    AutosaveIsNew
