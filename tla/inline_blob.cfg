SPECIFICATION Spec
CONSTANTS
    h1 = h1
    h2 = h2
    i1 = i1
    i2 = i2
    short = short
    long = long
    Handles = {h1, h2}
    Ids = {i1, i2}
    Contents = {short, long}
    Length <- Lengths
    MaxSize = 3
    MaxRows = 2
SYMMETRY Symmetric
INVARIANTS Fresh Accounted
