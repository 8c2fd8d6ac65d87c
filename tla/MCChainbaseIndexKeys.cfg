SPECIFICATION Spec
CONSTANTS
    k1 = k1
    k2 = k2
    d1 = d1
    d2 = d2
    Key = {k1, k2}
    Data = {d1, d2}
    None = None
    KeysMutable = TRUE
    MaxId = 3
    DepthBound = 3
    RevisionBound = 3
SYMMETRY KeysAreInterchangeable
INVARIANT UndoNeverFails
