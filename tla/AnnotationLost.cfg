SPECIFICATION Spec
CONSTANTS
    Device = {1, 2, 3}
    Rank <- IdRank
    Author = 1
    X = X
    Y = Y
    Z = Z
    W = W
    V = V
    Content = {X, Y, Z}
    Editable = {"highlight"}
    Deletable = {}
    Skewed = FALSE
    MaxStamp = 4
    MaxEdits = 3
SYMMETRY Symmetry
INVARIANT NoneLost
\* Edits are bounded: readers stop.
CHECK_DEADLOCK FALSE
