SPECIFICATION Spec
CONSTANTS
    Device = {1, 2}
    Rank <- IdRank
    Author = 1
    X = X
    Y = Y
    Z = Z
    W = W
    V = V
    Content = {X, Y, Z, W, V}
    Editable = {"highlight", "copy"}
    Deletable = {}
    Skewed = FALSE
    MaxStamp = 5
    MaxEdits = 4
SYMMETRY Symmetry
INVARIANT Converged
\* Edits are bounded: readers stop.
CHECK_DEADLOCK FALSE
