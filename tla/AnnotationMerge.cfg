SPECIFICATION Spec
CONSTANTS
    Device = {1, 2}
    Rank <- IdRank
    Author = 1
    X = X
    Y = Y
    Z = Z
    W = W
    V = V
    Content = {X, Y, Z, W, V}
    Editable = {"highlight"}
    Deletable = {"highlight"}
    Skewed = TRUE
    MaxStamp = 5
    MaxEdits = 4
SYMMETRY Symmetry
INVARIANT TypeOK
INVARIANT ConvergedFresh
INVARIANT NoneLostFresh
INVARIANT Quiet
INVARIANT MergedCovered
INVARIANT HistoriesAgree
PROPERTY HistoryGrows
PROPERTY PublishesNews
\* Edits are bounded: readers stop.
CHECK_DEADLOCK FALSE
