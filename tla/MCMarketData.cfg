\* Two orders, two prices, four instants, five lines: orders that share a
\* price, an id inserted twice, an erase of an unknown id, a book that empties
\* and fills again.
CONSTANTS
    Ids = {o1, o2}
    Prices = {2, 3}
    MaxTime = 3
    MaxLines = 5
SYMMETRY MCIdSymmetry
SPECIFICATION Spec
INVARIANTS
    HighestIfRegular
    WeightedIsAverage
CHECK_DEADLOCK FALSE
