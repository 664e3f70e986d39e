\* Two streams at a time, two kinds of data, data added while the list has fewer
\* than five items.
CONSTANTS
    Ids = {1, 2}
    Data = {a, b}
    MaxItems = 5
SPECIFICATION Spec
INVARIANT IndexAgrees
PROPERTY ImplementsStreams
