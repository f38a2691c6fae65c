SPECIFICATION Spec
CONSTANTS
    Shards = {s1, s2}
    Names = {1, 2, 3, 4, 5}
    Limits = {1, 2}
    None = None
    MaxChurn = 2
INVARIANTS PagesAscend NoneSkipped PagesAreFull
\* A listing ends.
CHECK_DEADLOCK FALSE
