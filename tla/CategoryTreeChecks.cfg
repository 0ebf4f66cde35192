SPECIFICATION FairSpec
CONSTANTS
    a = a  b = b  c = c  p1 = p1  p2 = p2
    Category = {a, b, c}
    Process = {p1, p2}
    Root = Root
INVARIANTS CycleNeedsStaleCheck
PROPERTIES WalksEnd
