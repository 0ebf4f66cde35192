SPECIFICATION Spec
CONSTANTS
    u1 = u1  u2 = u2  w1 = w1  w2 = w2
    jpeg = jpeg  png = png  virus = virus  truncated = truncated  bomb = bomb
    Upload = {u1}
    Content = {jpeg, virus, truncated, bomb}
    Matches <- MCMatchesBoth
    Unreadable <- MCUnreadable
    Undecodable = {truncated}
    Infected = {virus}
    Product = {p1}
    Worker = {w1, w2}
    Caller = {a1}
    Faults = {"task_dies", "lost_connection", "scan_error"}
    MaxEvents = 2
    NoContent = NoContent  NoProduct = NoProduct
    NoUpload = NoUpload    NoWorker = NoWorker
SYMMETRY Symmetry
INVARIANTS AttachedIsReady
PROPERTIES SettledIsFinal
