SPECIFICATION Spec
CONSTANTS
    u1 = u1  u2 = u2  w1 = w1  w2 = w2
    jpeg = jpeg  png = png  virus = virus  truncated = truncated  bomb = bomb
    Upload = {u1}
    Content = {jpeg, png, virus, truncated, bomb}
    Matches <- MCMatchesBoth
    Unreadable <- MCUnreadable
    Undecodable = {truncated}
    Infected = {virus}
    Product = {p1, p2}
    Worker = {w1, w2}
    Caller = {a1}
    Faults = {"task_dies"}
    MaxEvents = 2
    NoContent = NoContent  NoProduct = NoProduct
    NoUpload = NoUpload    NoWorker = NoWorker
SYMMETRY Symmetry
INVARIANTS ReadyIsVetted NoDoubleProcessing
PROPERTIES ImplementsLifecycle
