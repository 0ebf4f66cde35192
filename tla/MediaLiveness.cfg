SPECIFICATION FairSpec
CONSTANTS
    u1 = u1  u2 = u2  w1 = w1  w2 = w2
    jpeg = jpeg  png = png  virus = virus  truncated = truncated  bomb = bomb
    Upload = {u1, u2}
    Content = {jpeg, png}
    Matches <- MCMatches
    Unreadable <- MCUnreadable
    Undecodable = {}
    Infected = {}
    Product = {p1}
    Worker = {w1, w2}
    Caller = {a1}
    Faults = {}
    MaxEvents = 1
    NoContent = NoContent  NoProduct = NoProduct
    NoUpload = NoUpload    NoWorker = NoWorker
PROPERTIES EventuallySettled
