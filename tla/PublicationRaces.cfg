SPECIFICATION Spec
CONSTANTS
    x1 = x1  v1 = v1  v2 = v2  p1 = p1  p2 = p2  u1 = u1
    Product = {x1}
    Variant = {v1, v2}
    Process = {p1, p2}
    Locale = {"vi", "en"}
    DefaultLocale = "vi"
    MaxPublications = 2
    Upload = {u1}
    Elsewhere = Elsewhere
    NoProduct = NoProduct
SYMMETRY Symmetry
INVARIANTS TypeOK EveryPublicationAnnounced IncompleteNeedsWithdrawal
           BlankNeedsWithdrawal VisibleDraftWasApproved UncategorisedNeedsFailure
