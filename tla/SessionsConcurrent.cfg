SPECIFICATION Spec
CONSTANTS
    c1 = c1  c2 = c2
    s1 = s1  s2 = s2  s3 = s3  p1 = p1  p2 = p2
    Customer = {c1}
    Session = {s1, s2, s3}
    Process = {p1, p2}
    Providers = {"password", "google"}
    NoCustomer = NoCustomer
    NoSession = NoSession
SYMMETRY Symmetry
INVARIANTS OneAuditPerRevocation SecondSuccessorNeedsContest
           OnlyStraysSurvive
PROPERTIES ImplementsChains
