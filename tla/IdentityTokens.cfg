SPECIFICATION Spec
CONSTANTS
    c1 = c1  c2 = c2
    t1 = t1  t2 = t2
    e1 = e1  e2 = e2
    g1 = g1  g2 = g2
    p1 = p1  p2 = p2
    Customer = {c1, c2}
    Token = {t1, t2}
    Email = {e1, e2}
    Subject = {g1, g2}
    Process = {p1, p2}
    NoCustomer = NoCustomer
    NoToken = NoToken
    NoEmail = NoEmail
    NoSubject = NoSubject
SYMMETRY Symmetry
CHECK_DEADLOCK FALSE
INVARIANTS OneOwnerPerEmail SecondUseNeedsOverlap VerifiedAddressProven
           ConsumedMeansDone
PROPERTIES GoogleNeverTakesOver
