SPECIFICATION Spec
CONSTANTS
    d1 = d1  d2 = d2  p1 = p1  p2 = p2
    admin = admin  colleague = colleague  customer = customer  key = key
    Staff = {admin, colleague}
    Admin = admin
    Customer = {customer}
    Endpoints = {"create_staff", "reset_staff_mfa"}
    NewRoles = {"master_admin", "order_staff"}
    Device = {d1, d2}
    Key = {key}
    Reason = {"fraud"}
    LongReason = {}
    Process = {p1, p2}
    Crashes = {"checking_mfa", "looking_up", "dropping", "acting", "auditing",
               "remembering", "confirming"}
    MaxAudits = 1
    NoDevice = NoDevice
    NoRecord = NoRecord
\* Requests come from outside: once the bounds are used up none arrives.
CHECK_DEADLOCK FALSE
SYMMETRY Symmetry
INVARIANTS ActorsEnrolled RecordMeansEffect AcknowledgedCreation 
PROPERTIES ResetIsFinal
