SPECIFICATION Spec
CONSTANTS
    d1 = d1  d2 = d2  p1 = p1  p2 = p2
    admin = admin  colleague = colleague  customer = customer  key = key
    Staff = {admin, colleague}
    Admin = admin
    Customer = {customer}
    Endpoints = {"disable_customer", "create_staff"}
    NewRoles = {"store_manager"}
    Device = {d1, d2}
    Key = {key}
    Reason = {"fraud", "novel"}
    LongReason = {"novel"}
    Process = {p1}
    Crashes = {"checking_mfa", "looking_up", "dropping", "acting", "auditing", "confirming"}
    MaxAudits = 2
    NoDevice = NoDevice
    NoRecord = NoRecord
INVARIANTS  UnauditedNeedsLostEntry
 
