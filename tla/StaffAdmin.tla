----------------------------- MODULE StaffAdmin -----------------------------
(***************************************************************************)
(* The sensitive actions of staff (create a staff account, disable a       *)
(* customer, reset a colleague's MFA device), each behind a role           *)
(* permission, a confirmed MFA device and an Idempotency-Key, and the      *)
(* enrolment of MFA devices.                                               *)
(*                                                                         *)
(* As in Sessions, every ORM statement commits on its own: a request is a  *)
(* sequence of one action per statement, other requests run in between,    *)
(* and a process may die between any two.  The sessions a disabled         *)
(* customer loses are the subject of Sessions.                             *)
(***************************************************************************)
EXTENDS Naturals, Sequences

CONSTANTS
    Staff,         \* the e-mail addresses staff accounts may have
    Admin,         \* the master admin made by create_master_admin
    Customer,
    Endpoints,     \* bound: the sensitive endpoints that are called
    NewRoles,      \* bound: the roles new accounts are given
    Device,        \* bound: the primary keys TOTP devices may take
    Key,           \* the idempotency keys clients use
    Reason,        \* the reasons given for disabling a customer
    LongReason,    \* those the audit table's column cannot hold
    Process,
    Crashes,       \* the points of a request at which web processes die
    MaxAudits,     \* bound: audit entries per key after which no request begins
    NoDevice, NoRecord

Role == {"master_admin", "store_manager", "order_staff"}
Sensitive == {"create_staff", "disable_customer", "reset_staff_mfa"}

\* How far a sensitive request has come; past the look-up, it is working.
SensitivePoint == {"checking_mfa", "looking_up", "dropping", "acting",
                   "auditing", "remembering"}
WorkingPoint == SensitivePoint \ {"checking_mfa", "looking_up"}

Target == Staff \cup Customer
Data == Role \cup Reason \cup {"no_body"}

\* An idempotency key counts per actor and action.
Slot == [actor : Staff, action : Endpoints, key : Key]
Record == [target : Target, data : Data]

ASSUME StaffAdminAssumption ==
    /\ Admin \in Staff
    /\ Endpoints \subseteq Sensitive
    /\ NewRoles \subseteq Role
    /\ LongReason \subseteq Reason
    /\ NoDevice \notin Device
    /\ NoRecord \notin Record
    /\ Crashes \subseteq SensitivePoint \cup {"confirming"}
    /\ MaxAudits \in Nat

VARIABLES
    role,          \* Staff -> Staff.role, "absent" when there is no account
    device,        \* Staff -> the StaffTOTPDevice of the account
    confirmed,     \* the devices whose confirmed_at is set
    inactive,      \* the customers whose is_active is false
    records,       \* Slot -> IdempotencyRecord
    expired,       \* the slots whose record is past its expires_at
    audits,        \* Slot -> targets of the AuditLogEntry rows, oldest first
    request,       \* Process -> the request it serves
    used,          \* history: the devices ever created
    enrolled,      \* history: the staff who ever presented a valid token
    lapsed,        \* history: Slot -> how many records were dropped as expired
    answered,      \* history: the successful answers given, replays included
    unaudited,     \* history: the customers a disabling of whom ended without entry
    exposed        \* history: the slots with which a request worked while another
                   \* one, or one that died, had its response still to store

accounts == <<role, device, confirmed, inactive>>
idempotency == <<records, expired, lapsed>>
history == <<used, enrolled, answered, unaudited, exposed>>
vars == <<role, device, confirmed, inactive, records, expired, audits, request,
          used, enrolled, lapsed, answered, unaudited, exposed>>

Idle == [at |-> "idle"]
SensitiveRequest ==
    [at : SensitivePoint, slot : Slot, target : Target, data : Data]
ConfirmRequest == [at : {"confirming"}, staff : Staff, device : Device]

TypeOK ==
    /\ role \in [Staff -> Role \cup {"absent"}]
    /\ device \in [Staff -> Device \cup {NoDevice}]
    /\ confirmed \subseteq Device
    /\ inactive \subseteq Customer
    /\ records \in [Slot -> Record \cup {NoRecord}]
    /\ expired \subseteq Slot
    /\ audits \in [Slot -> Seq(Target)]
    /\ request \in [Process -> {Idle} \cup SensitiveRequest \cup ConfirmRequest]
    /\ used \subseteq Device
    /\ enrolled \subseteq Staff
    /\ lapsed \in [Slot -> Nat]
    /\ answered \subseteq [slot : Slot, target : Target, data : Data]
    /\ unaudited \subseteq Customer
    /\ exposed \subseteq Slot

Init ==
    /\ role = [s \in Staff |-> IF s = Admin THEN "master_admin" ELSE "absent"]
    /\ device = [s \in Staff |-> NoDevice]
    /\ confirmed = {}
    /\ inactive = {}
    /\ records = [k \in Slot |-> NoRecord]
    /\ expired = {}
    /\ audits = [k \in Slot |-> <<>>]
    /\ request = [p \in Process |-> Idle]
    /\ used = {}
    /\ enrolled = {}
    /\ lapsed = [k \in Slot |-> 0]
    /\ answered = {}
    /\ unaudited = {}
    /\ exposed = {}

-----------------------------------------------------------------------------
(* Permissions, MFA and request bodies.                                    *)

\* ROLE_PERMISSIONS
Permissions(r) ==
    CASE r = "master_admin"  -> Sensitive
      [] r = "store_manager" -> {"disable_customer"}
      [] OTHER               -> {}

HasConfirmedMfa(s) == device[s] \in confirmed

\* What the request hash tells apart within a slot: the body names the target
\* only for create_staff; the other two actions take it from the URL.
SameBody(slot, r, rec) ==
    /\ r.data = rec.data
    /\ slot.action = "create_staff" => r.target = rec.target

Targets(action) ==
    CASE action = "create_staff"     -> Staff
      [] action = "disable_customer" -> Customer
      [] action = "reset_staff_mfa"  -> {s \in Staff : role[s] # "absent"}
Bodies(action) ==
    CASE action = "create_staff"     -> NewRoles
      [] action = "disable_customer" -> Reason
      [] action = "reset_staff_mfa"  -> {"no_body"}

\* The targets of the audit entries written under a slot.
Audited(slot) == {audits[slot][i] : i \in DOMAIN audits[slot]}

At(p, at) == request[p].at = at
GoTo(p, at) == request' = [request EXCEPT ![p] = [@ EXCEPT !.at = at]]
End(p) == request' = [request EXCEPT ![p] = Idle]

\* p is past its look-up with the key of slot k; its response is all that is
\* missing.
Working(p, k) == request[p].at \in WorkingPoint /\ request[p].slot = k
Finishing(k) == {p \in Process : At(p, "remembering") /\ request[p].slot = k}

Expose(k, atRisk) == exposed' = IF atRisk THEN exposed \cup {k} ELSE exposed

\* p goes on from the look-up, perhaps while another has still to store a response.
GoToWork(p, at) ==
    LET k == request[p].slot IN GoTo(p, at) /\ Expose(k, Finishing(k) # {})

\* p has disabled c and is about to write the entry.
OwesEntry(p, c) == /\ At(p, "auditing") /\ request[p].target = c
                   /\ request[p].slot.action = "disable_customer"
Owed(p) == {c \in Customer : OwesEntry(p, c)}

-----------------------------------------------------------------------------
(* MFA enrolment.                                                          *)

\* start_mfa_setup: get_or_create.
StartMfaSetup(s) ==
    /\ role[s] # "absent"
    /\ device[s] = NoDevice
    /\ \E d \in Device \ used :
        /\ device' = [device EXCEPT ![s] = d]
        /\ used' = used \cup {d}
    /\ UNCHANGED <<role, confirmed, inactive, idempotency, audits, request,
                   enrolled, answered, unaudited, exposed>>

\* confirm_mfa_setup reads the device and the token is valid for its key.
VerifyToken(p, s) ==
    /\ At(p, "idle")
    /\ device[s] # NoDevice
    /\ request' = [request EXCEPT ![p] = [at |-> "confirming", staff |-> s,
                                          device |-> device[s]]]
    /\ enrolled' = enrolled \cup {s}
    /\ UNCHANGED <<accounts, idempotency, audits, used, answered, unaudited, exposed>>

\* Slip: save() without update_fields inserts the row again when it is gone.
SaveWholeDevice(p) ==
    LET r == request[p] IN
    /\ At(p, "confirming")
    /\ confirmed' = confirmed \cup {r.device}
    /\ device' = [device EXCEPT ![r.staff] = r.device]
    /\ End(p)
    /\ UNCHANGED <<role, inactive, idempotency, audits, history>>

\* device.save(update_fields=["confirmed_at"]): an error when the row is gone.
ConfirmDevice(p) ==
    LET r == request[p] IN
    /\ At(p, "confirming")
    /\ IF device[r.staff] = r.device
       THEN confirmed' = confirmed \cup {r.device}
       ELSE UNCHANGED confirmed
    /\ End(p)
    /\ UNCHANGED <<role, device, inactive, idempotency, audits, history>>

-----------------------------------------------------------------------------
(* A sensitive request, up to its effect.                                  *)

\* Authentication and check_policy.
BeginSensitive(p, slot) ==
    /\ At(p, "idle")
    /\ slot.action \in Permissions(role[slot.actor])
    /\ Len(audits[slot]) < MaxAudits
    /\ \E t \in Targets(slot.action), b \in Bodies(slot.action) :
        request' = [request EXCEPT ![p] = [at |-> "checking_mfa", slot |-> slot,
                                           target |-> t, data |-> b]]
    /\ UNCHANGED <<accounts, idempotency, audits, history>>

\* Slip: having started the enrolment is enough.
CheckDevicePresent(p) ==
    /\ At(p, "checking_mfa")
    /\ IF device[request[p].slot.actor] # NoDevice
       THEN GoTo(p, "looking_up") ELSE End(p)
    /\ UNCHANGED <<accounts, idempotency, audits, history>>

\* require_confirmed_mfa; the service's own check sees the same device, which
\* the ORM keeps on request.user.
CheckMfa(p) ==
    /\ At(p, "checking_mfa")
    /\ IF HasConfirmedMfa(request[p].slot.actor)
       THEN GoTo(p, "looking_up") ELSE End(p)
    /\ UNCHANGED <<accounts, idempotency, audits, history>>

\* Slip: the request body is not compared.
ReplayAnyBody(p) ==
    LET r == request[p]  rec == records[r.slot] IN
    /\ At(p, "looking_up")
    /\ \/ /\ rec = NoRecord
          /\ GoToWork(p, "acting")
          /\ UNCHANGED answered
       \/ /\ rec # NoRecord /\ r.slot \in expired
          /\ GoToWork(p, "dropping")
          /\ UNCHANGED answered
       \/ /\ rec # NoRecord /\ r.slot \notin expired
          /\ answered' = answered \cup
                {[slot |-> r.slot, target |-> r.target, data |-> r.data]}
          /\ End(p)
          /\ UNCHANGED exposed
    /\ UNCHANGED <<accounts, idempotency, audits, used, enrolled, unaudited>>

\* Slip: the lookup always misses.
NeverReplay(p) ==
    /\ At(p, "looking_up")
    /\ GoToWork(p, "acting")
    /\ UNCHANGED <<accounts, idempotency, audits, used, enrolled, answered, unaudited>>

\* get_cached_response: a miss, a stale record, a conflict or a replay.
LookUp(p) ==
    LET r == request[p]  rec == records[r.slot] IN
    /\ At(p, "looking_up")
    /\ \/ /\ rec = NoRecord
          /\ GoToWork(p, "acting")
          /\ UNCHANGED answered
       \/ /\ rec # NoRecord /\ r.slot \in expired
          /\ GoToWork(p, "dropping")
          /\ UNCHANGED answered
       \/ /\ rec # NoRecord /\ r.slot \notin expired
          /\ ~SameBody(r.slot, r, rec)
          /\ End(p)
          /\ UNCHANGED <<answered, exposed>>
       \/ /\ rec # NoRecord /\ r.slot \notin expired
          /\ SameBody(r.slot, r, rec)
          /\ answered' = answered \cup
                {[slot |-> r.slot, target |-> r.target, data |-> r.data]}
          /\ End(p)
          /\ UNCHANGED exposed
    /\ UNCHANGED <<accounts, idempotency, audits, used, enrolled, unaudited>>

\* record.delete() of the stale row; another process may have replaced it.
DropExpired(p) ==
    LET slot == request[p].slot IN
    /\ At(p, "dropping")
    /\ IF slot \in expired
       THEN /\ records' = [records EXCEPT ![slot] = NoRecord]
            /\ lapsed' = [lapsed EXCEPT ![slot] = @ + 1]
       ELSE UNCHANGED <<records, lapsed>>
    /\ expired' = expired \ {slot}
    /\ GoTo(p, "acting")
    /\ UNCHANGED <<accounts, audits, history>>

-----------------------------------------------------------------------------
(* The effect, its audit entry and the record of the response.             *)

\* create_staff: the e-mail address is unique.
CreateStaff(p) ==
    LET r == request[p] IN
    /\ At(p, "acting") /\ r.slot.action = "create_staff"
    /\ IF role[r.target] = "absent"
       THEN /\ role' = [role EXCEPT ![r.target] = r.data]
            /\ GoTo(p, "auditing")
       ELSE End(p) /\ UNCHANGED role
    /\ UNCHANGED <<device, confirmed, inactive, idempotency, audits, history>>

\* disable_customer up to its audit entry.
DisableCustomer(p) ==
    LET r == request[p] IN
    /\ At(p, "acting") /\ r.slot.action = "disable_customer"
    /\ inactive' = inactive \cup {r.target}
    /\ GoTo(p, "auditing")
    /\ UNCHANGED <<role, device, confirmed, idempotency, audits, history>>

\* reset_staff_mfa deletes the target's device, if there is one.
ResetStaffMfa(p) ==
    LET r == request[p] IN
    /\ At(p, "acting") /\ r.slot.action = "reset_staff_mfa"
    /\ device' = [device EXCEPT ![r.target] = NoDevice]
    /\ GoTo(p, "auditing")
    /\ UNCHANGED <<role, confirmed, inactive, idempotency, audits, history>>

\* Slip: the entry is skipped.
SkipAudit(p) ==
    /\ At(p, "auditing")
    /\ GoTo(p, "remembering")
    /\ UNCHANGED <<accounts, idempotency, audits, history>>

\* write_audit_log: a reason the column cannot hold is an error of the database,
\* when what the entry is about has been committed.
WriteAudit(p) ==
    LET r == request[p] IN
    /\ At(p, "auditing")
    /\ IF r.data \in LongReason
       THEN /\ End(p)
            /\ unaudited' = unaudited \cup Owed(p)
            /\ UNCHANGED <<audits, exposed>>
       ELSE /\ audits' = [audits EXCEPT ![r.slot] = Append(@, r.target)]
            /\ GoTo(p, "remembering")
            /\ Expose(r.slot, \E q \in Process \ {p} : Working(q, r.slot))
            /\ UNCHANGED unaudited
    /\ UNCHANGED <<accounts, idempotency, used, enrolled, answered>>

\* store_response; the unique constraint lets one record in per slot, and the
\* loser's request fails after its effect.
Remember(p) ==
    LET r == request[p] IN
    /\ At(p, "remembering")
    /\ IF records[r.slot] = NoRecord
       THEN /\ records' = [records EXCEPT ![r.slot] =
                                [target |-> r.target, data |-> r.data]]
            /\ answered' = answered \cup
                {[slot |-> r.slot, target |-> r.target, data |-> r.data]}
       ELSE UNCHANGED <<records, answered>>
    /\ End(p)
    /\ UNCHANGED <<accounts, expired, lapsed, audits, used, enrolled, unaudited, exposed>>

-----------------------------------------------------------------------------
\* The TTL of a record ends.
ExpireRecord(slot) ==
    /\ records[slot] # NoRecord
    /\ expired' = expired \cup {slot}
    /\ UNCHANGED <<accounts, records, lapsed, audits, request, history>>

\* A web process dies; what its statements have committed stays.
Crash(p) ==
    /\ request[p].at \in Crashes
    /\ End(p)
    /\ unaudited' = unaudited \cup Owed(p)
    /\ IF At(p, "remembering")
       THEN Expose(request[p].slot, TRUE) ELSE UNCHANGED exposed
    /\ UNCHANGED <<accounts, idempotency, audits, used, enrolled, answered>>

-----------------------------------------------------------------------------
(* The endpoints.                                                          *)

MfaSetupView == \E s \in Staff : StartMfaSetup(s)

MfaConfirmView(p) == (\E s \in Staff : VerifyToken(p, s)) \/ ConfirmDevice(p)

\* What the views of the sensitive actions have in common.
SensitiveView(p, action) ==
    \/ \E slot \in Slot : slot.action = action /\ BeginSensitive(p, slot)
    \/ /\ ~At(p, "idle") /\ ~At(p, "confirming")
       /\ request[p].slot.action = action
       /\ \/ CheckMfa(p)
          \/ LookUp(p)
          \/ DropExpired(p)
          \/ WriteAudit(p)
          \/ Remember(p)

CreateStaffView(p) == SensitiveView(p, "create_staff") \/ CreateStaff(p)
DisableCustomerView(p) ==
    SensitiveView(p, "disable_customer") \/ DisableCustomer(p)
ResetStaffMfaView(p) == SensitiveView(p, "reset_staff_mfa") \/ ResetStaffMfa(p)

Next ==
    \/ MfaSetupView
    \/ \E p \in Process :
        \/ MfaConfirmView(p)
        \/ CreateStaffView(p)
        \/ DisableCustomerView(p)
        \/ ResetStaffMfaView(p)
        \/ Crash(p)
    \/ \E slot \in Slot : ExpireRecord(slot)

Spec == Init /\ [][Next]_vars

-----------------------------------------------------------------------------
(* Correctness.                                                            *)

\* Every sensitive action that reached the audit log was done under a role that
\* permits it by someone who had once proved possession of an MFA device,
\* whatever resets and enrolments ran at the same time (check_policy,
\* require_confirmed_mfa, confirm_mfa_setup).
ActorsEnrolled ==
    \A k \in Slot : audits[k] # <<>> =>
        /\ k.action \in Permissions(role[k.actor])
        /\ k.actor \in enrolled

\* A reset forces re-enrolment: a device that was deleted is nobody's device
\* again, not even by a confirmation that was under way (reset_staff_mfa,
\* confirm_mfa_setup).
InUse(d) == \E s \in Staff : device[s] = d
ResetIsFinal ==
    [][\A d \in used : ~InUse(d) => ~InUse(d)']_vars

\* A stored response stands for an effect that was carried out and audited, so
\* a replay never reports work that was not done (remember_response comes last).
RecordMeansEffect ==
    \A k \in Slot : records[k] # NoRecord => records[k].target \in Audited(k)

\* Whoever was told that an account exists, by a first answer or by a replay,
\* was told the truth, the role included (CreateStaffView, replay_if_cached).
AcknowledgedCreation ==
    \A a \in answered :
        a.slot.action = "create_staff" => role[a.target] = a.data

\* The same key makes "no new side effect": while its record lives, a
\* key stands for one effect (get_cached_response, store_response).
OneEffectPerKey ==
    \A k \in Slot : Len(audits[k]) <= 1 + lapsed[k]

\* A key stands for a second effect while its record lives only if a request was past
\* its look-up when another with the key had its effect audited and its response
\* still to store, or a process died there.  A retry sent once the earlier
\* attempt is over, however it ended otherwise, adds none, and neither does one
\* that overlaps earlier only (get_cached_response, store_response).
SecondEffectNeedsExposure ==
    \A k \in Slot : Len(audits[k]) > 1 + lapsed[k] => k \in exposed

\* "Permission AND a confirmed MFA device required, audited": an inactive customer
\* has an audit entry, or a request is about to write it.  The code breaks this
\* in one way only: a process died with the entry still to write, or the
\* entry's column did not hold the reason (disable_customer, write_audit_log).
UnauditedNeedsLostEntry ==
    \A c \in inactive :
        \/ \E k \in Slot : k.action = "disable_customer" /\ c \in Audited(k)
        \/ \E p \in Process : OwesEntry(p, c)
        \/ c \in unaudited

\* The bodies whose response a key stands for: that of its record, and that of a
\* request that has had its effect and is about to store the record.
StandsFor(k) ==
    ({records[k]} \ {NoRecord}) \cup
    {[target |-> request[p].target, data |-> request[p].data] : p \in Finishing(k)}
Kept == [k \in Slot |-> StandsFor(k)]

\* "Same actor + key + request body -> same stored response, replayed, no new
\* side effect.  Same key, different body -> IdempotencyKeyConflict": lookup,
\* effect and record are statements of their own, and still a key acts as in
\* KeyedEffects, where the effect and its response are one step
\* (get_cached_response, store_response).
Keys == INSTANCE KeyedEffects WITH Body <- Record, Alike <- SameBody,
                                   kept <- Kept, log <- audits
ImplementsKeys == Keys!Spec
=============================================================================
