-------------------------- MODULE StaffAdmin_proofs --------------------------
(***************************************************************************)
(* What the permission, MFA and idempotency checks guarantee for every     *)
(* number of staff, devices, keys and web processes, with requests that    *)
(* interleave between any two statements and processes that die.           *)
(***************************************************************************)
EXTENDS StaffAdmin, TLAPS

\* What holds of a sensitive request at its point of progress.
RequestGood(p) ==
    request[p].at \in SensitivePoint =>
        LET r == request[p] IN
        /\ r.slot.action \in Permissions(role[r.slot.actor])
        /\ r.at # "checking_mfa" => r.slot.actor \in enrolled
        /\ r.slot.action = "create_staff" => r.target \in Staff /\ r.data \in NewRoles
        /\ r.slot.action = "disable_customer" => r.target \in Customer
        /\ r.slot.action = "create_staff" /\ r.at \in {"auditing", "remembering"}
                => role[r.target] = r.data
        /\ r.at = "remembering" => r.target \in Audited(r.slot)

RequestsGood == \A p \in Process : RequestGood(p)

ConfirmationsGood == \A p \in Process : At(p, "confirming") =>
    request[p].staff \in enrolled /\ request[p].device \in used

\* Devices belong to one account, and a confirmed one to an enrolled account.
DevicesGood ==
    /\ confirmed \subseteq used
    /\ \A s \in Staff : device[s] \in used \cup {NoDevice}
    /\ \A s, t \in Staff : device[s] = device[t] /\ device[s] # NoDevice => s = t
    /\ \A s \in Staff : device[s] \in confirmed => s \in enrolled

Created(t, r) == t \in Staff /\ r \in NewRoles /\ role[t] = r
RecordGood(k) == records[k] # NoRecord =>
    /\ records[k].target \in Audited(k)
    /\ k.action = "create_staff" => Created(records[k].target, records[k].data)
RecordsGood == \A k \in Slot : RecordGood(k)
AnswersGood == \A a \in answered :
    a.slot.action = "create_staff" => Created(a.target, a.data)

StaffInv == /\ TypeOK /\ RequestsGood /\ ConfirmationsGood /\ DevicesGood
            /\ RecordsGood /\ AnswersGood /\ ActorsEnrolled

-----------------------------------------------------------------------------
(* Requests.                                                               *)

LEMMA SensitiveIsTyped ==
    ASSUME TypeOK, NEW p \in Process, request[p].at \in SensitivePoint
    PROVE  request[p] \in SensitiveRequest
<1>1. request[p] \in {Idle} \cup SensitiveRequest \cup ConfirmRequest
  BY DEF TypeOK
<1>2. request[p] # Idle
  BY DEF SensitivePoint, Idle
<1>3. request[p] \notin ConfirmRequest
  BY DEF SensitivePoint, ConfirmRequest
<1> QED BY <1>1, <1>2, <1>3

LEMMA ConfirmingIsTyped ==
    ASSUME TypeOK, NEW p \in Process, At(p, "confirming")
    PROVE  request[p] \in ConfirmRequest
<1>1. request[p] \in {Idle} \cup SensitiveRequest \cup ConfirmRequest
  BY DEF TypeOK
<1>2. request[p] # Idle
  BY DEF At, Idle
<1>3. request[p] \notin SensitiveRequest
  BY DEF At, SensitiveRequest, SensitivePoint
<1> QED BY <1>1, <1>2, <1>3

LEMMA GoToTyped ==
    ASSUME TypeOK, NEW p \in Process, request[p].at \in SensitivePoint,
           NEW at \in SensitivePoint, GoTo(p, at)
    PROVE  /\ request' \in [Process -> {Idle} \cup SensitiveRequest \cup ConfirmRequest]
           /\ request'[p].at = at
           /\ request'[p].slot = request[p].slot
           /\ request'[p].target = request[p].target
           /\ request'[p].data = request[p].data
           /\ \A q \in Process : q # p => request'[q] = request[q]
<1>1. request[p] \in SensitiveRequest
  BY SensitiveIsTyped
<1>2. PICK r : r = [request[p] EXCEPT !.at = at]
  OBVIOUS
<1>3. /\ r \in SensitiveRequest
      /\ r.at = at /\ r.slot = request[p].slot
      /\ r.target = request[p].target /\ r.data = request[p].data
  BY <1>1, <1>2 DEF SensitiveRequest, SensitivePoint
<1>4. request' = [request EXCEPT ![p] = r]
  BY <1>2 DEF GoTo, TypeOK
<1> QED BY <1>3, <1>4 DEF TypeOK

LEMMA EndTyped ==
    ASSUME TypeOK, NEW p \in Process, End(p)
    PROVE  /\ request' \in [Process -> {Idle} \cup SensitiveRequest \cup ConfirmRequest]
           /\ request'[p].at = "idle"
           /\ \A q \in Process : q # p => request'[q] = request[q]
BY DEF TypeOK, End, Idle

\* Appending to the audit log adds the new entry's target.
LEMMA AppendAudited ==
    ASSUME TypeOK, NEW k \in Slot, NEW t \in Target,
           audits' = [audits EXCEPT ![k] = Append(@, t)]
    PROVE  /\ audits' \in [Slot -> Seq(Target)]
           /\ t \in Audited(k)'
           /\ \A j \in Slot : Audited(j) \subseteq Audited(j)'
           /\ \A j \in Slot : j # k => audits'[j] = audits[j]
<1>1. audits[k] \in Seq(Target)
  BY DEF TypeOK
<1>2. audits'[k] = Append(audits[k], t) /\ \A j \in Slot : j # k => audits'[j] = audits[j]
  BY DEF TypeOK
<1>3. Append(audits[k], t) \in Seq(Target)
  BY <1>1
<1>4. audits' \in [Slot -> Seq(Target)]
  BY <1>3 DEF TypeOK
<1>5. /\ Len(audits[k]) \in Nat
      /\ DOMAIN audits[k] = 1 .. Len(audits[k])
      /\ DOMAIN audits'[k] = 1 .. Len(audits[k]) + 1
      /\ audits'[k][Len(audits[k]) + 1] = t
      /\ \A i \in 1 .. Len(audits[k]) : audits'[k][i] = audits[k][i]
  BY <1>1, <1>2
<1>6. t \in Audited(k)'
  BY <1>5 DEF Audited
<1>7. Audited(k) \subseteq Audited(k)'
  BY <1>5 DEF Audited
<1>8. \A j \in Slot : Audited(j) \subseteq Audited(j)'
  BY <1>2, <1>7 DEF Audited
<1> QED BY <1>2, <1>4, <1>6, <1>8

-----------------------------------------------------------------------------
(* What no step takes back.                                                *)

Grows ==
    /\ \A s \in Staff : role[s] # "absent" => role'[s] = role[s]
    /\ enrolled \subseteq enrolled'
    /\ used \subseteq used'
    /\ \A k \in Slot : Audited(k) \subseteq Audited(k)'

LEMMA PermittedExists ==
    ASSUME NEW r, NEW a, a \in Permissions(r)
    PROVE  r # "absent" /\ a \in Sensitive
BY DEF Permissions, Sensitive

LEMMA NewRolesExist == \A r \in NewRoles : r \in Role /\ r # "absent"
BY StaffAdminAssumption DEF Role

LEMMA CreatedKept ==
    ASSUME Grows, NEW t, NEW r, Created(t, r)
    PROVE  Created(t, r)'
BY NewRolesExist DEF Grows, Created

LEMMA RequestKept ==
    ASSUME TypeOK, Grows, NEW q \in Process, RequestGood(q), request'[q] = request[q]
    PROVE  RequestGood(q)'
<1> SUFFICES ASSUME request[q].at \in SensitivePoint
             PROVE  RequestGood(q)'
  BY DEF RequestGood
<1> DEFINE r == request[q]
<1>1. r.slot \in Slot /\ r.slot.actor \in Staff
  BY SensitiveIsTyped DEF SensitiveRequest, Slot
<1>2. role[r.slot.actor] # "absent"
  BY PermittedExists DEF RequestGood
<1>3. role'[r.slot.actor] = role[r.slot.actor]
  BY <1>1, <1>2 DEF Grows
<1>4. r.slot.action = "create_staff" /\ r.at \in {"auditing", "remembering"}
        => role'[r.target] = r.data
  BY NewRolesExist DEF RequestGood, Grows
<1>5. r.at # "checking_mfa" => r.slot.actor \in enrolled'
  BY DEF RequestGood, Grows
<1>6. r.at = "remembering" => r.target \in Audited(r.slot)'
  BY <1>1 DEF RequestGood, Grows
<1>7. request'[q].at \in SensitivePoint
  OBVIOUS
<1> HIDE DEF r
<1>8. /\ r.slot.action \in Permissions(role'[r.slot.actor])
      /\ r.slot.action = "create_staff" => r.target \in Staff /\ r.data \in NewRoles
      /\ r.slot.action = "disable_customer" => r.target \in Customer
  BY <1>3 DEF RequestGood, r
<1> QED BY <1>4, <1>5, <1>6, <1>8 DEF RequestGood, r

LEMMA RequestsKept ==
    ASSUME StaffInv, Grows, NEW p \in Process,
           \A q \in Process : q # p => request'[q] = request[q],
           RequestGood(p)', ~At(p, "confirming")'
    PROVE  RequestsGood' /\ ConfirmationsGood'
<1>1. RequestsGood'
  <2> SUFFICES ASSUME NEW q \in Process PROVE RequestGood(q)'
    BY DEF RequestsGood
  <2>1. CASE q = p
    BY <2>1
  <2>2. CASE q # p
    BY <2>2, RequestKept DEF StaffInv, RequestsGood
  <2> QED BY <2>1, <2>2
<1>2. ConfirmationsGood'
  <2> SUFFICES ASSUME NEW q \in Process, At(q, "confirming")'
               PROVE  (request[q].staff \in enrolled /\ request[q].device \in used)'
    BY DEF ConfirmationsGood
  <2>1. q # p /\ request'[q] = request[q]
    OBVIOUS
  <2> QED BY <2>1 DEF StaffInv, ConfirmationsGood, At, Grows
<1> QED BY <1>1, <1>2

LEMMA DevicesKept ==
    ASSUME DevicesGood, UNCHANGED <<confirmed, used, enrolled>>,
           \A s \in Staff : device'[s] \in {device[s], NoDevice}, TypeOK
    PROVE  DevicesGood'
BY StaffAdminAssumption DEF DevicesGood, TypeOK

LEMMA RecordKept ==
    ASSUME Grows, NEW k \in Slot, RecordGood(k),
           records'[k] = records[k] \/ records'[k] = NoRecord
    PROVE  RecordGood(k)'
<1>1. CASE records'[k] = NoRecord
  BY <1>1 DEF RecordGood
<1>2. CASE records'[k] = records[k] /\ records[k] # NoRecord
  <2> DEFINE rec == records[k]
  <2>1. rec.target \in Audited(k)'
    BY <1>2 DEF RecordGood, Grows
  <2>2. k.action = "create_staff" => Created(rec.target, rec.data)'
    <3> SUFFICES ASSUME k.action = "create_staff" PROVE Created(rec.target, rec.data)'
      OBVIOUS
    <3>1. Created(records[k].target, records[k].data)
      BY <1>2 DEF RecordGood
    <3>2. role'[rec.target] = role[rec.target]
      BY <3>1, NewRolesExist DEF Created, Grows
    <3> QED BY <1>2, <3>1, <3>2 DEF Created
  <2> QED BY <1>2, <2>1, <2>2 DEF RecordGood, Created
<1> QED BY <1>1, <1>2

LEMMA RecordsKept ==
    ASSUME StaffInv, Grows,
           \A k \in Slot : records'[k] = records[k] \/ records'[k] = NoRecord
    PROVE  RecordsGood'
BY RecordKept DEF RecordsGood, StaffInv

LEMMA AnswersKept ==
    ASSUME StaffInv, Grows,
           \A a \in answered' \ answered :
                a.slot.action = "create_staff" => Created(a.target, a.data)'
    PROVE  AnswersGood'
<1> SUFFICES ASSUME NEW a \in answered', a.slot.action = "create_staff"
             PROVE  Created(a.target, a.data)'
  BY DEF AnswersGood
<1>1. CASE a \in answered
  BY <1>1, CreatedKept DEF StaffInv, AnswersGood
<1>2. CASE a \notin answered
  BY <1>2
<1> QED BY <1>1, <1>2

LEMMA ActorsKept ==
    ASSUME StaffInv, Grows, UNCHANGED audits
    PROVE  ActorsEnrolled'
<1> SUFFICES ASSUME NEW k \in Slot, audits[k] # <<>>
             PROVE  k.action \in Permissions(role'[k.actor]) /\ k.actor \in enrolled'
  BY DEF ActorsEnrolled
<1>1. k.action \in Permissions(role[k.actor]) /\ k.actor \in enrolled /\ k.actor \in Staff
  BY DEF StaffInv, ActorsEnrolled, Slot
<1> QED BY <1>1, PermittedExists DEF Grows

\* A step that changes neither accounts nor the audit log grows what it must.
LEMMA QuietGrows ==
    ASSUME UNCHANGED <<role, audits, enrolled, used>>
    PROVE  Grows
BY DEF Grows, Audited

-----------------------------------------------------------------------------
(* Enrolment.                                                              *)

LEMMA StaffInvInit == Init => StaffInv
<1> SUFFICES ASSUME Init PROVE StaffInv
  OBVIOUS
<1>1. TypeOK
  <2>1. audits \in [Slot -> Seq(Target)]
    BY DEF Init
  <2>2. role \in [Staff -> Role \cup {"absent"}]
    BY DEF Init, Role
  <2> QED BY <2>1, <2>2 DEF Init, TypeOK, Idle
<1>2. RequestsGood /\ ConfirmationsGood
  BY DEF Init, RequestsGood, RequestGood, ConfirmationsGood, At, Idle, SensitivePoint
<1>3. DevicesGood
  BY StaffAdminAssumption DEF Init, DevicesGood
<1>4. RecordsGood /\ AnswersGood /\ ActorsEnrolled
  BY DEF Init, RecordsGood, RecordGood, AnswersGood, ActorsEnrolled
<1> QED BY <1>1, <1>2, <1>3, <1>4 DEF StaffInv

LEMMA StartKeeps ==
    ASSUME StaffInv, NEW s \in Staff, StartMfaSetup(s)
    PROVE  StaffInv'
<1>1. PICK d \in Device \ used :
        /\ device' = [device EXCEPT ![s] = d] /\ used' = used \cup {d}
        /\ UNCHANGED <<role, confirmed, inactive, idempotency, audits, request,
                       enrolled, answered, unaudited, exposed>>
  BY DEF StartMfaSetup
<1>2. TypeOK'
  BY <1>1 DEF StaffInv, TypeOK, idempotency
<1>3. Grows
  BY <1>1 DEF Grows, Audited
<1>4. RequestsGood'
  BY <1>1, <1>3, RequestKept DEF StaffInv, RequestsGood
<1>5. ConfirmationsGood'
  BY <1>1 DEF StaffInv, ConfirmationsGood, At
<1>6. DevicesGood'
  <2>1. \A t \in Staff : device'[t] = IF t = s THEN d ELSE device[t]
    BY <1>1 DEF StaffInv, TypeOK
  <2>2. d # NoDevice /\ d \notin confirmed /\ \A t \in Staff : device[t] # d
    BY StaffAdminAssumption DEF StaffInv, DevicesGood
  <2> QED BY <1>1, <2>1, <2>2 DEF StaffInv, DevicesGood
<1>7. RecordsGood' /\ AnswersGood' /\ ActorsEnrolled'
  BY <1>1, <1>3, RecordsKept, AnswersKept, ActorsKept DEF idempotency
<1> QED BY <1>2, <1>4, <1>5, <1>6, <1>7 DEF StaffInv

LEMMA VerifyKeeps ==
    ASSUME StaffInv, NEW p \in Process, NEW s \in Staff, VerifyToken(p, s)
    PROVE  StaffInv'
<1> DEFINE r == [at |-> "confirming", staff |-> s, device |-> device[s]]
<1>1. /\ device[s] # NoDevice /\ request' = [request EXCEPT ![p] = r]
      /\ enrolled' = enrolled \cup {s}
      /\ UNCHANGED <<accounts, idempotency, audits, used, answered, unaudited, exposed>>
  BY DEF VerifyToken
<1>2. device[s] \in Device /\ device[s] \in used
  BY <1>1 DEF StaffInv, TypeOK, DevicesGood
<1>3. TypeOK'
  <2>1. r \in ConfirmRequest
    BY <1>2 DEF ConfirmRequest
  <2> QED BY <1>1, <2>1 DEF StaffInv, TypeOK, accounts, idempotency
<1>4. Grows
  BY <1>1 DEF Grows, Audited, accounts
<1>5. request'[p] = r /\ \A q \in Process : q # p => request'[q] = request[q]
  BY <1>1 DEF StaffInv, TypeOK
<1>6. RequestsGood'
  <2> SUFFICES ASSUME NEW q \in Process PROVE RequestGood(q)'
    BY DEF RequestsGood
  <2>1. CASE q = p
    BY <2>1, <1>5 DEF RequestGood, SensitivePoint
  <2>2. CASE q # p
    BY <2>2, <1>4, <1>5, RequestKept DEF StaffInv, RequestsGood
  <2> QED BY <2>1, <2>2
<1>7. ConfirmationsGood'
  BY <1>1, <1>2, <1>5 DEF StaffInv, ConfirmationsGood, At
<1>8. DevicesGood'
  BY <1>1 DEF StaffInv, DevicesGood, accounts
<1>9. RecordsGood' /\ AnswersGood' /\ ActorsEnrolled'
  BY <1>1, <1>4, RecordsKept, AnswersKept, ActorsKept DEF idempotency
<1> QED BY <1>3, <1>6, <1>7, <1>8, <1>9 DEF StaffInv

LEMMA ConfirmKeeps ==
    ASSUME StaffInv, NEW p \in Process, ConfirmDevice(p)
    PROVE  StaffInv'
<1> DEFINE r == request[p]
<1>1. /\ At(p, "confirming") /\ End(p)
      /\ UNCHANGED <<role, device, inactive, idempotency, audits, history>>
  BY DEF ConfirmDevice
<1>2. r.staff \in Staff /\ r.device \in Device /\ r.staff \in enrolled /\ r.device \in used
  BY <1>1, ConfirmingIsTyped DEF StaffInv, ConfirmationsGood, ConfirmRequest
<1>3. \/ confirmed' = confirmed
      \/ device[r.staff] = r.device /\ confirmed' = confirmed \cup {r.device}
  BY DEF ConfirmDevice
<1>4. TypeOK'
  BY <1>1, <1>2, <1>3, EndTyped DEF StaffInv, TypeOK, idempotency, history
<1>5. Grows
  BY <1>1, QuietGrows DEF history
<1>6. RequestsGood' /\ ConfirmationsGood'
  <2>1. /\ request'[p].at = "idle"
        /\ \A q \in Process : q # p => request'[q] = request[q]
    BY <1>1, EndTyped DEF StaffInv
  <2> QED BY <1>5, <2>1, RequestsKept DEF RequestGood, SensitivePoint, At
<1>7. DevicesGood'
  <2>1. CASE confirmed' = confirmed
    BY <1>1, <2>1 DEF StaffInv, DevicesGood, history
  <2>2. CASE device[r.staff] = r.device /\ confirmed' = confirmed \cup {r.device}
    <3>1. r.device # NoDevice
      BY <1>2, StaffAdminAssumption
    <3>2. \A s \in Staff : device[s] = r.device => s = r.staff
      BY <1>2, <2>2, <3>1 DEF StaffInv, DevicesGood
    <3> QED BY <1>1, <1>2, <2>2, <3>2 DEF StaffInv, DevicesGood, history
  <2> QED BY <1>3, <2>1, <2>2
<1>8. RecordsGood' /\ AnswersGood' /\ ActorsEnrolled'
  BY <1>1, <1>5, RecordsKept, AnswersKept, ActorsKept DEF idempotency, history
<1> QED BY <1>4, <1>6, <1>7, <1>8 DEF StaffInv

-----------------------------------------------------------------------------
(* Sensitive requests.                                                     *)

LEMMA SlotFacts ==
    ASSUME TypeOK, NEW p \in Process, request[p].at \in SensitivePoint
    PROVE  /\ request[p].slot \in Slot /\ request[p].slot.actor \in Staff
           /\ request[p].target \in Target /\ request[p].data \in Data
BY SensitiveIsTyped DEF SensitiveRequest, Slot

LEMMA BeginKeeps ==
    ASSUME StaffInv, NEW p \in Process, NEW slot \in Slot, BeginSensitive(p, slot)
    PROVE  StaffInv'
<1>1. PICK t \in Targets(slot.action), b \in Bodies(slot.action) :
        request' = [request EXCEPT ![p] = [at |-> "checking_mfa", slot |-> slot,
                                           target |-> t, data |-> b]]
  BY DEF BeginSensitive
<1>2. /\ slot.action \in Permissions(role[slot.actor])
      /\ UNCHANGED <<accounts, idempotency, audits, history>>
  BY DEF BeginSensitive
<1>3. slot.action \in Sensitive
  BY <1>2, PermittedExists
<1>4. /\ t \in Target
      /\ slot.action = "create_staff" => t \in Staff
      /\ slot.action = "disable_customer" => t \in Customer
  BY <1>3 DEF Targets, Sensitive, Target
<1>5. /\ b \in Data
      /\ slot.action = "create_staff" => b \in NewRoles
  BY <1>3, StaffAdminAssumption DEF Bodies, Sensitive, Data
<1> DEFINE r == [at |-> "checking_mfa", slot |-> slot, target |-> t, data |-> b]
<1>6. r \in SensitiveRequest
  BY <1>4, <1>5 DEF SensitiveRequest, SensitivePoint
<1>7. TypeOK'
  BY <1>1, <1>2, <1>6 DEF StaffInv, TypeOK, accounts, idempotency, history
<1>8. request'[p] = r /\ \A q \in Process : q # p => request'[q] = request[q]
  BY <1>1 DEF StaffInv, TypeOK
<1>9. Grows
  BY <1>2, QuietGrows DEF accounts, history
<1>10. RequestGood(p)'
  BY <1>2, <1>4, <1>5, <1>8 DEF RequestGood, accounts
<1>11. RequestsGood' /\ ConfirmationsGood'
  BY <1>8, <1>9, <1>10, RequestsKept DEF At
<1>12. DevicesGood'
  BY <1>2 DEF StaffInv, DevicesGood, accounts, history
<1>13. RecordsGood' /\ AnswersGood' /\ ActorsEnrolled'
  BY <1>2, <1>9, RecordsKept, AnswersKept, ActorsKept DEF idempotency, history
<1> QED BY <1>7, <1>11, <1>12, <1>13 DEF StaffInv

\* A request that moves on or ends and leaves everything else alone.
LEMMA ProgressKeeps ==
    ASSUME StaffInv, NEW p \in Process,
           UNCHANGED <<accounts, idempotency, audits, used, enrolled, answered>>,
           unaudited' \subseteq Customer, exposed' \subseteq Slot,
           \/ End(p)
           \/ /\ request[p].at \in SensitivePoint
              /\ \E at \in SensitivePoint \ {"auditing", "remembering"} :
                    /\ GoTo(p, at)
                    /\ at # "checking_mfa" => request[p].slot.actor \in enrolled
    PROVE  StaffInv'
<1>1. Grows
  BY QuietGrows DEF accounts
<1>2. CASE End(p)
  <2>1. /\ request' \in [Process -> {Idle} \cup SensitiveRequest \cup ConfirmRequest]
        /\ request'[p].at = "idle"
        /\ \A q \in Process : q # p => request'[q] = request[q]
    BY <1>2, EndTyped DEF StaffInv
  <2>2. RequestsGood' /\ ConfirmationsGood'
    BY <1>1, <2>1, RequestsKept DEF RequestGood, SensitivePoint, At
  <2>3. TypeOK'
    BY <2>1 DEF StaffInv, TypeOK, accounts, idempotency
  <2>4. DevicesGood'
    BY DEF StaffInv, DevicesGood, accounts
  <2>5. RecordsGood' /\ AnswersGood' /\ ActorsEnrolled'
    BY <1>1, RecordsKept, AnswersKept, ActorsKept DEF idempotency
  <2> QED BY <2>2, <2>3, <2>4, <2>5 DEF StaffInv
<1>3. ASSUME request[p].at \in SensitivePoint,
             NEW at \in SensitivePoint \ {"auditing", "remembering"}, GoTo(p, at),
             at # "checking_mfa" => request[p].slot.actor \in enrolled
      PROVE  StaffInv'
  <2>1. /\ request' \in [Process -> {Idle} \cup SensitiveRequest \cup ConfirmRequest]
        /\ request'[p].at = at
        /\ request'[p].slot = request[p].slot
        /\ request'[p].target = request[p].target
        /\ request'[p].data = request[p].data
        /\ \A q \in Process : q # p => request'[q] = request[q]
    BY <1>3, GoToTyped DEF StaffInv
  <2>2. RequestGood(p)'
    BY <1>3, <2>1 DEF StaffInv, RequestsGood, RequestGood, accounts
  <2>3. RequestsGood' /\ ConfirmationsGood'
    BY <1>1, <1>3, <2>1, <2>2, RequestsKept DEF SensitivePoint, At
  <2>4. TypeOK'
    BY <2>1 DEF StaffInv, TypeOK, accounts, idempotency
  <2>5. DevicesGood'
    BY DEF StaffInv, DevicesGood, accounts
  <2>6. RecordsGood' /\ AnswersGood' /\ ActorsEnrolled'
    BY <1>1, RecordsKept, AnswersKept, ActorsKept DEF idempotency
  <2> QED BY <2>3, <2>4, <2>5, <2>6 DEF StaffInv
<1> QED BY <1>2, <1>3

LEMMA CheckKeeps ==
    ASSUME StaffInv, NEW p \in Process, CheckMfa(p)
    PROVE  StaffInv'
<1>1. /\ request[p].at = "checking_mfa"
      /\ UNCHANGED <<accounts, idempotency, audits, used, enrolled, answered>>
      /\ unaudited' \subseteq Customer /\ exposed' \subseteq Slot
  BY DEF CheckMfa, At, history, StaffInv, TypeOK
<1>2. CASE HasConfirmedMfa(request[p].slot.actor)
  <2>1. request[p].slot.actor \in enrolled
    BY <1>1, <1>2, SlotFacts DEF HasConfirmedMfa, StaffInv, DevicesGood, SensitivePoint
  <2>2. GoTo(p, "looking_up")
    BY <1>2 DEF CheckMfa
  <2> QED BY <1>1, <2>1, <2>2, ProgressKeeps DEF SensitivePoint
<1>3. CASE ~HasConfirmedMfa(request[p].slot.actor)
  BY <1>1, <1>3, ProgressKeeps DEF CheckMfa
<1> QED BY <1>2, <1>3

LEMMA ReplayKeeps ==
    ASSUME StaffInv, NEW p \in Process, End(p),
           UNCHANGED <<accounts, audits, used, enrolled>>, RecordsGood', TypeOK',
           NEW k, NEW t, NEW b, k.action = "create_staff" => Created(t, b),
           answered' = answered \cup {[slot |-> k, target |-> t, data |-> b]}
    PROVE  StaffInv'
<1>1. Grows
  BY QuietGrows DEF accounts
<1>2. /\ request'[p].at = "idle"
      /\ \A q \in Process : q # p => request'[q] = request[q]
  BY EndTyped DEF StaffInv
<1>3. RequestsGood' /\ ConfirmationsGood'
  BY <1>1, <1>2, RequestsKept DEF RequestGood, SensitivePoint, At
<1>4. DevicesGood'
  BY DEF StaffInv, DevicesGood, accounts
<1>5. AnswersGood'
  <2>1. \A a \in answered' \ answered :
            a.slot.action = "create_staff" => Created(a.target, a.data)'
    BY <1>1, CreatedKept
  <2> QED BY <1>1, <2>1, AnswersKept
<1>6. ActorsEnrolled'
  BY <1>1, ActorsKept
<1> QED BY <1>3, <1>4, <1>5, <1>6 DEF StaffInv

LEMMA LookUpKeeps ==
    ASSUME StaffInv, NEW p \in Process, LookUp(p)
    PROVE  StaffInv'
<1> DEFINE r == request[p]
           rec == records[r.slot]
<1>1. /\ r.at = "looking_up" /\ r.at \in SensitivePoint
      /\ UNCHANGED <<accounts, idempotency, audits, used, enrolled>>
  BY DEF LookUp, At, SensitivePoint
<1>2. r.slot \in Slot /\ r.target \in Target /\ r.data \in Data
  BY <1>1, SlotFacts DEF StaffInv
<1>3. r.slot.actor \in enrolled
  BY <1>1 DEF StaffInv, RequestsGood, RequestGood
<1>4. unaudited' \subseteq Customer /\ exposed' \subseteq Slot
  BY <1>2 DEF LookUp, GoToWork, Expose, StaffInv, TypeOK
<1>5. CASE GoToWork(p, "acting") /\ UNCHANGED answered
  BY <1>1, <1>3, <1>4, <1>5, ProgressKeeps DEF GoToWork, SensitivePoint
<1>6. CASE GoToWork(p, "dropping") /\ UNCHANGED answered
  BY <1>1, <1>3, <1>4, <1>6, ProgressKeeps DEF GoToWork, SensitivePoint
<1>8. CASE End(p) /\ UNCHANGED answered
  BY <1>1, <1>4, <1>8, ProgressKeeps
<1>7. CASE /\ rec # NoRecord /\ SameBody(r.slot, r, rec) /\ End(p)
           /\ answered' = answered \cup
                {[slot |-> r.slot, target |-> r.target, data |-> r.data]}
  <2>1. r.slot.action = "create_staff" => Created(r.target, r.data)
    BY <1>2, <1>7 DEF StaffInv, RecordsGood, RecordGood, SameBody
  <2>2. PICK k, t, b : k = r.slot /\ t = r.target /\ b = r.data
    OBVIOUS
  <2>3. TypeOK'
    BY <1>1, <1>2, <1>4, <1>7, EndTyped DEF StaffInv, TypeOK, accounts, idempotency
  <2>4. RecordsGood'
    BY <1>1, QuietGrows, RecordsKept DEF accounts, idempotency
  <2> QED BY <1>1, <1>7, <2>1, <2>2, <2>3, <2>4, ReplayKeeps
<1> QED BY <1>5, <1>6, <1>7, <1>8 DEF LookUp

LEMMA DropKeeps ==
    ASSUME StaffInv, NEW p \in Process, DropExpired(p)
    PROVE  StaffInv'
<1> DEFINE slot == request[p].slot
<1>1. /\ request[p].at = "dropping" /\ request[p].at \in SensitivePoint
      /\ GoTo(p, "acting") /\ UNCHANGED <<accounts, audits, history>>
      /\ expired' = expired \ {slot}
  BY DEF DropExpired, At, SensitivePoint
<1>2. slot \in Slot
  BY <1>1, SlotFacts DEF StaffInv
<1>3. \/ UNCHANGED <<records, lapsed>>
      \/ /\ records' = [records EXCEPT ![slot] = NoRecord]
         /\ lapsed' = [lapsed EXCEPT ![slot] = @ + 1]
  BY DEF DropExpired
<1>4. Grows
  BY <1>1, QuietGrows DEF accounts, history
<1>5. /\ request' \in [Process -> {Idle} \cup SensitiveRequest \cup ConfirmRequest]
      /\ request'[p].at = "acting"
      /\ request'[p].slot = request[p].slot
      /\ request'[p].target = request[p].target
      /\ request'[p].data = request[p].data
      /\ \A q \in Process : q # p => request'[q] = request[q]
  BY <1>1, GoToTyped DEF StaffInv, SensitivePoint
<1>6. TypeOK'
  <2>1. CASE UNCHANGED <<records, lapsed>>
    BY <1>1, <1>5, <2>1 DEF StaffInv, TypeOK, accounts, history
  <2>2. CASE /\ records' = [records EXCEPT ![slot] = NoRecord]
             /\ lapsed' = [lapsed EXCEPT ![slot] = @ + 1]
    <3>1. records' \in [Slot -> Record \cup {NoRecord}]
      BY <2>2 DEF StaffInv, TypeOK
    <3>2. lapsed[slot] + 1 \in Nat
      BY <1>2 DEF StaffInv, TypeOK
    <3>3. lapsed' \in [Slot -> Nat]
      BY <2>2, <3>2 DEF StaffInv, TypeOK
    <3> QED BY <1>1, <1>5, <3>1, <3>3 DEF StaffInv, TypeOK, accounts, history
  <2> QED BY <1>3, <2>1, <2>2
<1>7. RequestsGood' /\ ConfirmationsGood'
  <2>1. RequestGood(p)'
    BY <1>1, <1>5 DEF StaffInv, RequestsGood, RequestGood, accounts, history
  <2> QED BY <1>4, <1>5, <2>1, RequestsKept DEF At
<1>8. DevicesGood'
  BY <1>1 DEF StaffInv, DevicesGood, accounts, history
<1>9. RecordsGood'
  <2>1. \A k \in Slot : records'[k] = records[k] \/ records'[k] = NoRecord
    BY <1>3 DEF StaffInv, TypeOK
  <2> QED BY <1>4, <2>1, RecordsKept
<1>10. AnswersGood' /\ ActorsEnrolled'
  BY <1>1, <1>4, AnswersKept, ActorsKept DEF history
<1> QED BY <1>6, <1>7, <1>8, <1>9, <1>10 DEF StaffInv

\* What is common to the three effects: the request goes on to its audit entry.
LEMMA EffectKeeps ==
    ASSUME StaffInv, NEW p \in Process, At(p, "acting"), GoTo(p, "auditing"),
           Grows, DevicesGood',
           UNCHANGED <<confirmed, idempotency, audits, history>>,
           role' \in [Staff -> Role \cup {"absent"}],
           device' \in [Staff -> Device \cup {NoDevice}],
           inactive' \subseteq Customer,
           NEW t, NEW b, request[p].target = t, request[p].data = b,
           request[p].slot.action = "create_staff" => role'[t] = b
    PROVE  StaffInv'
<1>1. request[p].at = "acting" /\ request[p].at \in SensitivePoint
  BY DEF At, SensitivePoint
<1>2. /\ request' \in [Process -> {Idle} \cup SensitiveRequest \cup ConfirmRequest]
      /\ request'[p].at = "auditing"
      /\ request'[p].slot = request[p].slot
      /\ request'[p].target = t
      /\ request'[p].data = b
      /\ \A q \in Process : q # p => request'[q] = request[q]
  BY <1>1, GoToTyped DEF StaffInv, SensitivePoint
<1>3. TypeOK'
  BY <1>2 DEF StaffInv, TypeOK, idempotency, history
<1>4. RequestGood(p)'
  <2>1. /\ request[p].slot.action \in Permissions(role[request[p].slot.actor])
        /\ request[p].slot.actor \in enrolled
        /\ request[p].slot.action = "create_staff" => t \in Staff /\ b \in NewRoles
        /\ request[p].slot.action = "disable_customer" => t \in Customer
    BY <1>1 DEF StaffInv, RequestsGood, RequestGood
  <2>2. role'[request[p].slot.actor] = role[request[p].slot.actor]
    BY <1>1, <2>1, SlotFacts, PermittedExists DEF StaffInv, Grows
  <2> QED BY <1>2, <2>1, <2>2 DEF RequestGood, history
<1>5. RequestsGood' /\ ConfirmationsGood'
  BY <1>2, <1>4, RequestsKept DEF At
<1>6. RecordsGood' /\ AnswersGood' /\ ActorsEnrolled'
  BY RecordsKept, AnswersKept, ActorsKept DEF idempotency, history
<1> QED BY <1>3, <1>5, <1>6 DEF StaffInv

LEMMA CreateKeeps ==
    ASSUME StaffInv, NEW p \in Process, CreateStaff(p)
    PROVE  StaffInv'
<1> DEFINE r == request[p]
<1>1. /\ At(p, "acting") /\ r.slot.action = "create_staff"
      /\ UNCHANGED <<device, confirmed, inactive, idempotency, audits, history>>
  BY DEF CreateStaff
<1>2. r.target \in Staff /\ r.data \in NewRoles
  BY <1>1 DEF StaffInv, RequestsGood, RequestGood, At, SensitivePoint
<1>3. CASE role[r.target] = "absent"
  <2>1. role' = [role EXCEPT ![r.target] = r.data] /\ GoTo(p, "auditing")
    BY <1>3 DEF CreateStaff
  <2>2. role' \in [Staff -> Role \cup {"absent"}] /\ role'[r.target] = r.data
    BY <1>2, <2>1, NewRolesExist DEF StaffInv, TypeOK
  <2>3. Grows
    BY <1>1, <1>3, <2>1 DEF Grows, Audited, history, StaffInv, TypeOK
  <2>4. DevicesGood'
    BY <1>1 DEF StaffInv, DevicesGood, history
  <2>5. PICK t, b : t = r.target /\ b = r.data
    OBVIOUS
  <2>6. device' \in [Staff -> Device \cup {NoDevice}] /\ inactive' \subseteq Customer
    BY <1>1 DEF StaffInv, TypeOK
  <2> QED BY <1>1, <2>1, <2>2, <2>3, <2>4, <2>5, <2>6, EffectKeeps
<1>4. CASE role[r.target] # "absent"
  <2>1. unaudited' \subseteq Customer /\ exposed' \subseteq Slot
    BY <1>1 DEF history, StaffInv, TypeOK
  <2> QED BY <1>1, <1>4, <2>1, ProgressKeeps DEF CreateStaff, accounts, history
<1> QED BY <1>3, <1>4

LEMMA DisableKeeps ==
    ASSUME StaffInv, NEW p \in Process, DisableCustomer(p)
    PROVE  StaffInv'
<1> DEFINE r == request[p]
<1>1. /\ At(p, "acting") /\ r.slot.action = "disable_customer"
      /\ inactive' = inactive \cup {r.target} /\ GoTo(p, "auditing")
      /\ UNCHANGED <<role, device, confirmed, idempotency, audits, history>>
  BY DEF DisableCustomer
<1>2. r.target \in Customer
  BY <1>1 DEF StaffInv, RequestsGood, RequestGood, At, SensitivePoint
<1>3. Grows
  BY <1>1, QuietGrows DEF history
<1>4. DevicesGood'
  BY <1>1 DEF StaffInv, DevicesGood, history
<1>5. PICK t, b : t = r.target /\ b = r.data
  OBVIOUS
<1>6. /\ role' \in [Staff -> Role \cup {"absent"}] /\ inactive' \subseteq Customer
      /\ device' \in [Staff -> Device \cup {NoDevice}]
  BY <1>1, <1>2 DEF StaffInv, TypeOK
<1> QED BY <1>1, <1>3, <1>4, <1>5, <1>6, EffectKeeps

LEMMA ResetKeeps ==
    ASSUME StaffInv, NEW p \in Process, ResetStaffMfa(p)
    PROVE  StaffInv'
<1> DEFINE r == request[p]
<1>1. /\ At(p, "acting") /\ r.slot.action = "reset_staff_mfa"
      /\ device' = [device EXCEPT ![r.target] = NoDevice] /\ GoTo(p, "auditing")
      /\ UNCHANGED <<role, confirmed, inactive, idempotency, audits, history>>
  BY DEF ResetStaffMfa
<1>2. Grows
  BY <1>1, QuietGrows DEF history
<1>3. \A s \in Staff : device'[s] \in {device[s], NoDevice}
  BY <1>1 DEF StaffInv, TypeOK
<1>4. DevicesGood'
  BY <1>1, <1>3, DevicesKept DEF StaffInv, history
<1>5. PICK t, b : t = r.target /\ b = r.data
  OBVIOUS
<1>6. /\ role' \in [Staff -> Role \cup {"absent"}] /\ inactive' \subseteq Customer
      /\ device' \in [Staff -> Device \cup {NoDevice}]
  BY <1>1 DEF StaffInv, TypeOK
<1> QED BY <1>1, <1>2, <1>4, <1>5, <1>6, EffectKeeps

LEMMA WriteKeeps ==
    ASSUME StaffInv, NEW p \in Process, WriteAudit(p)
    PROVE  StaffInv'
<1> DEFINE r == request[p]
<1>1. /\ r.at = "auditing" /\ r.at \in SensitivePoint
      /\ UNCHANGED <<accounts, idempotency, used, enrolled, answered>>
  BY DEF WriteAudit, At, SensitivePoint
<1>2. /\ r.slot \in Slot /\ r.slot.actor \in Staff /\ r.target \in Target
      /\ r.slot.action \in Permissions(role[r.slot.actor])
      /\ r.slot.actor \in enrolled
      /\ r.slot.action = "create_staff" => /\ r.target \in Staff /\ r.data \in NewRoles
                                           /\ role[r.target] = r.data
      /\ r.slot.action = "disable_customer" => r.target \in Customer
  BY <1>1, SlotFacts DEF StaffInv, RequestsGood, RequestGood
<1>3. CASE r.data \in LongReason
  <2>1. End(p) /\ UNCHANGED audits
    BY <1>3 DEF WriteAudit
  <2>2. unaudited' \subseteq Customer /\ exposed' \subseteq Slot
    BY <1>3 DEF WriteAudit, Owed, StaffInv, TypeOK
  <2> QED BY <1>1, <2>1, <2>2, ProgressKeeps
<1>4. CASE r.data \notin LongReason
  <2>1. /\ audits' = [audits EXCEPT ![r.slot] = Append(@, r.target)]
        /\ GoTo(p, "remembering")
    BY <1>4 DEF WriteAudit
  <2>2. PICK k \in Slot, t \in Target : k = r.slot /\ t = r.target
    BY <1>2
  <2>3. /\ audits' \in [Slot -> Seq(Target)] /\ t \in Audited(k)'
        /\ \A j \in Slot : Audited(j) \subseteq Audited(j)'
        /\ \A j \in Slot : j # k => audits'[j] = audits[j]
    BY <2>1, <2>2, AppendAudited DEF StaffInv
  <2>4. Grows
    BY <1>1, <2>3 DEF Grows, accounts
  <2>5. /\ request' \in [Process -> {Idle} \cup SensitiveRequest \cup ConfirmRequest]
        /\ request'[p].at = "remembering"
        /\ request'[p].slot = k
        /\ request'[p].target = t
        /\ request'[p].data = request[p].data
        /\ \A q \in Process : q # p => request'[q] = request[q]
    BY <1>1, <2>1, <2>2, GoToTyped DEF StaffInv, SensitivePoint
  <2>6. TypeOK'
    <3>1. unaudited' \subseteq Customer /\ exposed' \subseteq Slot
      BY <1>2, <1>4 DEF WriteAudit, Expose, StaffInv, TypeOK
    <3> QED BY <1>1, <2>3, <2>5, <3>1 DEF StaffInv, TypeOK, accounts, idempotency
  <2>7. RequestsGood' /\ ConfirmationsGood'
    <3>1. RequestGood(p)'
      BY <1>1, <1>2, <2>2, <2>3, <2>5 DEF RequestGood, accounts, history
    <3> QED BY <2>4, <2>5, <3>1, RequestsKept DEF At
  <2>8. DevicesGood'
    BY <1>1 DEF StaffInv, DevicesGood, accounts, history
  <2>9. RecordsGood' /\ AnswersGood'
    BY <1>1, <2>4, RecordsKept, AnswersKept DEF idempotency, history
  <2>10. ActorsEnrolled'
    <3> SUFFICES ASSUME NEW j \in Slot, audits'[j] # <<>>
                 PROVE  j.action \in Permissions(role'[j.actor]) /\ j.actor \in enrolled'
      BY DEF ActorsEnrolled
    <3>1. CASE j = k
      BY <1>1, <1>2, <2>2, <3>1 DEF accounts, history
    <3>2. CASE j # k
      BY <1>1, <2>3, <3>2 DEF StaffInv, ActorsEnrolled, accounts, history
    <3> QED BY <3>1, <3>2
  <2> QED BY <2>6, <2>7, <2>8, <2>9, <2>10 DEF StaffInv
<1> QED BY <1>3, <1>4

LEMMA RememberKeeps ==
    ASSUME StaffInv, NEW p \in Process, Remember(p)
    PROVE  StaffInv'
<1> DEFINE r == request[p]
<1>1. /\ r.at = "remembering" /\ r.at \in SensitivePoint /\ End(p)
      /\ UNCHANGED <<accounts, expired, lapsed, audits, used, enrolled, unaudited, exposed>>
  BY DEF Remember, At, SensitivePoint
<1>2. PICK k \in Slot, t \in Target, b \in Data :
        k = r.slot /\ t = r.target /\ b = r.data
  BY <1>1, SlotFacts DEF StaffInv
<1>3. t \in Audited(k) /\ (k.action = "create_staff" => Created(t, b))
  BY <1>1, <1>2 DEF StaffInv, RequestsGood, RequestGood, Created
<1>4. CASE records[k] = NoRecord
  <2>1. /\ records' = [records EXCEPT ![k] = [target |-> t, data |-> b]]
        /\ answered' = answered \cup {[slot |-> k, target |-> t, data |-> b]}
    BY <1>2, <1>4 DEF Remember
  <2>2. [target |-> t, data |-> b] \in Record
    BY DEF Record
  <2>3. TypeOK'
    <3>1. records' \in [Slot -> Record \cup {NoRecord}]
      BY <2>1, <2>2 DEF StaffInv, TypeOK
    <3>2. answered' \subseteq [slot : Slot, target : Target, data : Data]
      BY <2>1 DEF StaffInv, TypeOK
    <3> QED BY <1>1, <3>1, <3>2, EndTyped DEF StaffInv, TypeOK, accounts
  <2>4. Grows
    BY <1>1, QuietGrows DEF accounts
  <2>5. RecordsGood'
    <3> SUFFICES ASSUME NEW j \in Slot PROVE RecordGood(j)'
      BY DEF RecordsGood
    <3>1. CASE j = k
      <4>1. records'[k].target = t /\ records'[k].data = b
        BY <2>1 DEF StaffInv, TypeOK
      <4>2. t \in Audited(k)' /\ (k.action = "create_staff" => Created(t, b)')
        BY <1>3, <2>4, CreatedKept DEF Grows
      <4> QED BY <3>1, <4>1, <4>2 DEF RecordGood, Created
    <3>2. CASE j # k
      <4>1. records'[j] = records[j]
        BY <2>1, <3>2 DEF StaffInv, TypeOK
      <4> QED BY <2>4, <4>1, RecordKept DEF StaffInv, RecordsGood
    <3> QED BY <3>1, <3>2
  <2> QED BY <1>1, <1>3, <2>1, <2>3, <2>5, ReplayKeeps
<1>5. CASE records[k] # NoRecord
  <2>1. UNCHANGED <<accounts, idempotency, audits, used, enrolled, answered>>
    BY <1>1, <1>2, <1>5 DEF Remember, idempotency
  <2>2. unaudited' \subseteq Customer /\ exposed' \subseteq Slot
    BY <1>1 DEF StaffInv, TypeOK
  <2> QED BY <1>1, <2>1, <2>2, ProgressKeeps
<1> QED BY <1>4, <1>5

LEMMA ExpireKeeps ==
    ASSUME StaffInv, NEW k \in Slot, ExpireRecord(k)
    PROVE  StaffInv'
<1>1. /\ expired' = expired \cup {k}
      /\ UNCHANGED <<accounts, records, lapsed, audits, request, history>>
  BY DEF ExpireRecord
<1>2. TypeOK'
  BY <1>1 DEF StaffInv, TypeOK, accounts, history
<1>3. Grows
  BY <1>1, QuietGrows DEF accounts, history
<1>4. RequestsGood' /\ ConfirmationsGood' /\ DevicesGood'
  BY <1>1, <1>3, RequestKept DEF StaffInv, RequestsGood, ConfirmationsGood, DevicesGood,
                                 At, accounts, history
<1>5. RecordsGood' /\ AnswersGood' /\ ActorsEnrolled'
  BY <1>1, <1>3, RecordsKept, AnswersKept, ActorsKept DEF history
<1> QED BY <1>2, <1>4, <1>5 DEF StaffInv

\* The steps a process can take, whatever endpoint it serves.
Steps ==
    \/ \E s \in Staff : StartMfaSetup(s)
    \/ \E p \in Process :
        \/ \E s \in Staff : VerifyToken(p, s)
        \/ ConfirmDevice(p)
        \/ \E slot \in Slot : BeginSensitive(p, slot)
        \/ CheckMfa(p)
        \/ LookUp(p)
        \/ DropExpired(p)
        \/ CreateStaff(p)
        \/ DisableCustomer(p)
        \/ ResetStaffMfa(p)
        \/ WriteAudit(p)
        \/ Remember(p)
        \/ Crash(p)
    \/ \E slot \in Slot : ExpireRecord(slot)

LEMMA NextSteps == Next => Steps
BY DEF Next, Steps, MfaSetupView, MfaConfirmView, SensitiveView, CreateStaffView,
       DisableCustomerView, ResetStaffMfaView

LEMMA StaffInvStep == StaffInv /\ [Next]_vars => StaffInv'
<1> SUFFICES ASSUME StaffInv, [Next]_vars PROVE StaffInv'
  OBVIOUS
<1>1. ASSUME NEW p \in Process, Crash(p) PROVE StaffInv'
  <2>1. unaudited' \subseteq Customer
    BY <1>1 DEF Crash, Owed, StaffInv, TypeOK
  <2>2. exposed' \subseteq Slot
    BY <1>1, SlotFacts DEF Crash, Expose, At, SensitivePoint, StaffInv, TypeOK
  <2> QED BY <1>1, <2>1, <2>2, ProgressKeeps DEF Crash
<1>2. CASE UNCHANGED vars
  <2>1. Grows
    BY <1>2, QuietGrows DEF vars
  <2>2. TypeOK' /\ ConfirmationsGood' /\ DevicesGood'
    BY <1>2 DEF vars, StaffInv, TypeOK, ConfirmationsGood, DevicesGood, At
  <2>3. RequestsGood'
    BY <1>2, <2>1, RequestKept DEF vars, StaffInv, RequestsGood
  <2>4. RecordsGood' /\ AnswersGood' /\ ActorsEnrolled'
    BY <1>2, <2>1, RecordsKept, AnswersKept, ActorsKept DEF vars
  <2> QED BY <2>2, <2>3, <2>4 DEF StaffInv
<1> QED BY <1>1, <1>2, StartKeeps, VerifyKeeps, ConfirmKeeps, BeginKeeps, CheckKeeps,
           LookUpKeeps, DropKeeps, CreateKeeps, DisableKeeps, ResetKeeps, WriteKeeps,
           RememberKeeps, ExpireKeeps, NextSteps DEF Steps

LEMMA StaffInvariance == Spec => []StaffInv
BY StaffInvInit, StaffInvStep, PTL DEF Spec

-----------------------------------------------------------------------------
\* Requests, records and accounts stay well formed (all actions).
THEOREM StaffTypeCorrect == Spec => []TypeOK
<1>1. StaffInv => TypeOK
  BY DEF StaffInv
<1> QED BY <1>1, StaffInvariance, PTL

\* Every audited sensitive action had a permitted and enrolled actor
\* (check_policy, require_confirmed_mfa, confirm_mfa_setup).
THEOREM StaffActorsEnrolled == Spec => []ActorsEnrolled
<1>1. StaffInv => ActorsEnrolled
  BY DEF StaffInv
<1> QED BY <1>1, StaffInvariance, PTL

\* A stored response stands for an audited effect, with any number of racing
\* requests and crashes (store_response, remember_response).
THEOREM StaffRecordMeansEffect == Spec => []RecordMeansEffect
<1>1. StaffInv => RecordMeansEffect
  BY DEF StaffInv, RecordsGood, RecordGood, RecordMeansEffect
<1> QED BY <1>1, StaffInvariance, PTL

\* A reported creation is an account with the reported role (create_staff,
\* get_cached_response).
THEOREM StaffAcknowledgedCreation == Spec => []AcknowledgedCreation
<1>1. StaffInv => AcknowledgedCreation
  BY DEF StaffInv, AnswersGood, Created, AcknowledgedCreation
<1> QED BY <1>1, StaffInvariance, PTL

\* A device that a reset deleted never comes back (reset_staff_mfa,
\* confirm_mfa_setup).
THEOREM StaffResetIsFinal == Spec => ResetIsFinal
<1>1. StaffInv /\ [Next]_vars => [\A d \in used : ~InUse(d) => ~InUse(d)']_vars
  <2> SUFFICES ASSUME StaffInv, Next, NEW d \in used, ~InUse(d) PROVE ~InUse(d)'
    BY DEF InUse, vars
  <2>1. ASSUME NEW s \in Staff, StartMfaSetup(s) PROVE ~InUse(d)'
    BY <2>1 DEF StartMfaSetup, InUse, StaffInv, TypeOK
  <2>2. ASSUME NEW p \in Process, ResetStaffMfa(p) PROVE ~InUse(d)'
    <3>1. \A s \in Staff : device'[s] \in {device[s], NoDevice}
      BY <2>2 DEF ResetStaffMfa, StaffInv, TypeOK
    <3>2. d # NoDevice
      BY StaffAdminAssumption DEF StaffInv, TypeOK
    <3> QED BY <3>1, <3>2 DEF InUse
  <2>3. CASE UNCHANGED device
    BY <2>3 DEF InUse
  <2>4. \/ \E s \in Staff : StartMfaSetup(s)
        \/ \E p \in Process : ResetStaffMfa(p)
        \/ UNCHANGED device
    BY NextSteps
       DEF Steps, VerifyToken, ConfirmDevice, BeginSensitive, CheckMfa, LookUp,
           DropExpired, CreateStaff, DisableCustomer, WriteAudit, Remember, Crash,
           ExpireRecord, accounts
  <2> QED BY <2>1, <2>2, <2>3, <2>4
<1> QED BY <1>1, StaffInvariance, PTL DEF Spec, ResetIsFinal

-----------------------------------------------------------------------------
(* Effects per key.                                                        *)

\* Nobody works with the key while another has its response still to store, as
\* when a client sends a key again only after the last request has ended.
Alone(k) == \A p \in Finishing(k), q \in Process : Working(q, k) => q = p
RetriesWait == \A k \in Slot : Alone(k)

\* No process dies between an audit entry and the record of the response.
Forgets(p) == Crash(p) /\ At(p, "remembering")
NoneForgets == \A p \in Process : ~Forgets(p)

\* Past its look-up, what a request with the key knows of the key's record.
KnowsRecord(p, k) == Working(p, k) =>
    records[k] = NoRecord \/ (At(p, "dropping") /\ k \in expired)

\* A key without a record and without one on its way has no effect that counts.
KeyGood(k) ==
    /\ Len(audits[k]) <= 1 + lapsed[k]
    /\ records[k] # NoRecord \/ Finishing(k) # {} \/ Len(audits[k]) <= lapsed[k]
    /\ \A p \in Process : KnowsRecord(p, k)

LEMMA KeyNumbers ==
    ASSUME TypeOK, NEW k \in Slot
    PROVE  Len(audits[k]) \in Nat /\ lapsed[k] \in Nat
BY DEF TypeOK

\* A step of p that leaves the key's record and audit entries alone.
LEMMA KeyKept ==
    ASSUME NEW k \in Slot, KeyGood(k), NEW p \in Process,
           \A q \in Process : q # p => request'[q] = request[q],
           UNCHANGED <<records[k], audits[k], lapsed[k]>>,
           k \in expired => k \in expired',
           p \notin Finishing(k),
           KnowsRecord(p, k)'
    PROVE  KeyGood(k)'
<1>1. \A q \in Process : KnowsRecord(q, k)'
  <2> SUFFICES ASSUME NEW q \in Process, q # p PROVE KnowsRecord(q, k)'
    OBVIOUS
  <2>1. request'[q] = request[q] /\ KnowsRecord(q, k)
    BY DEF KeyGood
  <2> QED BY <2>1 DEF KnowsRecord, Working, At
<1>2. Finishing(k) \subseteq Finishing(k)'
  <2> SUFFICES ASSUME NEW q \in Finishing(k) PROVE q \in Finishing(k)'
    OBVIOUS
  <2>1. q \in Process /\ q # p
    BY DEF Finishing
  <2>2. request'[q] = request[q]
    BY <2>1
  <2> QED BY <2>1, <2>2 DEF Finishing, At
<1> QED BY <1>1, <1>2 DEF KeyGood

\* Nor does a step that touches no request.
LEMMA KeyUntouched ==
    ASSUME NEW k \in Slot, KeyGood(k),
           UNCHANGED <<request, records, audits, lapsed>>, expired \subseteq expired'
    PROVE  KeyGood(k)'
BY DEF KeyGood, KnowsRecord, Working, Finishing, At

\* A step within the request that moves no record.
LEMMA KeyMoves ==
    ASSUME StaffInv, NEW k \in Slot, KeyGood(k), NEW p \in Process,
           UNCHANGED <<records, expired, lapsed, audits>>,
           \/ End(p) /\ p \notin Finishing(k)
           \/ /\ At(p, "checking_mfa") /\ GoTo(p, "looking_up")
           \/ /\ At(p, "looking_up") /\ GoTo(p, "acting")
              /\ records[request[p].slot] = NoRecord
           \/ /\ At(p, "looking_up") /\ GoTo(p, "dropping")
              /\ request[p].slot \in expired
           \/ /\ At(p, "acting") /\ GoTo(p, "auditing")
    PROVE  KeyGood(k)'
<1>1. CASE End(p) /\ p \notin Finishing(k)
  <2>1. /\ request'[p].at = "idle"
        /\ \A q \in Process : q # p => request'[q] = request[q]
    BY <1>1, EndTyped DEF StaffInv
  <2>2. KnowsRecord(p, k)'
    BY <2>1 DEF KnowsRecord, Working, WorkingPoint, SensitivePoint
  <2> QED BY <1>1, <2>1, <2>2, KeyKept
<1>2. ASSUME NEW at \in SensitivePoint, GoTo(p, at),
             request[p].at \in SensitivePoint, ~At(p, "remembering"),
             \/ at = "looking_up"
             \/ at \in {"acting", "auditing"} /\
                    (request[p].slot = k => records[k] = NoRecord)
             \/ at = "dropping" /\ request[p].slot \in expired
      PROVE  KeyGood(k)'
  <2>1. /\ request'[p].at = at /\ request'[p].slot = request[p].slot
        /\ \A q \in Process : q # p => request'[q] = request[q]
    BY <1>2, GoToTyped DEF StaffInv
  <2>2. KnowsRecord(p, k)'
    BY <1>2, <2>1 DEF KnowsRecord, Working, WorkingPoint, SensitivePoint, At
  <2>3. p \notin Finishing(k)
    BY <1>2 DEF Finishing
  <2> QED BY <2>1, <2>2, <2>3, KeyKept
<1>3. CASE At(p, "checking_mfa") /\ GoTo(p, "looking_up")
  BY <1>2, <1>3 DEF At, SensitivePoint
<1>4. CASE /\ At(p, "looking_up") /\ GoTo(p, "acting")
           /\ records[request[p].slot] = NoRecord
  BY <1>2, <1>4 DEF At, SensitivePoint
<1>5. CASE /\ At(p, "looking_up") /\ GoTo(p, "dropping")
           /\ request[p].slot \in expired
  BY <1>2, <1>5 DEF At, SensitivePoint
<1>6. CASE At(p, "acting") /\ GoTo(p, "auditing")
  <2>1. request[p].slot = k => records[k] = NoRecord
    BY <1>6 DEF KeyGood, KnowsRecord, Working, WorkingPoint, SensitivePoint, At
  <2> QED BY <1>2, <1>6, <2>1 DEF At, SensitivePoint
<1> QED BY <1>1, <1>3, <1>4, <1>5, <1>6

\* record.delete() of a stale row: the effect that follows is a new one.
LEMMA DropKeepsKey ==
    ASSUME StaffInv, NEW k \in Slot, KeyGood(k), NEW p \in Process, DropExpired(p)
    PROVE  KeyGood(k)'
<1> DEFINE slot == request[p].slot
<1>1. /\ At(p, "dropping") /\ request[p].at \in SensitivePoint
      /\ GoTo(p, "acting") /\ UNCHANGED audits
      /\ expired' = expired \ {slot}
  BY DEF DropExpired, At, SensitivePoint
<1>2. slot \in Slot
  BY <1>1, SlotFacts DEF StaffInv
<1>3. /\ request'[p].at = "acting" /\ request'[p].slot = slot
      /\ \A q \in Process : q # p => request'[q] = request[q]
  BY <1>1, GoToTyped DEF StaffInv, SensitivePoint
<1>4. p \notin Finishing(k)
  BY <1>1 DEF Finishing, At
<1>5. CASE slot = k /\ k \in expired
  <2>1. /\ records' = [records EXCEPT ![k] = NoRecord]
        /\ lapsed' = [lapsed EXCEPT ![k] = @ + 1]
    BY <1>5 DEF DropExpired
  <2>2. records'[k] = NoRecord /\ lapsed'[k] = lapsed[k] + 1
    BY <2>1 DEF StaffInv, TypeOK
  <2>3. Len(audits[k])' <= lapsed'[k]
    BY <1>1, <2>2, KeyNumbers DEF KeyGood, StaffInv
  <2>4. lapsed'[k] \in Nat /\ Len(audits[k])' \in Nat
    BY <1>1, <2>2, KeyNumbers DEF StaffInv
  <2> QED BY <2>2, <2>3, <2>4 DEF KeyGood, KnowsRecord
<1>6. CASE slot = k /\ k \notin expired
  <2>1. UNCHANGED <<records, lapsed>>
    BY <1>6 DEF DropExpired
  <2>2. records[k] = NoRecord
    BY <1>1, <1>6 DEF KeyGood, KnowsRecord, Working, WorkingPoint, SensitivePoint, At
  <2>3. KnowsRecord(p, k)'
    BY <2>1, <2>2 DEF KnowsRecord
  <2> QED BY <1>1, <1>3, <1>4, <1>6, <2>1, <2>3, KeyKept
<1>7. CASE slot # k
  <2>1. ~Working(p, k)'
    BY <1>3, <1>7 DEF Working
  <2>2. UNCHANGED <<records[k], audits[k], lapsed[k]>>
    BY <1>1, <1>2, <1>7 DEF DropExpired, StaffInv, TypeOK
  <2>3. k \in expired => k \in expired'
    BY <1>1, <1>7
  <2> QED BY <1>3, <1>4, <2>1, <2>2, <2>3, KeyKept DEF KnowsRecord
<1> QED BY <1>5, <1>6, <1>7

\* write_audit_log: the effect counts, and its record is on its way.
LEMMA WriteKeepsKey ==
    ASSUME StaffInv, NEW k \in Slot, KeyGood(k), Alone(k),
           NEW p \in Process, WriteAudit(p)
    PROVE  KeyGood(k)'
<1> DEFINE r == request[p]
<1>1. /\ At(p, "auditing") /\ r.at \in SensitivePoint /\ UNCHANGED <<records, expired, lapsed>>
  BY DEF WriteAudit, At, SensitivePoint, idempotency
<1>2. p \notin Finishing(k)
  BY <1>1 DEF Finishing, At
<1>3. CASE r.data \in LongReason
  BY <1>1, <1>2, <1>3, KeyMoves DEF WriteAudit
<1>4. CASE r.data \notin LongReason
  <2>1. /\ audits' = [audits EXCEPT ![r.slot] = Append(@, r.target)]
        /\ GoTo(p, "remembering")
    BY <1>4 DEF WriteAudit
  <2>2. r.slot \in Slot /\ r.target \in Target
    BY <1>1, SlotFacts DEF StaffInv
  <2>3. /\ request'[p].at = "remembering" /\ request'[p].slot = r.slot
        /\ \A q \in Process : q # p => request'[q] = request[q]
    BY <1>1, <2>1, GoToTyped DEF StaffInv, SensitivePoint
  <2>4. CASE r.slot = k
    <3>1. Working(p, k)
      BY <1>1, <2>4 DEF Working, WorkingPoint, SensitivePoint, At
    <3>2. records[k] = NoRecord
      BY <1>1, <3>1 DEF KeyGood, KnowsRecord, At
    <3>3. Finishing(k) = {}
      BY <1>2, <3>1 DEF Alone
    <3>4. Len(audits[k]) <= lapsed[k]
      BY <3>2, <3>3 DEF KeyGood
    <3>5. audits[k] \in Seq(Target) /\ audits'[k] = Append(audits[k], r.target)
      BY <2>1, <2>4 DEF StaffInv, TypeOK
    <3>6. Len(audits'[k]) = Len(audits[k]) + 1
      BY <2>2, <3>5
    <3>7. Len(audits[k])' <= 1 + lapsed[k]'
      BY <1>1, <3>4, <3>6, KeyNumbers DEF StaffInv
    <3>8. p \in Finishing(k)'
      BY <2>3, <2>4 DEF Finishing, At
    <3>9. \A q \in Process : KnowsRecord(q, k)'
      BY <1>1, <3>2 DEF KnowsRecord
    <3> QED BY <3>7, <3>8, <3>9 DEF KeyGood
  <2>5. CASE r.slot # k
    <3>1. ~Working(p, k)'
      BY <2>3, <2>5 DEF Working
    <3>2. audits'[k] = audits[k]
      BY <2>1, <2>5 DEF StaffInv, TypeOK
    <3> QED BY <1>1, <1>2, <2>3, <3>1, <3>2, KeyKept DEF KnowsRecord
  <2> QED BY <2>4, <2>5
<1> QED BY <1>3, <1>4

\* store_response: alone with its key, a request finds no record in its way.
LEMMA RememberKeepsKey ==
    ASSUME StaffInv, NEW k \in Slot, KeyGood(k), Alone(k),
           NEW p \in Process, Remember(p)
    PROVE  KeyGood(k)'
<1> DEFINE r == request[p]
<1>1. /\ At(p, "remembering") /\ r.at \in SensitivePoint /\ End(p)
      /\ UNCHANGED <<expired, lapsed, audits>>
  BY DEF Remember, At, SensitivePoint
<1>2. r.slot \in Slot /\ r.target \in Target /\ r.data \in Data
  BY <1>1, SlotFacts DEF StaffInv
<1>3. /\ request'[p].at = "idle"
      /\ \A q \in Process : q # p => request'[q] = request[q]
  BY <1>1, EndTyped DEF StaffInv
<1>4. ~Working(p, k)'
  BY <1>3 DEF Working, WorkingPoint, SensitivePoint
<1>5. CASE r.slot = k
  <2>1. p \in Finishing(k) /\ Working(p, k)
    BY <1>1, <1>5 DEF Finishing, Working, WorkingPoint, SensitivePoint, At
  <2>2. records[k] = NoRecord
    BY <1>1, <2>1 DEF KeyGood, KnowsRecord, At
  <2>3. records'[k] = [target |-> r.target, data |-> r.data]
    BY <1>5, <2>2 DEF Remember, StaffInv, TypeOK
  <2>4. records'[k] # NoRecord
    BY <1>2, <2>3, StaffAdminAssumption DEF Record
  <2>5. Len(audits[k])' <= 1 + lapsed[k]'
    BY <1>1 DEF KeyGood
  <2>6. \A q \in Process : ~Working(q, k)'
    BY <1>3, <1>4, <2>1 DEF Alone, Working
  <2> QED BY <2>4, <2>5, <2>6 DEF KeyGood, KnowsRecord
<1>6. CASE r.slot # k
  <2>1. p \notin Finishing(k)
    BY <1>6 DEF Finishing
  <2>2. records'[k] = records[k]
    BY <1>6 DEF Remember, StaffInv, TypeOK
  <2> QED BY <1>1, <1>3, <1>4, <2>1, <2>2, KeyKept DEF KnowsRecord
<1> QED BY <1>5, <1>6

LEMMA KeyStep ==
    ASSUME StaffInv, NEW k \in Slot, KeyGood(k), Alone(k),
           \A p \in Finishing(k) : ~Forgets(p), [Next]_vars
    PROVE  KeyGood(k)'
<1>1. ASSUME NEW s \in Staff, StartMfaSetup(s) PROVE KeyGood(k)'
  BY <1>1, KeyUntouched DEF StartMfaSetup, idempotency
<1>2. ASSUME NEW p \in Process, At(p, "idle"),
             request'[p].at \in {"confirming", "checking_mfa"},
             \A q \in Process : q # p => request'[q] = request[q],
             UNCHANGED <<idempotency, audits>>
      PROVE  KeyGood(k)'
  <2>1. KnowsRecord(p, k)'
    BY <1>2 DEF KnowsRecord, Working, WorkingPoint, SensitivePoint
  <2>2. p \notin Finishing(k)
    BY <1>2 DEF Finishing, At
  <2> QED BY <1>2, <2>1, <2>2, KeyKept DEF idempotency
<1>3. ASSUME NEW p \in Process, NEW s \in Staff, VerifyToken(p, s) PROVE KeyGood(k)'
  BY <1>2, <1>3 DEF VerifyToken, StaffInv, TypeOK
<1>4. ASSUME NEW p \in Process, NEW slot \in Slot, BeginSensitive(p, slot)
      PROVE  KeyGood(k)'
  BY <1>2, <1>4 DEF BeginSensitive, StaffInv, TypeOK
<1>5. ASSUME NEW p \in Process,
             \/ ConfirmDevice(p) \/ CheckMfa(p) \/ LookUp(p)
             \/ CreateStaff(p) \/ DisableCustomer(p) \/ ResetStaffMfa(p)
      PROVE  KeyGood(k)'
  <2>1. UNCHANGED <<records, expired, lapsed, audits>>
    BY <1>5 DEF ConfirmDevice, CheckMfa, LookUp, CreateStaff, DisableCustomer,
                ResetStaffMfa, idempotency
  <2>2. p \notin Finishing(k)
    BY <1>5 DEF ConfirmDevice, CheckMfa, LookUp, CreateStaff, DisableCustomer,
                ResetStaffMfa, Finishing, At
  <2>3. CASE ConfirmDevice(p) \/ CheckMfa(p)
    BY <2>1, <2>2, <2>3, KeyMoves DEF ConfirmDevice, CheckMfa
  <2>4. CASE LookUp(p)
    BY <2>1, <2>2, <2>4, KeyMoves DEF LookUp, GoToWork
  <2>5. CASE CreateStaff(p) \/ DisableCustomer(p) \/ ResetStaffMfa(p)
    BY <2>1, <2>2, <2>5, KeyMoves DEF CreateStaff, DisableCustomer, ResetStaffMfa
  <2> QED BY <1>5, <2>3, <2>4, <2>5
<1>6. ASSUME NEW p \in Process, Crash(p) PROVE KeyGood(k)'
  <2>1. End(p) /\ p \notin Finishing(k)
    BY <1>6 DEF Crash, Forgets, Finishing
  <2> QED BY <1>6, <2>1, KeyMoves DEF Crash, idempotency
<1>7. ASSUME NEW slot \in Slot, ExpireRecord(slot) PROVE KeyGood(k)'
  BY <1>7, KeyUntouched DEF ExpireRecord
<1>8. CASE UNCHANGED vars
  BY <1>8, KeyUntouched DEF vars
<1> QED BY <1>1, <1>3, <1>4, <1>5, <1>6, <1>7, <1>8, DropKeepsKey, WriteKeepsKey,
           RememberKeepsKey, NextSteps DEF Steps

LEMMA KeyInit == ASSUME Init, NEW k \in Slot PROVE KeyGood(k)
BY DEF Init, KeyGood, KnowsRecord, Working, WorkingPoint, Idle

\* What holds of each key, for all of them and for ever.
KeysGood == \A k \in Slot : KeyGood(k)

LEMMA KeysStayGood ==
    Spec /\ []RetriesWait /\ [][NoneForgets]_vars => []KeysGood
<1>1. Init => KeysGood
  BY KeyInit DEF KeysGood
<1>2. StaffInv /\ KeysGood /\ RetriesWait /\ [Next]_vars /\ [NoneForgets]_vars => KeysGood'
  <2> SUFFICES ASSUME StaffInv, KeysGood, RetriesWait, [Next]_vars, [NoneForgets]_vars,
                      NEW k \in Slot
               PROVE  KeyGood(k)'
    BY DEF KeysGood
  <2>1. KeyGood(k) /\ Alone(k)
    BY DEF RetriesWait, KeysGood
  <2>2. CASE NoneForgets
    BY <2>1, <2>2, KeyStep DEF NoneForgets, Finishing
  <2>3. CASE UNCHANGED vars
    BY <2>1, <2>3, KeyUntouched DEF vars
  <2> QED BY <2>2, <2>3
<1> QED BY <1>1, <1>2, StaffInvariance, PTL DEF Spec

\* A key stands for one audited effect as long as its record lives, whatever other
\* keys do at the same time, if no request gets past its look-up while another of
\* the same key has its response still to store, and no process dies there
\* (get_cached_response, store_response).
THEOREM StaffOneEffectPerKey ==
    Spec /\ []RetriesWait /\ [][NoneForgets]_vars => []OneEffectPerKey
<1>1. KeysGood => OneEffectPerKey
  BY DEF KeysGood, KeyGood, OneEffectPerKey
<1> QED BY <1>1, KeysStayGood, PTL

-----------------------------------------------------------------------------
(* Second effects.                                                         *)

\* A step of p that makes it finish only where nobody else works, and work only
\* where nobody finishes.
LEMMA AloneKept ==
    ASSUME NEW k \in Slot, Alone(k), NEW p \in Process,
           \A q \in Process : q # p => request'[q] = request[q],
           \/ p \notin Finishing(k)' \/ p \in Finishing(k)
           \/ \A q \in Process \ {p} : ~Working(q, k),
           ~Working(p, k)' \/ Working(p, k) \/ Finishing(k) = {}
    PROVE  Alone(k)'
<1> SUFFICES ASSUME NEW a \in Finishing(k)', NEW b \in Process, Working(b, k)', b # a
             PROVE  FALSE
  BY DEF Alone
<1>1. a \in Process /\ Working(a, k)'
  BY DEF Finishing, Working, WorkingPoint, SensitivePoint, At
<1>2. a # p => a \in Finishing(k)
  BY <1>1 DEF Finishing, At
<1>3. b # p => Working(b, k)
  BY DEF Working
<1>4. CASE a = p
  BY <1>3, <1>4 DEF Alone
<1>5. CASE b = p
  BY <1>2, <1>5 DEF Alone
<1>6. CASE a # p /\ b # p
  BY <1>2, <1>3, <1>6 DEF Alone
<1> QED BY <1>4, <1>5, <1>6

\* A step by which a key stops being used by one request at a time is marked.
LEMMA AloneStep ==
    ASSUME StaffInv, NEW k \in Slot, Alone(k), [Next]_vars, k \notin exposed'
    PROVE  Alone(k)'
<1>1. ASSUME UNCHANGED request PROVE Alone(k)'
  BY <1>1 DEF Alone, Finishing, Working, At
<1>2. CASE UNCHANGED vars \/ (\E s \in Staff : StartMfaSetup(s))
           \/ \E slot \in Slot : ExpireRecord(slot)
  BY <1>1, <1>2 DEF vars, StartMfaSetup, ExpireRecord
<1>3. ASSUME NEW p \in Process,
             \A q \in Process : q # p => request'[q] = request[q],
             request'[p].at \in {"idle", "confirming", "checking_mfa", "looking_up"}
      PROVE  Alone(k)'
  <2>1. ~Working(p, k)' /\ p \notin Finishing(k)'
    BY <1>3 DEF Working, WorkingPoint, SensitivePoint, Finishing, At
  <2> QED BY <1>3, <2>1, AloneKept
<1>4. ASSUME NEW p \in Process, End(p) PROVE Alone(k)'
  BY <1>3, <1>4, EndTyped DEF StaffInv
<1>5. ASSUME NEW p \in Process, request[p].at \in SensitivePoint,
             NEW at \in SensitivePoint, GoTo(p, at),
             \/ at = "looking_up"
             \/ at # "remembering" /\ (Working(p, k) \/ Finishing(k) = {})
             \/ at # "remembering" /\ request[p].slot # k
             \/ /\ request[p].at \in WorkingPoint
                /\ request[p].slot = k => \A q \in Process \ {p} : ~Working(q, k)
      PROVE  Alone(k)'
  <2>1. /\ request'[p].at = at /\ request'[p].slot = request[p].slot
        /\ \A q \in Process : q # p => request'[q] = request[q]
    BY <1>5, GoToTyped DEF StaffInv
  <2>2. \/ p \notin Finishing(k)' \/ \A q \in Process \ {p} : ~Working(q, k)
    BY <1>5, <2>1 DEF Finishing, At
  <2>3. ~Working(p, k)' \/ Working(p, k) \/ Finishing(k) = {}
    BY <1>5, <2>1 DEF Working, WorkingPoint, SensitivePoint
  <2> QED BY <2>1, <2>2, <2>3, AloneKept
<1>6. ASSUME NEW p \in Process, NEW s \in Staff, VerifyToken(p, s) PROVE Alone(k)'
  BY <1>3, <1>6 DEF VerifyToken, StaffInv, TypeOK
<1>7. ASSUME NEW p \in Process, NEW slot \in Slot, BeginSensitive(p, slot)
      PROVE  Alone(k)'
  BY <1>3, <1>7 DEF BeginSensitive, StaffInv, TypeOK
<1>8. ASSUME NEW p \in Process, ConfirmDevice(p) \/ Remember(p) \/ Crash(p)
      PROVE  Alone(k)'
  BY <1>4, <1>8 DEF ConfirmDevice, Remember, Crash
<1>9. ASSUME NEW p \in Process, CheckMfa(p) PROVE Alone(k)'
  BY <1>4, <1>5, <1>9 DEF CheckMfa, At, SensitivePoint
<1>10. ASSUME NEW p \in Process, LookUp(p) PROVE Alone(k)'
  <2>1. CASE End(p)
    BY <1>4, <2>1
  <2>2. ASSUME NEW at \in {"acting", "dropping"}, GoToWork(p, at) PROVE Alone(k)'
    <3>1. request[p].slot # k \/ Finishing(k) = {}
      BY <2>2 DEF GoToWork, Expose
    <3>2. request[p].at \in SensitivePoint /\ GoTo(p, at)
      BY <1>10, <2>2 DEF LookUp, GoToWork, At, SensitivePoint
    <3>3. at \in SensitivePoint /\ at # "remembering"
      BY <2>2 DEF SensitivePoint
    <3> QED BY <1>5, <3>1, <3>2, <3>3
  <2> QED BY <1>10, <2>1, <2>2 DEF LookUp
<1>11. ASSUME NEW p \in Process, request[p].at \in WorkingPoint,
              NEW at \in WorkingPoint \ {"remembering"}, GoTo(p, at)
       PROVE  Alone(k)'
  <2>1. request[p].slot = k => Working(p, k)
    BY <1>11 DEF Working
  <2> QED BY <1>5, <1>11, <2>1 DEF WorkingPoint
<1>12. ASSUME NEW p \in Process, DropExpired(p) PROVE Alone(k)'
  BY <1>11, <1>12 DEF DropExpired, At, WorkingPoint, SensitivePoint
<1>13. ASSUME NEW p \in Process,
              CreateStaff(p) \/ DisableCustomer(p) \/ ResetStaffMfa(p)
       PROVE  Alone(k)'
  BY <1>4, <1>11, <1>13
     DEF CreateStaff, DisableCustomer, ResetStaffMfa, At, WorkingPoint, SensitivePoint
<1>14. ASSUME NEW p \in Process, WriteAudit(p) PROVE Alone(k)'
  <2>1. CASE request[p].data \in LongReason
    BY <1>4, <1>14, <2>1 DEF WriteAudit
  <2>2. CASE request[p].data \notin LongReason
    <3>1. /\ GoTo(p, "remembering") /\ request[p].at \in WorkingPoint
          /\ request[p].slot = k => \A q \in Process \ {p} : ~Working(q, k)
      BY <1>14, <2>2 DEF WriteAudit, Expose, At, WorkingPoint, SensitivePoint
    <3> QED BY <1>5, <3>1 DEF WorkingPoint, SensitivePoint
  <2> QED BY <2>1, <2>2
<1> QED BY <1>2, <1>6, <1>7, <1>8, <1>9, <1>10, <1>12, <1>13, <1>14, NextSteps DEF Steps

\* A key of which nobody worked where it should not has kept its promise.
SafeKeys == \A k \in Slot \ exposed : Alone(k) /\ KeyGood(k)

LEMMA ExposedGrows == ASSUME StaffInv, [Next]_vars PROVE exposed \subseteq exposed'
BY NextSteps
   DEF Steps, StartMfaSetup, VerifyToken, ConfirmDevice, BeginSensitive, CheckMfa, LookUp,
       GoToWork, DropExpired, CreateStaff, DisableCustomer, ResetStaffMfa, WriteAudit,
       Remember, Crash, ExpireRecord, Expose, history, vars

LEMMA SafeKeysStep == ASSUME StaffInv, SafeKeys, [Next]_vars PROVE SafeKeys'
<1> SUFFICES ASSUME NEW k \in Slot, k \notin exposed' PROVE Alone(k)' /\ KeyGood(k)'
  BY DEF SafeKeys
<1>1. Alone(k) /\ KeyGood(k)
  BY ExposedGrows DEF SafeKeys
<1>2. \A p \in Finishing(k) : ~Forgets(p)
  BY DEF Forgets, Crash, Expose, Finishing
<1> QED BY <1>1, <1>2, KeyStep, AloneStep

\* A key stands for a second audited effect only if a request was past its look-up
\* while another of the key was between its entry and its record, or a process died
\* there, with any number of requests, crashes and expiries (get_cached_response,
\* store_response).
THEOREM StaffSecondEffect == Spec => []SecondEffectNeedsExposure
<1>1. Init => SafeKeys
  BY KeyInit DEF Init, SafeKeys, Alone, Finishing, At, Idle
<1>2. StaffInv /\ SafeKeys => SecondEffectNeedsExposure
  BY KeyNumbers DEF StaffInv, SafeKeys, KeyGood, SecondEffectNeedsExposure
<1> QED BY <1>1, <1>2, SafeKeysStep, StaffInvariance, PTL DEF Spec

-----------------------------------------------------------------------------
(* A key acts as in KeyedEffects.                                          *)

\* Requests under way that neither come to nor leave the point before the record
\* is stored leave what a key stands for alone.
LEMMA StandsForKept ==
    ASSUME NEW k \in Slot, records'[k] = records[k],
           \A p \in Process : request'[p] = request[p]
                \/ (p \notin Finishing(k) /\ p \notin Finishing(k)')
    PROVE  StandsFor(k)' = StandsFor(k)
<1>1. Finishing(k)' = Finishing(k) /\ \A p \in Finishing(k) : request'[p] = request[p]
  BY DEF Finishing, At
<1>2. {[target |-> request'[p].target, data |-> request'[p].data] : p \in Finishing(k)}
      = {[target |-> request[p].target, data |-> request[p].data] : p \in Finishing(k)}
  BY <1>1
<1> QED BY <1>1, <1>2 DEF StandsFor

\* A step of p that moves no record, effect or answer is none of a key's.
LEMMA QuietForKeys ==
    ASSUME NEW p \in Process, UNCHANGED <<records, audits, answered>>,
           \A q \in Process : q # p => request'[q] = request[q],
           request'[p] = request[p] \/ (~At(p, "remembering") /\ ~At(p, "remembering")')
    PROVE  UNCHANGED Keys!vars
<1>1. \A k \in Slot : StandsFor(k)' = StandsFor(k)
  BY StandsForKept DEF Finishing, At
<1>2. Kept' = Kept
  BY <1>1 DEF Kept
<1> QED BY <1>2 DEF Keys!vars

\* get_cached_response: a replay answers a request like the one that was carried
\* out, everything else is silent.
LEMMA LookUpForKeys ==
    ASSUME StaffInv, NEW p \in Process, LookUp(p)
    PROVE  [Keys!Next]_(Keys!vars)
<1> DEFINE r == request[p]
           b == [target |-> r.target, data |-> r.data]
<1>1. /\ At(p, "looking_up") /\ r.at \in SensitivePoint
      /\ UNCHANGED <<records, audits>>
  BY DEF LookUp, At, SensitivePoint, idempotency
<1>2. r.slot \in Slot /\ b \in Record
  BY <1>1, SlotFacts DEF StaffInv, Record
<1>3. /\ ~At(p, "remembering") /\ ~At(p, "remembering")'
      /\ \A q \in Process : q # p => request'[q] = request[q]
  <2>1. GoTo(p, "acting") \/ GoTo(p, "dropping") \/ End(p)
    BY DEF LookUp, GoToWork
  <2>2. CASE End(p)
    BY <1>1, <2>2, EndTyped DEF StaffInv, At
  <2>3. CASE GoTo(p, "acting") \/ GoTo(p, "dropping")
    BY <1>1, <2>3, GoToTyped DEF StaffInv, SensitivePoint, At
  <2> QED BY <2>1, <2>2, <2>3
<1>4. CASE UNCHANGED answered
  BY <1>1, <1>3, <1>4, QuietForKeys
<1>5. CASE answered' # answered
  <2>1. /\ records[r.slot] # NoRecord
        /\ SameBody(r.slot, r, records[r.slot])
        /\ answered' = answered \cup
                {[slot |-> r.slot, target |-> r.target, data |-> r.data]}
    BY <1>5 DEF LookUp
  <2>2. SameBody(r.slot, b, records[r.slot])
    BY <2>1 DEF SameBody
  <2>3. records[r.slot] \in Kept[r.slot]
    BY <1>2, <2>1 DEF Kept, StandsFor
  <2>4. \A k \in Slot : StandsFor(k)' = StandsFor(k)
    BY <1>1, <1>3, StandsForKept DEF Finishing, At
  <2>5. Kept' = Kept
    BY <2>4 DEF Kept
  <2>6. b.target = r.target /\ b.data = r.data
    OBVIOUS
  <2> HIDE DEF b
  <2>7. Keys!Answer(r.slot, b)
    BY <1>1, <2>1, <2>2, <2>3, <2>5, <2>6 DEF Keys!Answer
  <2> QED BY <1>2, <2>7 DEF Keys!Next
<1> QED BY <1>4, <1>5

\* record.delete() of a stale row frees the key.
LEMMA DropForKeys ==
    ASSUME StaffInv, \A k \in Slot : KeyGood(k) /\ Alone(k),
           NEW p \in Process, DropExpired(p)
    PROVE  [Keys!Next]_(Keys!vars)
<1>1. /\ At(p, "dropping") /\ request[p].at \in SensitivePoint
      /\ GoTo(p, "acting") /\ UNCHANGED <<audits, answered>>
  BY DEF DropExpired, At, SensitivePoint, history
<1>2. PICK slot \in Slot : slot = request[p].slot /\ Working(p, slot)
  BY <1>1, SlotFacts DEF StaffInv, Working, WorkingPoint, SensitivePoint, At
<1>3. /\ request'[p].at = "acting"
      /\ \A q \in Process : q # p => request'[q] = request[q]
  BY <1>1, GoToTyped DEF StaffInv, SensitivePoint
<1>4. CASE slot \notin expired
  <2>1. UNCHANGED records
    BY <1>2, <1>4 DEF DropExpired
  <2> QED BY <1>1, <1>3, <2>1, QuietForKeys DEF At
<1>5. CASE slot \in expired
  <2>1. records' = [records EXCEPT ![slot] = NoRecord]
    BY <1>2, <1>5 DEF DropExpired
  <2>2. StandsFor(slot)' = {}
    <3>1. records'[slot] = NoRecord
      BY <1>2, <2>1 DEF StaffInv, TypeOK
    <3>2. Finishing(slot)' = {}
      BY <1>1, <1>2, <1>3 DEF Finishing, Alone, At
    <3>3. {[target |-> request'[q].target, data |-> request'[q].data] :
              q \in Finishing(slot)'} = {}
      BY <3>2
    <3> QED BY <3>1, <3>3 DEF StandsFor
  <2>3. ASSUME NEW k \in Slot, k # slot PROVE StandsFor(k)' = StandsFor(k)
    <3>1. records'[k] = records[k]
      BY <2>1, <2>3 DEF StaffInv, TypeOK
    <3> QED BY <1>1, <1>3, <3>1, StandsForKept DEF Finishing, At
  <2>4. Kept' = [Kept EXCEPT ![slot] = {}]
    BY <1>2, <2>2, <2>3 DEF Kept
  <2>5. Keys!Forget(slot)
    BY <1>1, <2>4 DEF Keys!Forget
  <2> QED BY <1>2, <2>5 DEF Keys!Next
<1> QED BY <1>4, <1>5

\* write_audit_log: the effect counts, for a key that was free.
LEMMA WriteForKeys ==
    ASSUME StaffInv, \A k \in Slot : KeyGood(k) /\ Alone(k),
           NEW p \in Process, WriteAudit(p)
    PROVE  [Keys!Next]_(Keys!vars)
<1> DEFINE r == request[p]
<1>1. /\ At(p, "auditing") /\ r.at \in SensitivePoint
      /\ UNCHANGED <<records, answered>>
  BY DEF WriteAudit, At, SensitivePoint, idempotency
<1>2. PICK k \in Slot, b \in Record :
        /\ k = r.slot /\ Working(p, k)
        /\ b = [target |-> r.target, data |-> r.data]
  BY <1>1, SlotFacts DEF StaffInv, Working, WorkingPoint, SensitivePoint, At, Record
<1>3. CASE r.data \in LongReason
  <2>1. End(p) /\ UNCHANGED audits
    BY <1>3 DEF WriteAudit
  <2> QED BY <1>1, <2>1, EndTyped, QuietForKeys DEF StaffInv, At
<1>4. CASE r.data \notin LongReason
  <2>1. /\ audits' = [audits EXCEPT ![k] = Append(@, r.target)]
        /\ GoTo(p, "remembering")
    BY <1>2, <1>4 DEF WriteAudit
  <2>2. /\ request'[p].at = "remembering" /\ request'[p].slot = k
        /\ request'[p].target = r.target /\ request'[p].data = r.data
        /\ \A q \in Process : q # p => request'[q] = request[q]
    BY <1>1, <1>2, <2>1, GoToTyped DEF StaffInv, SensitivePoint
  <2>3. records[k] = NoRecord
    BY <1>1, <1>2 DEF KeyGood, KnowsRecord, At
  <2>4. Finishing(k) = {} /\ Finishing(k)' = {p}
    BY <1>1, <1>2, <2>2 DEF Finishing, Alone, At
  <2>5. StandsFor(k) = {}
    BY <2>3, <2>4 DEF StandsFor
  <2>6. StandsFor(k)' = {b}
    <3>1. {[target |-> request'[q].target, data |-> request'[q].data] :
                q \in Finishing(k)'} = {b}
      BY <1>2, <2>2, <2>4
    <3>2. records'[k] = NoRecord
      BY <1>1, <2>3
    <3> QED BY <3>1, <3>2 DEF StandsFor
  <2>7. ASSUME NEW j \in Slot, j # k PROVE StandsFor(j)' = StandsFor(j)
    BY <1>1, <2>2, <2>7, StandsForKept DEF Finishing, At
  <2>8. Kept[k] = {} /\ Kept' = [Kept EXCEPT ![k] = {b}]
    BY <1>2, <2>5, <2>6, <2>7 DEF Kept
  <2>9. b.target = r.target
    BY <1>2
  <2>10. Keys!Perform(k, b)
    BY <1>1, <2>1, <2>8, <2>9 DEF Keys!Perform
  <2> QED BY <1>2, <2>10 DEF Keys!Next
<1> QED BY <1>3, <1>4

\* store_response: the key stands for what it stood for, and the client is told.
LEMMA RememberForKeys ==
    ASSUME StaffInv, \A k \in Slot : KeyGood(k) /\ Alone(k),
           NEW p \in Process, Remember(p)
    PROVE  Keys!Next
<1> DEFINE r == request[p]
<1>1. /\ At(p, "remembering") /\ r.at \in SensitivePoint /\ End(p) /\ UNCHANGED audits
  BY DEF Remember, At, SensitivePoint
<1>2. PICK k \in Slot, b \in Record :
        /\ k = r.slot /\ Working(p, k)
        /\ b = [target |-> r.target, data |-> r.data]
  BY <1>1, SlotFacts DEF StaffInv, Working, WorkingPoint, SensitivePoint, At, Record
<1>3. /\ request'[p].at = "idle"
      /\ \A q \in Process : q # p => request'[q] = request[q]
  BY <1>1, EndTyped DEF StaffInv
<1>4. records[k] = NoRecord
  BY <1>1, <1>2 DEF KeyGood, KnowsRecord, At
<1>5. /\ records' = [records EXCEPT ![k] = b]
      /\ answered' = answered \cup
            {[slot |-> k, target |-> r.target, data |-> r.data]}
  BY <1>2, <1>4 DEF Remember
<1>6. Finishing(k) = {p} /\ Finishing(k)' = {}
  BY <1>1, <1>2, <1>3 DEF Finishing, Alone, At
<1>7. StandsFor(k) = {b}
  <2>1. {[target |-> request[q].target, data |-> request[q].data] :
            q \in Finishing(k)} = {b}
    BY <1>2, <1>6
  <2> QED BY <1>4, <2>1 DEF StandsFor
<1>8. StandsFor(k)' = {b}
  <2>1. records'[k] = b /\ b # NoRecord
    BY <1>2, <1>5, StaffAdminAssumption DEF StaffInv, TypeOK
  <2>2. {[target |-> request'[q].target, data |-> request'[q].data] :
            q \in Finishing(k)'} = {}
    BY <1>6
  <2> QED BY <2>1, <2>2 DEF StandsFor
<1>9. ASSUME NEW j \in Slot, j # k PROVE StandsFor(j)' = StandsFor(j)
  <2>1. records'[j] = records[j]
    BY <1>5, <1>9 DEF StaffInv, TypeOK
  <2> QED BY <1>2, <1>3, <1>9, <2>1, StandsForKept DEF Finishing, At
<1>10. Kept' = Kept /\ b \in Kept[k]
  BY <1>2, <1>7, <1>8, <1>9 DEF Kept
<1>11. SameBody(k, b, b) /\ b.target = r.target /\ b.data = r.data
  BY <1>2 DEF SameBody
<1>12. Keys!Answer(k, b)
  BY <1>1, <1>5, <1>10, <1>11 DEF Keys!Answer
<1> QED BY <1>2, <1>12 DEF Keys!Next

LEMMA KeysStep ==
    ASSUME StaffInv, \A k \in Slot : KeyGood(k) /\ Alone(k), NoneForgets, [Next]_vars
    PROVE  [Keys!Next]_(Keys!vars)
<1>1. ASSUME UNCHANGED <<request, records, audits, answered>> PROVE UNCHANGED Keys!vars
  <2>1. \A k \in Slot : StandsFor(k)' = StandsFor(k)
    BY <1>1, StandsForKept
  <2>2. Kept' = Kept
    BY <2>1 DEF Kept
  <2> QED BY <1>1, <2>2 DEF Keys!vars
<1>2. CASE UNCHANGED vars \/ (\E s \in Staff : StartMfaSetup(s))
           \/ \E slot \in Slot : ExpireRecord(slot)
  BY <1>1, <1>2 DEF vars, StartMfaSetup, ExpireRecord, idempotency, history
<1>3. ASSUME NEW p \in Process, NEW s \in Staff, VerifyToken(p, s)
      PROVE  UNCHANGED Keys!vars
  <2>1. /\ request'[p].at = "confirming" /\ At(p, "idle")
        /\ \A q \in Process : q # p => request'[q] = request[q]
    BY <1>3 DEF VerifyToken, StaffInv, TypeOK
  <2> QED BY <1>3, <2>1, QuietForKeys DEF VerifyToken, idempotency, At
<1>4. ASSUME NEW p \in Process, NEW slot \in Slot, BeginSensitive(p, slot)
      PROVE  UNCHANGED Keys!vars
  <2>1. /\ request'[p].at = "checking_mfa" /\ At(p, "idle")
        /\ \A q \in Process : q # p => request'[q] = request[q]
    BY <1>4 DEF BeginSensitive, StaffInv, TypeOK
  <2> QED BY <1>4, <2>1, QuietForKeys DEF BeginSensitive, idempotency, history, At
<1>5. ASSUME NEW p \in Process, UNCHANGED <<records, audits, answered>>,
             ~At(p, "remembering"),
             \/ End(p)
             \/ /\ request[p].at \in SensitivePoint
                /\ GoTo(p, "looking_up") \/ GoTo(p, "auditing")
      PROVE  UNCHANGED Keys!vars
  <2>1. CASE End(p)
    BY <1>5, <2>1, EndTyped, QuietForKeys DEF StaffInv, At
  <2>2. ASSUME NEW at \in SensitivePoint \ {"remembering"},
               GoTo(p, at), request[p].at \in SensitivePoint
        PROVE  UNCHANGED Keys!vars
    BY <1>5, <2>2, GoToTyped, QuietForKeys DEF StaffInv, At
  <2> QED BY <1>5, <2>1, <2>2 DEF SensitivePoint
<1>6. ASSUME NEW p \in Process,
             \/ ConfirmDevice(p) \/ CheckMfa(p) \/ CreateStaff(p)
             \/ DisableCustomer(p) \/ ResetStaffMfa(p)
      PROVE  UNCHANGED Keys!vars
  <2>1. UNCHANGED <<records, audits, answered>>
    BY <1>6 DEF ConfirmDevice, CheckMfa, CreateStaff, DisableCustomer,
                ResetStaffMfa, idempotency, history
  <2>2. /\ ~At(p, "remembering")
        /\ \/ End(p)
           \/ /\ request[p].at \in SensitivePoint
              /\ GoTo(p, "looking_up") \/ GoTo(p, "auditing")
    BY <1>6 DEF ConfirmDevice, CheckMfa, CreateStaff, DisableCustomer,
                ResetStaffMfa, At, SensitivePoint
  <2> QED BY <1>5, <2>1, <2>2
<1>7. ASSUME NEW p \in Process, Crash(p) PROVE UNCHANGED Keys!vars
  BY <1>5, <1>7 DEF Crash, NoneForgets, Forgets, idempotency
<1> QED BY <1>2, <1>3, <1>4, <1>6, <1>7, LookUpForKeys, DropForKeys, WriteForKeys,
           RememberForKeys, NextSteps DEF Steps

LEMMA KeysInit == Init => Keys!Init
<1> SUFFICES ASSUME Init PROVE Keys!Init
  OBVIOUS
<1>1. \A k \in Slot : StandsFor(k) = {}
  BY DEF Init, StandsFor, Finishing, At, Idle
<1> QED BY <1>1 DEF Init, Kept, Keys!Init

\* While no request gets past its look-up where another of the same key has its
\* response still to store, and no process dies there, lookups, effects and
\* records of any number of processes and keys act as the one-step keys of
\* KeyedEffects (get_cached_response, store_response).
THEOREM StaffImplementsKeys ==
    Spec /\ []RetriesWait /\ [][NoneForgets]_vars => ImplementsKeys
<1>1. StaffInv /\ KeysGood /\ RetriesWait /\ [Next]_vars /\ [NoneForgets]_vars
        => [Keys!Next]_(Keys!vars)
  <2> SUFFICES ASSUME StaffInv, KeysGood, RetriesWait, [Next]_vars, [NoneForgets]_vars
               PROVE  [Keys!Next]_(Keys!vars)
    OBVIOUS
  <2>1. \A k \in Slot : KeyGood(k) /\ Alone(k)
    BY DEF RetriesWait, KeysGood
  <2>2. CASE NoneForgets
    BY <2>1, <2>2, KeysStep
  <2>3. CASE UNCHANGED vars
    <3>1. \A k \in Slot : StandsFor(k)' = StandsFor(k)
      BY <2>3, StandsForKept DEF vars
    <3>2. Kept' = Kept
      BY <3>1 DEF Kept
    <3> QED BY <2>3, <3>2 DEF vars, Keys!vars
  <2> QED BY <2>2, <2>3
<1> QED BY <1>1, KeysInit, KeysStayGood, StaffInvariance, PTL
        DEF Spec, ImplementsKeys, Keys!Spec

-----------------------------------------------------------------------------
(* Disablings are audited.                                                 *)

HasEntry(c) == \E k \in Slot : k.action = "disable_customer" /\ c \in Audited(k)
Accounted(c) == HasEntry(c) \/ c \in unaudited \/ \E p \in Process : OwesEntry(p, c)
DisablingsGood == \A c \in inactive : Accounted(c)

LEMMA AccountedKept ==
    ASSUME NEW c, Accounted(c), NEW p \in Process,
           \A k \in Slot : Audited(k) \subseteq Audited(k)', unaudited \subseteq unaudited',
           \A q \in Process : q # p => request'[q] = request[q],
           OwesEntry(p, c) => HasEntry(c)' \/ c \in unaudited'
    PROVE  Accounted(c)'
<1>1. CASE HasEntry(c) \/ c \in unaudited
  BY <1>1 DEF HasEntry, Accounted
<1>2. ASSUME NEW q \in Process, OwesEntry(q, c) PROVE Accounted(c)'
  <2>1. CASE q = p
    BY <1>2, <2>1 DEF Accounted, OwesEntry
  <2>2. CASE q # p
    <3>1. request'[q] = request[q]
      BY <2>2
    <3>2. OwesEntry(q, c)'
      BY <1>2, <3>1 DEF OwesEntry, At
    <3> QED BY <3>2 DEF Accounted
  <2> QED BY <2>1, <2>2
<1> QED BY <1>1, <1>2 DEF Accounted

\* A step of a process that owes no entry, disables nobody and writes no entry.
LEMMA QuietKeepsDisablings ==
    ASSUME DisablingsGood, NEW p \in Process, ~At(p, "auditing"),
           UNCHANGED <<inactive, audits, unaudited>>,
           \A q \in Process : q # p => request'[q] = request[q]
    PROVE  DisablingsGood'
<1>1. \A k \in Slot : Audited(k) \subseteq Audited(k)'
  BY DEF Audited
<1> QED BY <1>1, AccountedKept DEF DisablingsGood, OwesEntry

LEMMA DisableKeepsDisablings ==
    ASSUME StaffInv, DisablingsGood, NEW p \in Process, DisableCustomer(p)
    PROVE  DisablingsGood'
<1> DEFINE r == request[p]
<1>1. /\ At(p, "acting") /\ r.slot.action = "disable_customer" /\ GoTo(p, "auditing")
      /\ inactive' = inactive \cup {r.target} /\ UNCHANGED <<audits, unaudited>>
  BY DEF DisableCustomer, history
<1>2. /\ request'[p].at = "auditing" /\ request'[p].slot = r.slot
      /\ request'[p].target = r.target
      /\ \A q \in Process : q # p => request'[q] = request[q]
  BY <1>1, GoToTyped DEF StaffInv, At, SensitivePoint
<1>3. PICK t : t = r.target
  OBVIOUS
<1>4. Accounted(t)'
  BY <1>1, <1>2, <1>3 DEF Accounted, OwesEntry, At
<1>5. ASSUME NEW c \in inactive PROVE Accounted(c)'
  <2>1. \A k \in Slot : Audited(k) \subseteq Audited(k)'
    BY <1>1 DEF Audited
  <2>2. ~OwesEntry(p, c)
    BY <1>1 DEF At, OwesEntry
  <2>3. Accounted(c) /\ \A q \in Process : q # p => request'[q] = request[q]
    BY <1>2 DEF DisablingsGood
  <2> QED BY <1>1, <2>1, <2>2, <2>3, AccountedKept
<1> QED BY <1>1, <1>3, <1>4, <1>5 DEF DisablingsGood

\* A disabling that ends without its entry, be it that its process dies or that the
\* reason does not fit, is marked.
LEMMA LossKeepsDisablings ==
    ASSUME StaffInv, DisablingsGood, NEW p \in Process, End(p),
           UNCHANGED <<inactive, audits>>, unaudited' = unaudited \cup Owed(p)
    PROVE  DisablingsGood'
<1>1. \A k \in Slot : Audited(k) \subseteq Audited(k)'
  BY DEF Audited
<1>2. \A q \in Process : q # p => request'[q] = request[q]
  BY EndTyped DEF StaffInv
<1>3. ASSUME NEW c \in inactive PROVE Accounted(c)'
  <2>1. OwesEntry(p, c) => c \in unaudited'
    BY DEF Owed, StaffInv, TypeOK
  <2> QED BY <1>1, <1>2, <2>1, AccountedKept DEF DisablingsGood
<1> QED BY <1>3 DEF DisablingsGood

LEMMA WriteKeepsDisablings ==
    ASSUME StaffInv, DisablingsGood, NEW p \in Process, WriteAudit(p)
    PROVE  DisablingsGood'
<1> DEFINE r == request[p]
<1>1. /\ At(p, "auditing") /\ r.at \in SensitivePoint /\ UNCHANGED inactive
  BY DEF WriteAudit, At, SensitivePoint, accounts
<1>2. CASE r.data \in LongReason
  BY <1>1, <1>2, LossKeepsDisablings DEF WriteAudit
<1>3. CASE r.data \notin LongReason
  <2>1. /\ GoTo(p, "remembering") /\ UNCHANGED unaudited
        /\ audits' = [audits EXCEPT ![r.slot] = Append(@, r.target)]
    BY <1>3 DEF WriteAudit
  <2>2. PICK slot \in Slot, t \in Target : slot = r.slot /\ t = r.target
    BY <1>1, SlotFacts DEF StaffInv
  <2>3. /\ t \in Audited(slot)'
        /\ \A k \in Slot : Audited(k) \subseteq Audited(k)'
    BY <2>1, <2>2, AppendAudited DEF StaffInv
  <2>4. \A q \in Process : q # p => request'[q] = request[q]
    BY <1>1, <2>1, GoToTyped DEF StaffInv, SensitivePoint
  <2>5. ASSUME NEW c \in inactive PROVE Accounted(c)'
    <3>1. OwesEntry(p, c) => HasEntry(c)'
      BY <2>2, <2>3 DEF OwesEntry, HasEntry
    <3> QED BY <2>1, <2>3, <2>4, <3>1, AccountedKept DEF DisablingsGood
  <2> QED BY <1>1, <2>5 DEF DisablingsGood
<1> QED BY <1>2, <1>3

LEMMA DisablingsStep ==
    ASSUME StaffInv, DisablingsGood, [Next]_vars
    PROVE  DisablingsGood'
<1>1. ASSUME UNCHANGED <<inactive, audits, request, unaudited>> PROVE DisablingsGood'
  BY <1>1 DEF DisablingsGood, Accounted, HasEntry, OwesEntry, Audited, At
<1>2. ASSUME NEW s \in Staff, StartMfaSetup(s) PROVE DisablingsGood'
  BY <1>1, <1>2 DEF StartMfaSetup
<1>3. ASSUME NEW p \in Process, NEW s \in Staff, VerifyToken(p, s) PROVE DisablingsGood'
  <2>1. \A q \in Process : q # p => request'[q] = request[q]
    BY <1>3 DEF VerifyToken, StaffInv, TypeOK
  <2> QED BY <1>3, <2>1, QuietKeepsDisablings DEF VerifyToken, At, accounts
<1>4. ASSUME NEW p \in Process, NEW slot \in Slot, BeginSensitive(p, slot)
      PROVE  DisablingsGood'
  <2>1. \A q \in Process : q # p => request'[q] = request[q]
    BY <1>4 DEF BeginSensitive, StaffInv, TypeOK
  <2> QED BY <1>4, <2>1, QuietKeepsDisablings DEF BeginSensitive, At, accounts, history
<1>5. ASSUME NEW p \in Process,
             \/ ConfirmDevice(p) \/ CheckMfa(p) \/ LookUp(p) \/ DropExpired(p)
             \/ CreateStaff(p) \/ ResetStaffMfa(p) \/ Remember(p)
      PROVE  DisablingsGood'
  <2>1. ~At(p, "auditing") /\ UNCHANGED <<inactive, audits, unaudited>>
    BY <1>5 DEF ConfirmDevice, CheckMfa, LookUp, DropExpired, CreateStaff, ResetStaffMfa,
                Remember, At, accounts, history
  <2>2. End(p) \/ \E at : GoTo(p, at)
    BY <1>5 DEF ConfirmDevice, CheckMfa, LookUp, GoToWork, DropExpired, CreateStaff,
                ResetStaffMfa, Remember
  <2>3. \A q \in Process : q # p => request'[q] = request[q]
    BY <2>2 DEF End, GoTo, StaffInv, TypeOK
  <2> QED BY <2>1, <2>3, QuietKeepsDisablings
<1>6. ASSUME NEW slot \in Slot, ExpireRecord(slot) PROVE DisablingsGood'
  BY <1>1, <1>6 DEF ExpireRecord, accounts, history
<1>8. ASSUME NEW p \in Process, Crash(p) PROVE DisablingsGood'
  BY <1>8, LossKeepsDisablings DEF Crash, accounts
<1>7. CASE UNCHANGED vars
  BY <1>1, <1>7 DEF vars
<1> QED BY <1>2, <1>3, <1>4, <1>5, <1>6, <1>7, <1>8, DisableKeepsDisablings,
           WriteKeepsDisablings, NextSteps DEF Steps

\* An inactive customer has an audit entry or a request that is about to write it,
\* unless a process died with the entry still to write or the reason did not fit,
\* with any number of processes and keys (disable_customer, write_audit_log).
THEOREM StaffUnauditedNeedsLostEntry == Spec => []UnauditedNeedsLostEntry
<1>1. Init => DisablingsGood
  BY DEF Init, DisablingsGood
<1>2. DisablingsGood => UnauditedNeedsLostEntry
  BY DEF DisablingsGood, Accounted, HasEntry, UnauditedNeedsLostEntry
<1> QED BY <1>1, <1>2, DisablingsStep, StaffInvariance, PTL DEF Spec
=============================================================================
