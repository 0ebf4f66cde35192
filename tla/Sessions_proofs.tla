--------------------------- MODULE Sessions_proofs ---------------------------
(***************************************************************************)
(* Theorems about Sessions, for every set of customers, sessions and web   *)
(* processes.                                                              *)
(***************************************************************************)
EXTENDS Sessions, TLAPS

Presenting(p, s) ==
    /\ request[p].op = "rotate"
    /\ request[p].at \in {"revoking_presented", "issuing"}
    /\ request[p].session = s

Auditing(p, s) ==
    /\ request[p].op = "revoke"
    /\ request[p].at = "auditing"
    /\ request[p].session = s

\* What a request in flight may rely on.
RequestOK(p) ==
    LET r == request[p] IN
    /\ r.op = "rotate" =>
        /\ r.session \in Session
        /\ state[r.session] # "absent"
        /\ owner[r.session] = r.customer
        /\ r.at = "issuing" => state[r.session] = "revoked"
    /\ r.op = "revoke" => r.session \in Session
    /\ r.at = "issuing" =>
        \/ r.op = "rotate"
        \/ r.op \in {"login", "google_login"} /\ r.session = NoSession

\* Of the requests that revoke a session at most one is between its UPDATE and
\* its audit entry, and then nobody has written one before.
OneAuditor ==
    \A s \in Session :
        /\ audits[s] = 0 \/ (audits[s] = 1 /\ state[s] = "revoked")
        /\ \A p \in Process : Auditing(p, s) =>
            /\ state[s] = "revoked"
            /\ audits[s] = 0
            /\ \A q \in Process : Auditing(q, s) => p = q

SessionsInv ==
    /\ TypeOK
    /\ \A s \in Session : state[s] # "absent" => owner[s] \in Customer
    /\ \A p \in Process : RequestOK(p)
    /\ SuccessorReplaces
    /\ OneAuditor

LEMMA SessionsInit == Init => SessionsInv
BY SessionsAssumption
DEF Init, SessionsInv, TypeOK, RequestOK, SuccessorReplaces, OneAuditor,
    Auditing, Idle, Op, Point

\* The steps a process can take, whatever endpoint it serves.
Steps ==
    \/ \E p \in Process :
        \/ \E c \in Customer :
            \/ LoginPassword(p, c)
            \/ LoginGoogle(p, c)
            \/ \E s \in Session : BeginRevoke(p, c, s)
            \/ BeginRevokeAll(p, c)
            \/ BeginDisable(p, c)
        \/ \E s \in Session : PresentToken(p, s)
        \/ RevokePresented(p)
        \/ IssueSession(p)
        \/ RevokeOne(p)
        \/ AuditRevocation(p)
        \/ RevokeAll(p)
        \/ SaveDisabled(p)
        \/ AuditDisable(p)
        \/ Crash(p)
    \/ \E s \in Session : Expire(s)

LEMMA NextSteps == Next => Steps
BY DEF Next, Steps, LoginView, GoogleLoginView, RefreshTokenView, Issue,
       SessionRevokeView, SessionRevokeAllView, DisableCustomerView

\* No step revives a revoked session, and existing rows keep their owner.
LEMMA RowsPersist ==
    ASSUME SessionsInv, [Next]_vars, NEW s \in Session, state[s] # "absent"
    PROVE  /\ state'[s] # "absent"
           /\ state[s] = "revoked" => state'[s] = "revoked"
           /\ owner'[s] = owner[s]
           /\ parent'[s] = parent[s]
<1> USE DEF SessionsInv, TypeOK
<1>1. ASSUME NEW p \in Process, RevokePresented(p) \/ RevokeOne(p)
      PROVE  /\ state' = state \/ \E t \in Session \cup {NoSession} :
                    state' = [state EXCEPT ![t] = "revoked"]
             /\ UNCHANGED <<owner, parent>>
    BY <1>1 DEF RevokePresented, RevokeOne, history
<1>2. ASSUME NEW p \in Process, IssueSession(p)
      PROVE  \E t \in Session :
                /\ state[t] = "absent"
                /\ state' = [state EXCEPT ![t] = "live"]
                /\ owner' = [owner EXCEPT ![t] = request[p].customer]
                /\ parent' = [parent EXCEPT ![t] = request[p].session]
    BY <1>2 DEF IssueSession
<1>3. ASSUME NEW p \in Process, RevokeAll(p)
      PROVE  /\ state'[s] \in {state[s], "revoked"}
             /\ UNCHANGED <<owner, parent>>
    BY <1>3 DEF RevokeAll, AfterRevokingAll, history
<1>4. CASE UNCHANGED <<state, owner, parent>>
    BY <1>4
<1>5. CASE \E p \in Process : RevokePresented(p) \/ RevokeOne(p)
    BY <1>1, <1>5
<1>6. CASE \E p \in Process : IssueSession(p)
    BY <1>2, <1>6
<1>7. CASE \E p \in Process : RevokeAll(p)
    BY <1>3, <1>7
<1>8. QED
    BY <1>4, <1>5, <1>6, <1>7, NextSteps
    DEF Steps, LoginPassword, LoginGoogle, BeginRevoke, BeginRevokeAll,
        BeginDisable, PresentToken, Begin, AuditRevocation, SaveDisabled,
        AuditDisable, Crash, Expire, rows, history, vars

LEMMA SessionsType == SessionsInv /\ [Next]_vars => TypeOK'
<1> SUFFICES ASSUME SessionsInv, [Next]_vars PROVE TypeOK'
    OBVIOUS
<1> USE DEF SessionsInv, TypeOK, Op, Point
<1>1. ASSUME NEW p \in Process, NEW c \in Customer,
             NEW s \in Session \cup {NoSession}, NEW op \in Op, NEW at \in Point,
             Begin(p, op, at, c, s), contested' \subseteq Session
      PROVE  TypeOK'
    BY <1>1 DEF Begin, rows
<1>2. ASSUME NEW p \in Process, NEW s \in Session, PresentToken(p, s)
      PROVE  TypeOK'
  <2>1. owner[s] \in Customer /\ contested' \subseteq Session
      BY <1>2 DEF PresentToken, Contest, IsActive
  <2>2. QED
      BY <1>1, <1>2, <2>1 DEF PresentToken
<1>3. ASSUME NEW p \in Process, RevokePresented(p) PROVE TypeOK'
    BY <1>3 DEF RevokePresented, At, GoTo, history
<1>4. ASSUME NEW p \in Process, IssueSession(p) PROVE TypeOK'
    BY <1>4 DEF IssueSession, End, Idle
<1>5. ASSUME NEW p \in Process, RevokeOne(p) PROVE TypeOK'
  <2>1. CASE GoTo(p, "auditing")
      BY <1>5, <2>1 DEF RevokeOne, At, GoTo, history
  <2>2. CASE End(p)
      BY <1>5, <2>2 DEF RevokeOne, End, Idle, history
  <2>3. QED
      BY <1>5, <2>1, <2>2 DEF RevokeOne
<1>6. ASSUME NEW p \in Process, AuditRevocation(p) PROVE TypeOK'
  <2>1. request[p].session \in Session
      BY <1>6 DEF AuditRevocation, At, RequestOK
  <2>2. audits' \in [Session -> Nat]
      BY <1>6, <2>1 DEF AuditRevocation
  <2>3. QED
      BY <1>6, <2>2 DEF AuditRevocation, End, Idle, rows
<1>7. ASSUME NEW p \in Process, RevokeAll(p) PROVE TypeOK'
  <2> DEFINE c == request[p].customer
             Request == [op : Op, at : Point, customer : Customer \cup {NoCustomer},
                         session : Session \cup {NoSession}, late : BOOLEAN]
  <2>1. state' \in [Session -> {"absent", "live", "revoked"}]
      BY <1>7 DEF RevokeAll
  <2>2. CASE request[p].op = "disable"
    <3>1. /\ request' \in [Process -> Request]
          /\ \A q \in Process : request'[q].customer = request[q].customer
          /\ \A q \in Process \ {p} : request'[q].at = request[q].at
      <4>1. request' = [q \in Process |->
                        IF q = p THEN [request[q] EXCEPT !.at = "auditing"]
                        ELSE IF Overtaken(q, c) THEN [request[q] EXCEPT !.late = TRUE]
                        ELSE request[q]]
          BY <1>7, <2>2 DEF RevokeAll, AfterRevokingAll
      <4>2. \A q \in Process : [request[q] EXCEPT !.at = "auditing"] \in Request
          OBVIOUS
      <4>3. \A q \in Process : [request[q] EXCEPT !.late = TRUE] \in Request
          OBVIOUS
      <4>4. request' \in [Process -> Request]
        <5>1. \A q \in Process : request[q] \in Request
            OBVIOUS
        <5> HIDE DEF Request, c
        <5>2. QED
            BY <4>1, <4>2, <4>3, <5>1
      <4>5. \A q \in Process : /\ request'[q].customer = request[q].customer
                               /\ q # p => request'[q].at = request[q].at
          BY <4>1
      <4>6. QED
          BY <4>4, <4>5
    <3>2. c \in Customer
        BY <1>7 DEF RevokeAll
    <3>3. disabled' \subseteq Customer /\ stray' \subseteq Session
        BY <1>7, <2>2, <3>2 DEF RevokeAll, AfterRevokingAll
    <3>4. UNCHANGED <<active, owner, expired, parent, audits, contested>>
        BY <1>7, <2>2 DEF RevokeAll, AfterRevokingAll
    <3>5. \A q \in Process : request'[q].at # "idle" => request'[q].customer \in Customer
        BY <3>1, <3>2
    <3>6. QED
        BY <2>1, <3>1, <3>3, <3>4, <3>5
  <2>3. CASE request[p].op # "disable"
    <3>1. End(p) /\ UNCHANGED <<active, owner, expired, history>>
        BY <1>7, <2>3 DEF RevokeAll, AfterRevokingAll
    <3>2. QED
        BY <2>1, <3>1 DEF End, Idle, history
  <2>4. QED
      BY <2>2, <2>3
<1>8. ASSUME NEW p \in Process, SaveDisabled(p) PROVE TypeOK'
    BY <1>8 DEF SaveDisabled, At, GoTo, history
<1>9. ASSUME NEW p \in Process, AuditDisable(p) PROVE TypeOK'
    BY <1>9 DEF AuditDisable, At, End, Idle, rows, history
<1>10. ASSUME NEW p \in Process, Crash(p) PROVE TypeOK'
    BY <1>10 DEF Crash, End, Idle, rows, history
<1>11. ASSUME NEW s \in Session, Expire(s) PROVE TypeOK'
    BY <1>11 DEF Expire, history
<1>12. CASE UNCHANGED vars
    BY <1>12 DEF vars
<1>13. QED
    BY <1>1, <1>2, <1>3, <1>4, <1>5, <1>6, <1>7, <1>8, <1>9, <1>10, <1>11,
       <1>12, NextSteps
    DEF Steps, LoginPassword, LoginGoogle, BeginRevoke, BeginRevokeAll,
        BeginDisable

LEMMA OwnersKnown ==
    SessionsInv /\ [Next]_vars =>
        \A s \in Session : state'[s] # "absent" => owner'[s] \in Customer
<1> SUFFICES ASSUME SessionsInv, [Next]_vars, NEW s \in Session,
                    state'[s] # "absent"
             PROVE  owner'[s] \in Customer
    OBVIOUS
<1> USE DEF SessionsInv
<1>1. CASE state[s] # "absent"
    BY <1>1, RowsPersist
<1>2. CASE state[s] = "absent"
  <2>1. ASSUME NEW p \in Process, IssueSession(p) PROVE owner'[s] \in Customer
      BY <1>2, <2>1 DEF IssueSession, TypeOK
  <2>2. ASSUME NEW p \in Process,
               RevokePresented(p) \/ RevokeOne(p) \/ RevokeAll(p)
        PROVE  FALSE
      BY <1>2, <2>2
      DEF RevokePresented, RevokeOne, RevokeAll, At, RequestOK, TypeOK
  <2>3. state' # state
      BY <1>2
  <2>4. QED
      BY <2>1, <2>2, <2>3, NextSteps
      DEF Steps, LoginPassword, LoginGoogle, BeginRevoke, BeginRevokeAll,
          BeginDisable, PresentToken, Begin, AuditRevocation, SaveDisabled,
          AuditDisable, Crash, Expire, rows, history, vars
<1>3. QED
    BY <1>1, <1>2

LEMMA SuccessorStep == SessionsInv /\ [Next]_vars => SuccessorReplaces'
<1> SUFFICES ASSUME SessionsInv, [Next]_vars, NEW s \in Session,
                    parent'[s] # NoSession
             PROVE  /\ state'[parent'[s]] = "revoked"
                    /\ owner'[parent'[s]] = owner'[s]
    BY DEF SuccessorReplaces
<1> USE DEF SessionsInv, TypeOK
<1>1. CASE parent'[s] = parent[s] /\ owner'[s] = owner[s]
    BY <1>1, RowsPersist DEF SuccessorReplaces
<1>2. CASE \E p \in Process : IssueSession(p) /\ parent'[s] # parent[s]
  <2>1. PICK p \in Process : IssueSession(p) /\ parent'[s] # parent[s]
      BY <1>2
  <2>2. /\ request[p].at = "issuing"
        /\ parent'[s] = request[p].session
        /\ owner'[s] = request[p].customer
      BY <2>1 DEF IssueSession
  <2>3. /\ request[p].session \in Session
        /\ state[request[p].session] = "revoked"
        /\ owner[request[p].session] = request[p].customer
      BY <2>2 DEF RequestOK
  <2>4. QED
      BY <2>2, <2>3, RowsPersist
<1>3. CASE \E p \in Process : IssueSession(p) /\ owner'[s] # owner[s]
  <2>1. PICK p \in Process : IssueSession(p) /\ owner'[s] # owner[s]
      BY <1>3
  <2>2. /\ request[p].at = "issuing"
        /\ parent'[s] = request[p].session
        /\ owner'[s] = request[p].customer
      BY <2>1 DEF IssueSession
  <2>3. /\ request[p].session \in Session
        /\ state[request[p].session] = "revoked"
        /\ owner[request[p].session] = request[p].customer
      BY <2>2 DEF RequestOK
  <2>4. QED
      BY <2>2, <2>3, RowsPersist
<1>4. QED
    BY <1>1, <1>2, <1>3, NextSteps
    DEF Steps, LoginPassword, LoginGoogle, BeginRevoke, BeginRevokeAll,
        BeginDisable, PresentToken, Begin, RevokePresented, RevokeOne, RevokeAll,
        AfterRevokingAll, AuditRevocation, SaveDisabled, AuditDisable, Crash,
        Expire, rows, history, vars

\* A request that stands still keeps what it relies on.
LEMMA RequestKept ==
    ASSUME SessionsInv, [Next]_vars, NEW p \in Process,
           request'[p].op = request[p].op,
           request'[p].at = request[p].at,
           request'[p].session = request[p].session,
           request'[p].customer = request[p].customer
    PROVE  RequestOK(p)'
BY RowsPersist DEF SessionsInv, RequestOK

LEMMA RequestStep ==
    SessionsInv /\ [Next]_vars => \A p \in Process : RequestOK(p)'
<1> SUFFICES ASSUME SessionsInv, [Next]_vars, NEW p \in Process,
                    request'[p] # request[p]
             PROVE  RequestOK(p)'
    BY RequestKept
<1>1. TypeOK /\ RequestOK(p)
    BY DEF SessionsInv
<1>2. ASSUME NEW q \in Process, End(q) PROVE RequestOK(p)'
    BY <1>1, <1>2 DEF End, Idle, RequestOK, TypeOK
<1>3. ASSUME NEW q \in Process, NEW c \in Customer, NEW s \in Session,
             \/ Begin(q, "login", "issuing", c, NoSession)
             \/ Begin(q, "google_login", "issuing", c, NoSession)
             \/ Begin(q, "revoke", "updating", c, s)
             \/ Begin(q, "revoke_all", "revoking_all", c, NoSession)
             \/ Begin(q, "disable", "saving", c, NoSession)
      PROVE  RequestOK(p)'
    BY <1>1, <1>3 DEF Begin, RequestOK, TypeOK
<1>4. ASSUME NEW q \in Process, NEW s \in Session, PresentToken(q, s)
      PROVE  RequestOK(p)'
    BY <1>1, <1>4
    DEF PresentToken, IsActive, Begin, RequestOK, TypeOK, rows
<1>5. ASSUME NEW q \in Process, NEW at \in Point, GoTo(q, at),
             at # "issuing"
      PROVE  RequestOK(p)'
  <2>1. /\ request'[p].op = request[p].op
        /\ request'[p].session = request[p].session
        /\ request'[p].customer = request[p].customer
        /\ request'[p].at = at
      BY <1>1, <1>5 DEF GoTo, TypeOK
  <2>2. request[p].op = "rotate" =>
            /\ state'[request[p].session] # "absent"
            /\ owner'[request[p].session] = owner[request[p].session]
      BY <1>1, RowsPersist DEF RequestOK
  <2>3. QED
      BY <1>1, <1>5, <2>1, <2>2 DEF RequestOK
<1>6. ASSUME NEW q \in Process, RevokePresented(q) PROVE RequestOK(p)'
  <2>1. /\ request[p].op = "rotate"
        /\ request'[p].op = "rotate"
        /\ request'[p].session = request[p].session
        /\ request'[p].customer = request[p].customer
        /\ request[p].session \in Session
        /\ state' = [state EXCEPT ![request[p].session] = "revoked"]
      BY <1>1, <1>6 DEF RevokePresented, At, GoTo, TypeOK, RequestOK
  <2>2. state'[request[p].session] = "revoked"
      BY <1>1, <2>1 DEF TypeOK
  <2>3. QED
      BY <1>1, <1>6, <2>1, <2>2 DEF RevokePresented, RequestOK
<1>7. CASE \E q \in Process : RevokeAll(q)
  <2>1. PICK q \in Process : RevokeAll(q)
      BY <1>7
  <2>2. CASE request[q].op # "disable"
      BY <1>2, <2>1, <2>2 DEF RevokeAll, AfterRevokingAll
  <2>3. CASE request[q].op = "disable" /\ p = q
      BY <1>1, <2>1, <2>3 DEF RevokeAll, AfterRevokingAll, RequestOK, TypeOK
  <2>4. CASE request[q].op = "disable" /\ p # q
    <3>1. /\ request'[p].op = request[p].op
          /\ request'[p].at = request[p].at
          /\ request'[p].session = request[p].session
          /\ request'[p].customer = request[p].customer
        BY <1>1, <2>1, <2>4 DEF RevokeAll, AfterRevokingAll, TypeOK
    <3>2. QED
        BY <3>1, RequestKept
  <2>5. QED
      BY <2>2, <2>3, <2>4
<1>8. CASE \E q \in Process : RevokeOne(q)
    BY <1>2, <1>5, <1>8 DEF RevokeOne, Point
<1>9. CASE \E q \in Process : SaveDisabled(q)
    BY <1>5, <1>9 DEF SaveDisabled, Point
<1>10. CASE \E q \in Process : \/ IssueSession(q)
                              \/ AuditRevocation(q)
                              \/ AuditDisable(q)
                              \/ Crash(q)
    BY <1>2, <1>10 DEF IssueSession, AuditRevocation, AuditDisable, Crash
<1>11. CASE \E q \in Process, c \in Customer :
                \/ LoginPassword(q, c)
                \/ LoginGoogle(q, c)
                \/ \E s \in Session : BeginRevoke(q, c, s)
    BY <1>3, <1>11, <1>1 DEF LoginPassword, LoginGoogle, BeginRevoke, Begin, RequestOK, TypeOK
<1>12. CASE \E q \in Process, c \in Customer :
                BeginRevokeAll(q, c) \/ BeginDisable(q, c)
    BY <1>1, <1>12 DEF BeginRevokeAll, BeginDisable, Begin, RequestOK, TypeOK
<1>13. QED
    BY <1>4, <1>6, <1>7, <1>8, <1>9, <1>10, <1>11, <1>12, NextSteps
    DEF Steps, Expire, vars

LEMMA AuditorStep == SessionsInv /\ [Next]_vars => OneAuditor'
<1> SUFFICES ASSUME SessionsInv, [Next]_vars PROVE OneAuditor'
    OBVIOUS
<1>1. TypeOK /\ OneAuditor
    BY DEF SessionsInv
<1>2. ASSUME UNCHANGED audits,
             \A p \in Process, s \in Session : Auditing(p, s)' => Auditing(p, s)
      PROVE  OneAuditor'
    BY <1>1, <1>2, RowsPersist DEF OneAuditor
<1>3. ASSUME NEW q \in Process, RevokeOne(q) PROVE OneAuditor'
  <2> DEFINE s == request[q].session
  <2>1. CASE owner[s] = request[q].customer /\ state[s] = "live"
    <3>1. /\ s \in Session
          /\ state' = [state EXCEPT ![s] = "revoked"]
          /\ GoTo(q, "auditing")
          /\ UNCHANGED audits
        BY <1>3, <2>1 DEF RevokeOne, At, history, SessionsInv, RequestOK
    <3>2. audits[s] = 0 /\ \A p \in Process : ~Auditing(p, s)
        BY <1>1, <2>1, <3>1 DEF OneAuditor
    <3>3. \A p \in Process, t \in Session : Auditing(p, t)' =>
              Auditing(p, t) \/ (p = q /\ t = s)
        BY <1>1, <3>1 DEF Auditing, GoTo, TypeOK
    <3>4. state'[s] = "revoked"
        BY <1>1, <3>1 DEF TypeOK
    <3>5. QED
        BY <1>1, <3>1, <3>2, <3>3, <3>4, RowsPersist DEF OneAuditor
  <2>2. CASE ~(owner[s] = request[q].customer /\ state[s] = "live")
      BY <1>1, <1>2, <1>3, <2>2
      DEF RevokeOne, End, Idle, history, Auditing, TypeOK
  <2>3. QED
      BY <2>1, <2>2
<1>4. ASSUME NEW q \in Process, AuditRevocation(q) PROVE OneAuditor'
  <2>1. PICK s \in Session : s = request[q].session
      BY <1>4 DEF AuditRevocation, At, SessionsInv, RequestOK
  <2>2. /\ s \in Session
        /\ Auditing(q, s)
        /\ audits' = [audits EXCEPT ![s] = @ + 1]
        /\ End(q)
        /\ UNCHANGED state
      BY <1>4, <2>1 DEF AuditRevocation, At, Auditing, rows
  <2>3. state[s] = "revoked" /\ audits[s] = 0
      BY <1>1, <2>2 DEF OneAuditor
  <2>4. \A p \in Process, t \in Session : Auditing(p, t)' =>
            p # q /\ Auditing(p, t)
      BY <1>1, <2>2 DEF Auditing, End, Idle, TypeOK
  <2>5. \A p \in Process : ~Auditing(p, s)'
      BY <1>1, <2>2, <2>4 DEF OneAuditor
  <2>6. audits'[s] = 1 /\ \A t \in Session \ {s} : audits'[t] = audits[t]
      BY <1>1, <2>2, <2>3 DEF TypeOK
  <2>7. QED
      BY <1>1, <2>2, <2>3, <2>4, <2>5, <2>6 DEF OneAuditor
<1>5. CASE \E q \in Process : RevokeAll(q)
  <2>1. PICK q \in Process : RevokeAll(q)
      BY <1>5
  <2>2. CASE request[q].op = "disable"
    <3>1. \A p \in Process : /\ request'[p].op = request[p].op
                             /\ request'[p].session = request[p].session
                             /\ p # q => request'[p].at = request[p].at
        BY <1>1, <2>1, <2>2 DEF RevokeAll, AfterRevokingAll, TypeOK
    <3>2. QED
        BY <1>2, <2>1, <2>2, <3>1 DEF RevokeAll, AfterRevokingAll, Auditing
  <2>3. CASE request[q].op # "disable"
      BY <1>1, <1>2, <2>1, <2>3
      DEF RevokeAll, AfterRevokingAll, End, Idle, history, Auditing, TypeOK
  <2>4. QED
      BY <2>2, <2>3
<1>6. CASE \E q \in Process : \/ RevokePresented(q)
                              \/ SaveDisabled(q)
    BY <1>1, <1>2, <1>6
    DEF RevokePresented, SaveDisabled, GoTo, history, Auditing, TypeOK
<1>7. CASE \E q \in Process : IssueSession(q) \/ AuditDisable(q) \/ Crash(q)
    BY <1>1, <1>2, <1>7
    DEF IssueSession, AuditDisable, Crash, End, Idle, history, Auditing, TypeOK
<1>8. CASE \E q \in Process, c \in Customer :
              \/ LoginPassword(q, c) \/ LoginGoogle(q, c)
              \/ \E s \in Session : BeginRevoke(q, c, s)
              \/ BeginRevokeAll(q, c) \/ BeginDisable(q, c)
    BY <1>1, <1>2, <1>8
    DEF LoginPassword, LoginGoogle, BeginRevoke, BeginRevokeAll, BeginDisable,
        Begin, history, Auditing, TypeOK
<1>9. CASE \E q \in Process, s \in Session : PresentToken(q, s)
    BY <1>1, <1>2, <1>9 DEF PresentToken, Begin, history, Auditing, TypeOK
<1>10. CASE UNCHANGED vars \/ \E s \in Session : Expire(s)
    BY <1>2, <1>10 DEF vars, Expire, history, Auditing
<1>11. QED
    BY <1>3, <1>4, <1>5, <1>6, <1>7, <1>8, <1>9, <1>10, NextSteps DEF Steps

LEMMA SessionsStep == SessionsInv /\ [Next]_vars => SessionsInv'
BY SessionsType, OwnersKnown, RequestStep, SuccessorStep, AuditorStep
DEF SessionsInv

LEMMA SessionsCorrect == Spec => []SessionsInv
BY SessionsInit, SessionsStep, PTL DEF Spec

-----------------------------------------------------------------------------
\* Every state is well typed, and a request in flight has a customer.
THEOREM SessionsTypeCorrect == Spec => []TypeOK
<1>1. SessionsInv => TypeOK
    BY DEF SessionsInv
<1>2. QED
    BY <1>1, SessionsCorrect, PTL

\* A session's successor exists only once the session itself is revoked, under
\* any interleaving of any number of web processes, and any crashes.
THEOREM SessionsSuccessorReplaces == Spec => []SuccessorReplaces
<1>1. SessionsInv => SuccessorReplaces
    BY DEF SessionsInv
<1>2. QED
    BY <1>1, SessionsCorrect, PTL

\* The counted UPDATE of revoke_session lets one request through per session.
THEOREM SessionsOneAuditPerRevocation == Spec => []OneAuditPerRevocation
<1>1. SessionsInv => OneAuditPerRevocation
    BY DEF SessionsInv, TypeOK, OneAuditor, OneAuditPerRevocation
<1>2. QED
    BY <1>1, SessionsCorrect, PTL

\* Revocation is for ever.
THEOREM SessionsRevokedIsFinal == Spec => RevokedIsFinal
<1> DEFINE Final ==
        \A s \in Session : state[s] = "revoked" => state'[s] = "revoked"
<1>1. SessionsInv /\ [Next]_vars => [Final]_vars
    BY RowsPersist
<1>2. QED
    BY <1>1, SessionsCorrect, PTL DEF Spec, RevokedIsFinal

-----------------------------------------------------------------------------
(* Two successors of one token need two presentations that overlap.        *)

\* Of the requests that present one token, all but the first have contested it,
\* and so has one that presents a token with a successor.
RotationInv ==
    /\ SessionsInv
    /\ SecondSuccessorNeedsContest
    /\ \A p \in Process, s, t \in Session :
            Presenting(p, s) /\ parent[t] = s => s \in contested
    /\ \A p, q \in Process, s \in Session :
            Presenting(p, s) /\ Presenting(q, s) => p = q \/ s \in contested

LEMMA RotationInit == Init => RotationInv
<1> SUFFICES ASSUME Init PROVE RotationInv
    OBVIOUS
<1>1. SessionsInv
    BY SessionsInit
<1>2. QED
    BY <1>1, SessionsAssumption
    DEF Init, RotationInv, SecondSuccessorNeedsContest, Presenting, Idle

LEMMA RotationStep == RotationInv /\ [Next]_vars => RotationInv'
<1> SUFFICES ASSUME RotationInv, [Next]_vars PROVE RotationInv'
    OBVIOUS
<1>1. SessionsInv /\ SessionsInv' /\ TypeOK
    BY SessionsStep DEF RotationInv, SessionsInv
<1>2. ASSUME UNCHANGED <<parent, contested>>,
             \A p \in Process, s \in Session : Presenting(p, s)' => Presenting(p, s)
      PROVE  RotationInv'
    BY <1>1, <1>2 DEF RotationInv, SecondSuccessorNeedsContest
<1>3. ASSUME NEW q \in Process, IssueSession(q) PROVE RotationInv'
  <2>1. PICK t \in Session : parent' = [parent EXCEPT ![t] = request[q].session]
      BY <1>3 DEF IssueSession
  <2>2. contested' = contested
      BY <1>3 DEF IssueSession
  <2>3. \A p \in Process, s \in Session : Presenting(p, s)' => Presenting(p, s) /\ p # q
      BY <1>1, <1>3 DEF IssueSession, End, Idle, Presenting, TypeOK
  <2>4. request[q].session = NoSession \/ Presenting(q, request[q].session)
      BY <1>1, <1>3 DEF IssueSession, SessionsInv, RequestOK, Presenting
  <2>5. \A u \in Session : parent'[u] = IF u = t THEN request[q].session ELSE parent[u]
      BY <1>1, <2>1 DEF TypeOK
  <2>6. SecondSuccessorNeedsContest'
    <3> SUFFICES ASSUME NEW u \in Session, NEW v \in Session, parent'[u] # NoSession,
                        parent'[u] = parent'[v], u # v
                 PROVE  parent'[u] \in contested
        BY <2>2 DEF SecondSuccessorNeedsContest
    <3>1. CASE u = t \/ v = t
      <4>1. PICK w \in Session : w # t /\ parent[w] = parent'[u]
          BY <2>5, <3>1
      <4>2. parent'[u] = request[q].session /\ parent'[u] \in Session
          BY <1>1, <2>5, <3>1 DEF TypeOK
      <4>3. QED
          BY <2>4, <4>1, <4>2 DEF RotationInv
    <3>2. CASE u # t /\ v # t
        BY <2>5, <3>2 DEF RotationInv, SecondSuccessorNeedsContest
    <3>3. QED
        BY <3>1, <3>2
  <2>7. ASSUME NEW p \in Process, NEW s \in Session, NEW u \in Session,
               Presenting(p, s)', parent'[u] = s
        PROVE  s \in contested
    <3>1. CASE u = t
        BY <2>3, <2>4, <2>5, <2>7, <3>1, SessionsAssumption DEF RotationInv
    <3>2. CASE u # t
        BY <2>3, <2>5, <2>7, <3>2 DEF RotationInv
    <3>3. QED
        BY <3>1, <3>2
  <2>8. QED
      BY <1>1, <2>2, <2>3, <2>6, <2>7 DEF RotationInv
<1>4. ASSUME NEW q \in Process, NEW s \in Session, PresentToken(q, s)
      PROVE  RotationInv'
  <2>1. /\ UNCHANGED <<parent, state>>
        /\ contested \subseteq contested'
        /\ state[s] = "live"
      BY <1>4 DEF PresentToken, IsActive, Begin, rows, Contest
  <2>2. \A p \in Process, u \in Session :
            Presenting(p, u)' => Presenting(p, u) \/ (p = q /\ u = s)
      BY <1>1, <1>4 DEF PresentToken, Begin, Presenting, TypeOK
  <2>3. \A u \in Session : parent[u] # s
      BY <1>1, <2>1, SessionsAssumption DEF SessionsInv, SuccessorReplaces
  <2>4. ASSUME NEW p \in Process, Presenting(p, s), p # q
        PROVE  s \in contested'
    <3>1. At(p, "rotate", "revoking_presented") /\ request[p].session = s
        BY <1>1, <2>1, <2>4 DEF SessionsInv, RequestOK, Presenting, At
    <3>2. QED
        BY <1>4, <2>4, <3>1 DEF PresentToken, Contest
  <2>5. QED
      BY <1>1, <2>1, <2>2, <2>3, <2>4 DEF RotationInv, SecondSuccessorNeedsContest
<1>5. CASE \E q \in Process : RevokeAll(q)
  <2>1. PICK q \in Process : RevokeAll(q)
      BY <1>5
  <2>2. CASE request[q].op = "disable"
    <3>1. \A p \in Process : /\ request'[p].op = request[p].op
                             /\ request'[p].session = request[p].session
                             /\ p # q => request'[p].at = request[p].at
        BY <1>1, <2>1, <2>2 DEF RevokeAll, AfterRevokingAll, TypeOK
    <3>2. QED
        BY <1>2, <2>1, <2>2, <3>1 DEF RevokeAll, AfterRevokingAll, Presenting
  <2>3. CASE request[q].op # "disable"
      BY <1>1, <1>2, <2>1, <2>3
      DEF RevokeAll, AfterRevokingAll, End, Idle, history, Presenting, TypeOK
  <2>4. QED
      BY <2>2, <2>3
<1>6. CASE \E q \in Process : RevokePresented(q)
    BY <1>1, <1>2, <1>6
    DEF RevokePresented, At, GoTo, history, Presenting, TypeOK
<1>7. CASE \E q \in Process : SaveDisabled(q)
    BY <1>1, <1>2, <1>7 DEF SaveDisabled, GoTo, history, Presenting, TypeOK
<1>8. CASE \E q \in Process :
              AuditRevocation(q) \/ AuditDisable(q) \/ Crash(q)
    BY <1>1, <1>2, <1>8
    DEF AuditRevocation, AuditDisable, Crash, End, Idle, history, Presenting,
        TypeOK
<1>9. CASE \E q \in Process : RevokeOne(q)
  <2>1. PICK q \in Process : RevokeOne(q)
      BY <1>9
  <2>2. CASE GoTo(q, "auditing")
      BY <1>1, <1>2, <2>1, <2>2
      DEF RevokeOne, At, GoTo, history, Presenting, TypeOK
  <2>3. CASE End(q)
      BY <1>1, <1>2, <2>1, <2>3
      DEF RevokeOne, End, Idle, history, Presenting, TypeOK
  <2>4. QED
      BY <2>1, <2>2, <2>3 DEF RevokeOne
<1>10. CASE \E q \in Process, c \in Customer :
              \/ LoginPassword(q, c) \/ LoginGoogle(q, c)
              \/ \E s \in Session : BeginRevoke(q, c, s)
              \/ BeginRevokeAll(q, c) \/ BeginDisable(q, c)
    BY <1>1, <1>2, <1>10
    DEF LoginPassword, LoginGoogle, BeginRevoke, BeginRevokeAll, BeginDisable,
        Begin, Presenting, TypeOK
<1>11. CASE UNCHANGED vars \/ \E s \in Session : Expire(s)
    BY <1>2, <1>11 DEF vars, Expire, history, Presenting
<1>12. QED
    BY <1>3, <1>4, <1>5, <1>6, <1>7, <1>8, <1>9, <1>10, <1>11, NextSteps DEF Steps

\* However many requests there are, a token buys a second successor only when
\* two of them presented it at the same time (rotate_refresh_token).
THEOREM SessionsRotation == Spec => []SecondSuccessorNeedsContest
<1>1. RotationInv => SecondSuccessorNeedsContest
    BY DEF RotationInv
<1>2. QED
    BY <1>1, RotationInit, RotationStep, PTL DEF Spec

-----------------------------------------------------------------------------
(* What is left to a disabled customer.                                    *)

\* A disabled customer's requests that are going to issue a session are known
\* to be late, come from Google, or rotate a stray session.
DisablingInv ==
    /\ SessionsInv
    /\ OnlyStraysSurvive
    /\ \A c \in disabled : ~active[c]
    /\ \A p \in Process : At(p, "disable", "revoking_all") => ~active[request[p].customer]
    /\ \A p \in Process : request[p].customer \in disabled =>
            /\ request[p].op = "login" => request[p].late
            /\ request[p].op = "rotate" => request[p].late \/ request[p].session \in stray

LEMMA DisablingInit == Init => DisablingInv
<1> SUFFICES ASSUME Init PROVE DisablingInv
    OBVIOUS
<1>1. SessionsInv
    BY SessionsInit
<1>2. QED
    BY <1>1 DEF Init, DisablingInv, OnlyStraysSurvive, SessionListView, At, Idle

LEMMA DisablingStep == DisablingInv /\ [Next]_vars => DisablingInv'
<1> SUFFICES ASSUME DisablingInv, [Next]_vars PROVE DisablingInv'
    OBVIOUS
<1>1. SessionsInv /\ SessionsInv' /\ TypeOK
    BY SessionsStep DEF DisablingInv, SessionsInv
<1> DEFINE Harmless(p) ==
        \/ request'[p].op \in {"none", "google_login", "revoke", "revoke_all"}
        \/ request'[p].op = "disable" /\ request'[p].at # "revoking_all"
        \/ /\ request'[p].op = request[p].op
           /\ request'[p].session = request[p].session
           /\ request'[p].customer = request[p].customer
           /\ request'[p].late = request[p].late
           /\ request'[p].at = "revoking_all" => request[p].at = "revoking_all"
        \/ request'[p].op = "login" /\ request'[p].customer \notin disabled
<1>2. ASSUME UNCHANGED <<disabled, stray, owner, active>>, expired \subseteq expired',
             \A s \in Session : state'[s] = "live" => state[s] = "live",
             \A p \in Process : Harmless(p)
      PROVE  DisablingInv'
  <2>1. OnlyStraysSurvive'
      BY <1>2 DEF DisablingInv, OnlyStraysSurvive, SessionListView, Owned, IsActive
  <2>2. \A p \in Process : At(p, "disable", "revoking_all")' => ~active[request'[p].customer]
      BY <1>2 DEF DisablingInv, At
  <2>3. \A p \in Process : request'[p].customer \in disabled =>
            /\ request'[p].op = "login" => request'[p].late
            /\ request'[p].op = "rotate" =>
                    request'[p].late \/ request'[p].session \in stray
      BY <1>2 DEF DisablingInv
  <2>4. QED
      BY <1>1, <1>2, <2>1, <2>2, <2>3 DEF DisablingInv
<1>3. ASSUME NEW q \in Process, End(q) PROVE \A p \in Process : Harmless(p)
    BY <1>1, <1>3 DEF End, Idle, TypeOK
<1>4. ASSUME NEW q \in Process, NEW at \in Point \ {"revoking_all"}, GoTo(q, at)
      PROVE  \A p \in Process : Harmless(p)
    BY <1>1, <1>4 DEF GoTo, TypeOK
<1>5. ASSUME NEW q \in Process, NEW c \in Customer, NEW s \in Session \cup {NoSession},
             \/ Begin(q, "google_login", "issuing", c, s)
             \/ Begin(q, "revoke", "updating", c, s)
             \/ Begin(q, "revoke_all", "revoking_all", c, s)
             \/ Begin(q, "disable", "saving", c, s)
             \/ active[c] /\ Begin(q, "login", "issuing", c, s)
      PROVE  DisablingInv'
  <2>1. \A p \in Process : Harmless(p)
      BY <1>1, <1>5 DEF Begin, TypeOK, DisablingInv
  <2>2. UNCHANGED <<disabled, stray, owner, active, expired, state>>
      BY <1>5 DEF Begin, rows
  <2>3. QED
      BY <1>2, <2>1, <2>2
<1>6. ASSUME NEW q \in Process, NEW s \in Session, PresentToken(q, s)
      PROVE  DisablingInv'
  <2>1. /\ UNCHANGED <<disabled, stray, owner, active, expired, state>>
        /\ IsActive(s)
      BY <1>6 DEF PresentToken, Begin, rows
  <2>2. request' = [request EXCEPT ![q] = [op |-> "rotate", at |-> "revoking_presented",
                        customer |-> owner[s], session |-> s, late |-> FALSE]]
      BY <1>6 DEF PresentToken, Begin
  <2>3. owner[s] \in disabled => s \in stray
      BY <2>1 DEF DisablingInv, OnlyStraysSurvive, SessionListView, Owned
  <2>4. \A p \in Process : At(p, "disable", "revoking_all")' => ~active[request'[p].customer]
      BY <1>1, <2>2 DEF DisablingInv, At, TypeOK
  <2>5. \A p \in Process : request'[p].customer \in disabled =>
            /\ request'[p].op = "login" => request'[p].late
            /\ request'[p].op = "rotate" =>
                    request'[p].late \/ request'[p].session \in stray
      BY <1>1, <2>2, <2>3 DEF DisablingInv, TypeOK
  <2>6. OnlyStraysSurvive'
      BY <2>1 DEF DisablingInv, OnlyStraysSurvive, SessionListView, Owned, IsActive
  <2>7. QED
      BY <1>1, <2>1, <2>4, <2>5, <2>6 DEF DisablingInv
<1>7. ASSUME NEW q \in Process, IssueSession(q) PROVE DisablingInv'
  <2>1. PICK s \in Session :
            /\ state[s] = "absent"
            /\ state' = [state EXCEPT ![s] = "live"]
            /\ owner' = [owner EXCEPT ![s] = request[q].customer]
            /\ stray \subseteq stray'
            /\ \/ request[q].late
               \/ request[q].op = "google_login" /\ request[q].customer \in disabled
               \/ request[q].session \in stray
               => s \in stray'
      BY <1>7 DEF IssueSession
  <2>2. UNCHANGED <<disabled, active, expired>> /\ End(q) /\ request[q].at = "issuing"
      BY <1>7 DEF IssueSession
  <2>3. \A p \in Process : Harmless(p)
      BY <1>3, <2>2
  <2>4. request[q].customer \in disabled => s \in stray'
      BY <1>1, <2>1, <2>2 DEF DisablingInv, SessionsInv, RequestOK
  <2>5. OnlyStraysSurvive'
    <3> SUFFICES ASSUME NEW c \in disabled, NEW t \in Session, owner'[t] = c,
                        state'[t] = "live", t \notin expired
                 PROVE  t \in stray'
        BY <2>2 DEF OnlyStraysSurvive, SessionListView, Owned, IsActive
    <3>1. CASE t = s
        BY <1>1, <2>1, <2>4, <3>1 DEF TypeOK
    <3>2. CASE t # s
        BY <1>1, <2>1, <3>2
        DEF DisablingInv, OnlyStraysSurvive, SessionListView, Owned, IsActive, TypeOK
    <3>3. QED
        BY <3>1, <3>2
  <2>6. \A p \in Process : At(p, "disable", "revoking_all")' => ~active[request'[p].customer]
      BY <2>3 DEF DisablingInv, At
  <2>7. \A p \in Process : request'[p].customer \in disabled =>
            /\ request'[p].op = "login" => request'[p].late
            /\ request'[p].op = "rotate" =>
                    request'[p].late \/ request'[p].session \in stray'
      BY <2>1, <2>3 DEF DisablingInv
  <2>8. QED
      BY <1>1, <2>2, <2>5, <2>6, <2>7 DEF DisablingInv
<1>8. ASSUME NEW q \in Process, RevokeAll(q), request[q].op = "disable"
      PROVE  DisablingInv'
  <2>1. PICK c \in Customer : c = request[q].customer
      BY <1>1, <1>8 DEF RevokeAll, TypeOK
  <2>2. /\ state' = [s \in Session |-> IF s \in Owned(c) /\ state[s] = "live"
                                        THEN "revoked" ELSE state[s]]
        /\ disabled' = disabled \cup {c}
        /\ stray' = stray \ Owned(c)
        /\ UNCHANGED <<active, owner, expired>>
        /\ request[q].at = "revoking_all"
      BY <1>8, <2>1 DEF RevokeAll, AfterRevokingAll
  <2>3. \A p \in Process :
            /\ request'[p].op = request[p].op
            /\ request'[p].session = request[p].session
            /\ request'[p].customer = request[p].customer
            /\ request[p].late => request'[p].late
            /\ p # q => request'[p].at = request[p].at
            /\ p # q /\ Overtaken(p, c) => request'[p].late
            /\ request'[q].at = "auditing"
      BY <1>1, <1>8, <2>1 DEF RevokeAll, AfterRevokingAll, TypeOK
  <2>4. ~active[c]
      BY <1>8, <2>1, <2>2 DEF DisablingInv, At
  <2>5. OnlyStraysSurvive'
      BY <2>2 DEF DisablingInv, OnlyStraysSurvive, SessionListView, Owned, IsActive
  <2>6. \A p \in Process : At(p, "disable", "revoking_all")' => ~active[request'[p].customer]
      BY <2>3 DEF DisablingInv, At
  <2>7. ASSUME NEW p \in Process, request'[p].customer \in disabled'
        PROVE  /\ request'[p].op = "login" => request'[p].late
               /\ request'[p].op = "rotate" =>
                        request'[p].late \/ request'[p].session \in stray'
    <3>1. CASE request[p].customer = c
        BY <1>8, <2>3, <3>1 DEF Overtaken
    <3>2. CASE request[p].customer # c
      <4>1. request[p].customer \in disabled
          BY <2>2, <2>3, <2>7, <3>2
      <4>2. request[p].op = "rotate" => request[p].session \notin Owned(c)
          BY <1>1, <3>2 DEF SessionsInv, RequestOK, Owned
      <4>3. QED
          BY <2>2, <2>3, <4>1, <4>2 DEF DisablingInv
    <3>3. QED
        BY <3>1, <3>2
  <2>8. QED
      BY <1>1, <2>2, <2>4, <2>5, <2>6, <2>7 DEF DisablingInv
<1>9. ASSUME NEW q \in Process, RevokeAll(q), request[q].op # "disable"
      PROVE  DisablingInv'
  <2>1. End(q) /\ UNCHANGED <<disabled, stray, owner, active, expired>>
      BY <1>9 DEF RevokeAll, AfterRevokingAll, history
  <2>2. \A s \in Session : state'[s] = "live" => state[s] = "live"
      BY <1>9 DEF RevokeAll
  <2>3. QED
      BY <1>2, <1>3, <2>1, <2>2
<1>10. ASSUME NEW q \in Process, RevokePresented(q) \/ RevokeOne(q)
       PROVE  DisablingInv'
  <2>1. \A p \in Process : Harmless(p)
      BY <1>3, <1>4, <1>10 DEF RevokePresented, RevokeOne, Point
  <2>2. \A s \in Session : state'[s] = "live" => state[s] = "live"
      BY <1>1, <1>10 DEF RevokePresented, RevokeOne, TypeOK
  <2>3. UNCHANGED <<disabled, stray, owner, active, expired>>
      BY <1>10 DEF RevokePresented, RevokeOne, history
  <2>4. QED
      BY <1>2, <2>1, <2>2, <2>3
<1>11. ASSUME NEW q \in Process, SaveDisabled(q) PROVE DisablingInv'
  <2>1. PICK c \in Customer : c = request[q].customer
      BY <1>1, <1>11 DEF SaveDisabled, At, TypeOK
  <2>2. /\ active' = [active EXCEPT ![c] = FALSE]
        /\ UNCHANGED <<state, owner, expired, disabled, stray>>
        /\ request[q].op = "disable"
      BY <1>11, <2>1 DEF SaveDisabled, At, history
  <2>3. \A p \in Process :
            /\ request'[p].op = request[p].op
            /\ request'[p].session = request[p].session
            /\ request'[p].customer = request[p].customer
            /\ request'[p].late = request[p].late
            /\ p # q => request'[p].at = request[p].at
      BY <1>1, <1>11 DEF SaveDisabled, GoTo, TypeOK
  <2>4. active'[c] = FALSE /\ \A d \in Customer \ {c} : active'[d] = active[d]
      BY <1>1, <2>2 DEF TypeOK
  <2>5. \A p \in Process : At(p, "disable", "revoking_all")' =>
                                ~active'[request'[p].customer]
    <3> SUFFICES ASSUME NEW p \in Process, At(p, "disable", "revoking_all")'
                 PROVE  ~active'[request'[p].customer]
        OBVIOUS
    <3>1. CASE request[p].customer = c
        BY <2>3, <2>4, <3>1
    <3>2. CASE request[p].customer # c
      <4>1. p # q /\ At(p, "disable", "revoking_all")
          BY <2>1, <2>3, <3>2 DEF At
      <4>2. request[p].customer \in Customer
          BY <1>1, <4>1 DEF At, TypeOK
      <4>3. QED
          BY <2>3, <2>4, <3>2, <4>1, <4>2 DEF DisablingInv
    <3>3. QED
        BY <3>1, <3>2
  <2>6. \A d \in disabled : ~active'[d]
      BY <1>1, <2>4 DEF DisablingInv, TypeOK
  <2>7. OnlyStraysSurvive'
      BY <2>2 DEF DisablingInv, OnlyStraysSurvive, SessionListView, Owned, IsActive
  <2>8. QED
      BY <1>1, <2>2, <2>3, <2>5, <2>6, <2>7 DEF DisablingInv
<1>12. ASSUME NEW q \in Process, AuditRevocation(q) \/ AuditDisable(q) \/ Crash(q)
       PROVE  DisablingInv'
    BY <1>2, <1>3, <1>12 DEF AuditRevocation, AuditDisable, Crash, rows, history
<1>13. ASSUME NEW s \in Session, Expire(s) PROVE DisablingInv'
    BY <1>2, <1>13 DEF Expire, history
<1>14. CASE UNCHANGED vars
    BY <1>2, <1>14 DEF vars
<1>15. CASE \E q \in Process, c \in Customer :
                \/ LoginPassword(q, c) \/ LoginGoogle(q, c)
                \/ \E s \in Session : BeginRevoke(q, c, s)
                \/ BeginRevokeAll(q, c) \/ BeginDisable(q, c)
    BY <1>5, <1>15
    DEF LoginPassword, LoginGoogle, BeginRevoke, BeginRevokeAll, BeginDisable
<1>16. QED
    BY <1>6, <1>7, <1>8, <1>9, <1>10, <1>11, <1>12, <1>13, <1>14, <1>15, NextSteps DEF Steps

\* A disabled customer's usable sessions come from a request the disabling
\* overtook or from Google login, for any number of requests, crashes and
\* repeated disablings (disable_customer, revoke_all_sessions).
THEOREM SessionsOnlyStraysSurvive == Spec => []OnlyStraysSurvive
<1>1. DisablingInv => OnlyStraysSurvive
    BY DEF DisablingInv
<1>2. QED
    BY <1>1, DisablingInit, DisablingStep, PTL DEF Spec

-----------------------------------------------------------------------------
(* The sessions form the chains of SessionChains.                          *)

\* What is late or stray belongs to a customer who was disabled; with
\* DisablingInv, a session is stray exactly if its customer was disabled when
\* it was issued.
StrayInv ==
    /\ RotationInv
    /\ DisablingInv
    /\ \A p \in Process : request[p].late => request[p].customer \in disabled
    /\ \A s \in stray : state[s] # "absent" /\ owner[s] \in disabled

LEMMA StrayInit == Init => StrayInv
<1> SUFFICES ASSUME Init PROVE StrayInv
    OBVIOUS
<1>1. RotationInv /\ DisablingInv
    BY RotationInit, DisablingInit
<1>2. QED
    BY <1>1 DEF Init, StrayInv, Idle

\* The three ways in which a session can be issued as a stray one are the ways
\* in which one can be issued to a disabled customer.
LEMMA StrayWhenDisabled ==
    ASSUME StrayInv, NEW p \in Process, request[p].at = "issuing"
    PROVE  (\/ request[p].late
            \/ request[p].op = "google_login" /\ request[p].customer \in disabled
            \/ request[p].session \in stray)
           <=> request[p].customer \in disabled
<1>1. TypeOK /\ RequestOK(p)
    BY DEF StrayInv, RotationInv, SessionsInv
<1>2. request[p].session \in stray => request[p].customer \in disabled
    BY <1>1, SessionsAssumption DEF StrayInv, RequestOK, TypeOK
<1>3. request[p].customer \in disabled =>
        \/ request[p].late
        \/ request[p].op = "google_login"
        \/ request[p].session \in stray
    BY <1>1 DEF StrayInv, DisablingInv, RequestOK
<1>4. QED
    BY <1>2, <1>3 DEF StrayInv

LEMMA StrayStep == StrayInv /\ [Next]_vars => StrayInv'
<1> SUFFICES ASSUME StrayInv, [Next]_vars PROVE StrayInv'
    OBVIOUS
<1>1. SessionsInv /\ TypeOK
    BY DEF StrayInv, RotationInv, SessionsInv
<1>2. RotationInv' /\ DisablingInv'
    BY RotationStep, DisablingStep DEF StrayInv
<1>3. \A s \in stray : state'[s] # "absent" /\ owner'[s] = owner[s]
    BY <1>1, RowsPersist DEF StrayInv, TypeOK
<1> DEFINE Prompt(p) ==
        request'[p].late => request[p].late /\ request'[p].customer = request[p].customer
<1>4. ASSUME disabled \subseteq disabled', stray' \subseteq stray,
             \A p \in Process : Prompt(p)
      PROVE  StrayInv'
    BY <1>2, <1>3, <1>4 DEF StrayInv
<1>5. ASSUME NEW q \in Process, End(q) PROVE \A p \in Process : Prompt(p)
    BY <1>1, <1>5 DEF End, Idle, TypeOK
<1>6. ASSUME NEW q \in Process, NEW at \in Point, GoTo(q, at)
      PROVE  \A p \in Process : Prompt(p)
    BY <1>1, <1>6 DEF GoTo, TypeOK
<1>7. ASSUME NEW q \in Process, NEW op \in Op, NEW at \in Point,
             NEW c \in Customer \cup {NoCustomer},
             NEW s \in Session \cup {NoSession}, Begin(q, op, at, c, s)
      PROVE  StrayInv'
  <2>1. \A p \in Process : Prompt(p)
      BY <1>1, <1>7 DEF Begin, TypeOK
  <2>2. UNCHANGED <<disabled, stray>>
      BY <1>7 DEF Begin
  <2>3. QED
      BY <1>4, <2>1, <2>2
<1>8. ASSUME NEW q \in Process, IssueSession(q) PROVE StrayInv'
  <2>1. PICK s \in Session :
            /\ state' = [state EXCEPT ![s] = "live"]
            /\ owner' = [owner EXCEPT ![s] = request[q].customer]
            /\ stray' = IF \/ request[q].late
                           \/ request[q].op = "google_login"
                                /\ request[q].customer \in disabled
                           \/ request[q].session \in stray
                        THEN stray \cup {s} ELSE stray
      BY <1>8 DEF IssueSession
  <2>2. disabled' = disabled /\ End(q) /\ request[q].at = "issuing"
      BY <1>8 DEF IssueSession
  <2>3. stray' \subseteq stray \cup {s}
      BY <2>1
  <2>4. s \in stray' => s \in stray \/ request[q].customer \in disabled
      BY <2>1, <2>2, StrayWhenDisabled
  <2>5. state'[s] = "live" /\ owner'[s] = request[q].customer
      BY <1>1, <2>1 DEF TypeOK
  <2>6. \A u \in stray' : state'[u] # "absent" /\ owner'[u] \in disabled'
      BY <1>3, <2>2, <2>3, <2>4, <2>5 DEF StrayInv
  <2>7. \A p \in Process : Prompt(p)
      BY <1>5, <2>2
  <2>8. QED
      BY <1>2, <2>2, <2>6, <2>7 DEF StrayInv
<1>9. ASSUME NEW q \in Process, RevokeAll(q), request[q].op = "disable"
      PROVE  StrayInv'
  <2> DEFINE c == request[q].customer
  <2>1. /\ disabled' = disabled \cup {c}
        /\ stray' \subseteq stray
      BY <1>9 DEF RevokeAll, AfterRevokingAll
  <2>2. \A p \in Process :
            /\ request'[p].customer = request[p].customer
            /\ request'[p].late => request[p].late \/ request[p].customer = c
      BY <1>1, <1>9 DEF RevokeAll, AfterRevokingAll, Overtaken, TypeOK
  <2> HIDE DEF c
  <2>3. QED
      BY <1>2, <1>3, <2>1, <2>2 DEF StrayInv
<1>10. ASSUME NEW q \in Process, RevokeAll(q), request[q].op # "disable"
       PROVE  StrayInv'
    BY <1>4, <1>5, <1>10 DEF RevokeAll, AfterRevokingAll, history
<1>11. ASSUME NEW q \in Process,
              \/ RevokePresented(q) \/ RevokeOne(q) \/ SaveDisabled(q)
              \/ AuditRevocation(q) \/ AuditDisable(q) \/ Crash(q)
       PROVE  StrayInv'
  <2>1. GoTo(q, "issuing") \/ GoTo(q, "auditing") \/ GoTo(q, "revoking_all") \/ End(q)
      BY <1>11 DEF RevokePresented, RevokeOne, SaveDisabled, AuditRevocation,
                   AuditDisable, Crash
  <2>2. \A p \in Process : Prompt(p)
      BY <1>5, <1>6, <2>1 DEF Point
  <2>3. UNCHANGED <<disabled, stray>>
      BY <1>11 DEF RevokePresented, RevokeOne, SaveDisabled, AuditRevocation,
                   AuditDisable, Crash, history
  <2>4. QED
      BY <1>4, <2>2, <2>3
<1>12. ASSUME NEW q \in Process, NEW s \in Session, PresentToken(q, s)
       PROVE  StrayInv'
    BY <1>1, <1>7, <1>12 DEF PresentToken, TypeOK, Op, Point
<1>13. CASE UNCHANGED vars \/ \E s \in Session : Expire(s)
    BY <1>4, <1>13 DEF vars, Expire, history
<1>14. CASE \E q \in Process, c \in Customer :
                \/ LoginPassword(q, c) \/ LoginGoogle(q, c)
                \/ \E s \in Session : BeginRevoke(q, c, s)
                \/ BeginRevokeAll(q, c) \/ BeginDisable(q, c)
    BY <1>7, <1>14
    DEF LoginPassword, LoginGoogle, BeginRevoke, BeginRevokeAll, BeginDisable, Op, Point
<1>15. QED
    BY <1>8, <1>9, <1>10, <1>11, <1>12, <1>13, <1>14, NextSteps DEF Steps

\* issue_session adds a link: a new chain, or the successor of a revoked session
\* that has none or was presented twice at once.
LEMMA IssueAddsLink ==
    ASSUME StrayInv, NEW p \in Process, IssueSession(p)
    PROVE  Chains!Next
<1>1. SessionsInv /\ TypeOK /\ RequestOK(p)
    BY DEF StrayInv, RotationInv, SessionsInv
<1> DEFINE t == request[p].session
           c == request[p].customer
<1>2. PICK s \in Session :
        /\ state[s] = "absent"
        /\ state' = [state EXCEPT ![s] = "live"]
        /\ owner' = [owner EXCEPT ![s] = c]
        /\ parent' = [parent EXCEPT ![s] = t]
        /\ stray' = IF \/ request[p].late
                       \/ request[p].op = "google_login" /\ c \in disabled
                       \/ t \in stray
                    THEN stray \cup {s} ELSE stray
    BY DEF IssueSession
<1>3. request[p].at = "issuing" /\ UNCHANGED <<contested, disabled>>
    BY DEF IssueSession
<1>4. stray' = stray \cup {x \in {s} : c \in disabled}
    BY <1>2, <1>3, StrayWhenDisabled
<1>5. Chains!Issue(s, c, t)
    BY <1>2, <1>3, <1>4 DEF Chains!Issue
<1>6. CASE request[p].op = "rotate"
  <2>1. t \in Session /\ state[t] = "revoked" /\ owner[t] = c
      BY <1>1, <1>3, <1>6 DEF RequestOK
  <2>2. Presenting(p, t)
      BY <1>3, <1>6 DEF Presenting
  <2>3. Chains!Successors(t) = {} \/ t \in contested
      BY <2>1, <2>2 DEF StrayInv, RotationInv, Chains!Successors
  <2>4. Chains!Succeed(s, t)
      BY <1>5, <2>1, <2>3 DEF Chains!Succeed
  <2>5. QED
      BY <2>1, <2>4 DEF Chains!Next
<1>7. CASE request[p].op # "rotate"
  <2>1. t = NoSession /\ c \in Customer
      BY <1>1, <1>3, <1>7 DEF RequestOK, TypeOK
  <2>2. Chains!Open(s, c)
      BY <1>5, <2>1 DEF Chains!Open
  <2>3. QED
      BY <2>1, <2>2 DEF Chains!Next
<1>8. QED
    BY <1>6, <1>7

\* An UPDATE of one row ends a session or changes nothing.
LEMMA RevokingOne ==
    ASSUME SessionsInv, NEW t \in Session, state[t] # "absent",
           state' = [state EXCEPT ![t] = "revoked"],
           UNCHANGED <<owner, parent, contested, disabled, stray>>
    PROVE  [Chains!Next]_(Chains!vars)
<1>1. TypeOK /\ owner[t] \in Customer
    BY DEF SessionsInv
<1>2. CASE state[t] = "live"
  <2>1. {t} \subseteq Chains!Live \cap Chains!OwnedBy(owner[t])
      BY <1>2 DEF Chains!Live, Chains!OwnedBy
  <2>2. state' = [s \in Session |-> IF s \in {t} THEN "revoked" ELSE state[s]]
      BY <1>1 DEF TypeOK
  <2>3. Chains!Revoke(owner[t], {t})
      BY <2>1, <2>2 DEF Chains!Revoke
  <2>4. QED
      BY <1>1, <2>3 DEF Chains!Next
<1>3. CASE state[t] # "live"
  <2>1. state' = state
      BY <1>1, <1>3 DEF TypeOK
  <2>2. QED
      BY <2>1 DEF Chains!vars
<1>4. QED
    BY <1>2, <1>3

LEMMA ChainStep == StrayInv /\ [Next]_vars => [Chains!Next]_(Chains!vars)
<1> SUFFICES ASSUME StrayInv, [Next]_vars PROVE [Chains!Next]_(Chains!vars)
    OBVIOUS
<1>1. SessionsInv /\ TypeOK /\ \A p \in Process : RequestOK(p)
    BY DEF StrayInv, RotationInv, SessionsInv
<1>2. ASSUME NEW p \in Process, IssueSession(p) PROVE Chains!Next
    BY <1>2, IssueAddsLink
<1>3. ASSUME NEW p \in Process, RevokePresented(p)
      PROVE  [Chains!Next]_(Chains!vars)
    BY <1>1, <1>3, RevokingOne
    DEF RevokePresented, At, RequestOK, history
<1>4. ASSUME NEW p \in Process, RevokeOne(p) PROVE [Chains!Next]_(Chains!vars)
  <2>1. CASE UNCHANGED state
      BY <1>4, <2>1 DEF RevokeOne, history, Chains!vars
  <2>2. CASE state' # state
      BY <1>1, <1>4, <2>2, RevokingOne DEF RevokeOne, At, RequestOK, history
  <2>3. QED
      BY <2>1, <2>2
<1>5. ASSUME NEW p \in Process, RevokeAll(p) PROVE Chains!Next
  <2> DEFINE c == request[p].customer
             ended == Chains!Live \cap Chains!OwnedBy(c)
  <2>1. c \in Customer /\ ended \in SUBSET Session
      BY <1>1, <1>5 DEF RevokeAll, TypeOK, Chains!Live
  <2>2. /\ state' = [s \in Session |-> IF s \in ended THEN "revoked" ELSE state[s]]
        /\ UNCHANGED owner
      BY <1>5 DEF RevokeAll, Owned, Chains!Live, Chains!OwnedBy
  <2>3. CASE request[p].op = "revoke_all"
    <3>1. UNCHANGED <<parent, contested, disabled, stray>>
        BY <1>5, <2>3 DEF RevokeAll, AfterRevokingAll, history
    <3>2. Chains!Revoke(c, ended)
        BY <2>2, <3>1 DEF Chains!Revoke
    <3> HIDE DEF c, ended
    <3>3. QED
        BY <2>1, <3>2 DEF Chains!Next
  <2>4. CASE request[p].op = "disable"
    <3>1. /\ disabled' = disabled \cup {c}
          /\ stray' = stray \ Chains!OwnedBy(c)
          /\ UNCHANGED <<parent, contested>>
        BY <1>5, <2>4 DEF RevokeAll, AfterRevokingAll, Owned, Chains!OwnedBy
    <3>2. Chains!Disable(c)
        BY <2>2, <3>1 DEF Chains!Disable
    <3> HIDE DEF c, ended
    <3>3. QED
        BY <2>1, <3>2 DEF Chains!Next
  <2>5. QED
      BY <1>5, <2>3, <2>4 DEF RevokeAll, AfterRevokingAll
<1>6. ASSUME NEW p \in Process, NEW s \in Session, PresentToken(p, s)
      PROVE  [Chains!Next]_(Chains!vars)
  <2>1. /\ state[s] = "live"
        /\ UNCHANGED <<state, owner, parent, disabled, stray>>
        /\ contested' = contested \/ contested' = contested \cup {s}
      BY <1>6 DEF PresentToken, IsActive, Begin, rows, Contest
  <2>2. CASE contested' = contested
      BY <2>1, <2>2 DEF Chains!vars
  <2>3. CASE contested' = contested \cup {s}
    <3>1. Chains!Share(s)
        BY <2>1, <2>3 DEF Chains!Share, Chains!Live
    <3>2. QED
        BY <3>1 DEF Chains!Next
  <2>4. QED
      BY <2>1, <2>2, <2>3
<1>7. ASSUME UNCHANGED <<state, owner, parent, contested, disabled, stray>>
      PROVE  [Chains!Next]_(Chains!vars)
    BY <1>7 DEF Chains!vars
<1>8. CASE \E p \in Process :
              SaveDisabled(p) \/ AuditRevocation(p) \/ AuditDisable(p) \/ Crash(p)
    BY <1>7, <1>8
    DEF SaveDisabled, AuditRevocation, AuditDisable, Crash, rows, history
<1>9. CASE UNCHANGED vars \/ \E s \in Session : Expire(s)
    BY <1>7, <1>9 DEF vars, Expire, history
<1>10. CASE \E p \in Process, c \in Customer :
                \/ LoginPassword(p, c) \/ LoginGoogle(p, c)
                \/ \E s \in Session : BeginRevoke(p, c, s)
                \/ BeginRevokeAll(p, c) \/ BeginDisable(p, c)
    BY <1>7, <1>10
    DEF LoginPassword, LoginGoogle, BeginRevoke, BeginRevokeAll, BeginDisable,
        Begin, rows
<1>11. QED
    BY <1>2, <1>3, <1>4, <1>5, <1>6, <1>8, <1>9, <1>10, NextSteps DEF Steps

\* For any number of customers, sessions and processes, the requests of the
\* accounts module act on sessions like the single steps of SessionChains: a
\* rotation hands its place on, a disabling closes every chain at once
\* (rotate_refresh_token, issue_session, revoke_all_sessions).
THEOREM SessionsImplementsChains == Spec => ImplementsChains
<1>1. Init => Chains!Init
    BY DEF Init, Chains!Init
<1>2. QED
    BY <1>1, StrayInit, StrayStep, ChainStep, PTL
    DEF Spec, ImplementsChains, Chains!Spec

-----------------------------------------------------------------------------
(* What the chains promise, proved of the abstract specification alone.    *)

ChainsInv ==
    /\ state \in [Session -> {"absent", "live", "revoked"}]
    /\ owner \in [Session -> Customer \cup {NoCustomer}]
    /\ parent \in [Session -> Session \cup {NoSession}]
    /\ Chains!OnePlace
    /\ Chains!Closed

LEMMA ChainsIssueKeeps ==
    ASSUME ChainsInv, NEW s \in Session, NEW c \in Customer \cup {NoCustomer},
           NEW t \in Session \cup {NoSession}, Chains!Issue(s, c, t),
           t # NoSession => /\ state[t] = "revoked" /\ owner[t] = c
                            /\ Chains!Successors(t) = {} \/ t \in contested
    PROVE  ChainsInv'
<1>1. /\ state[s] = "absent"
      /\ state' = [state EXCEPT ![s] = "live"]
      /\ owner' = [owner EXCEPT ![s] = c]
      /\ parent' = [parent EXCEPT ![s] = t]
      /\ stray' = stray \cup {x \in {s} : c \in disabled}
      /\ UNCHANGED <<contested, disabled>>
    BY DEF Chains!Issue
<1>2. \A u \in Session :
        /\ state'[u] = IF u = s THEN "live" ELSE state[u]
        /\ owner'[u] = IF u = s THEN c ELSE owner[u]
        /\ parent'[u] = IF u = s THEN t ELSE parent[u]
    BY <1>1 DEF ChainsInv
<1>3. /\ state' \in [Session -> {"absent", "live", "revoked"}]
      /\ owner' \in [Session -> Customer \cup {NoCustomer}]
      /\ parent' \in [Session -> Session \cup {NoSession}]
    BY <1>1 DEF ChainsInv
<1>4. Chains!OnePlace'
  <2> SUFFICES ASSUME NEW u \in Session, NEW v \in Session, parent'[u] # NoSession
               PROVE  /\ state'[parent'[u]] = "revoked"
                      /\ owner'[parent'[u]] = owner'[u]
                      /\ parent'[v] = parent'[u] => u = v \/ parent'[u] \in contested'
      BY DEF Chains!OnePlace
  <2>1. CASE u = s
    <3>1. parent'[s] = t /\ t # NoSession
        BY <1>2, <2>1
    <3>2. t \in Session /\ t # s /\ state[t] = "revoked" /\ owner[t] = c
        BY <1>1, <3>1
    <3>3. parent'[v] = t /\ v # s => t \in contested
        BY <1>2, <3>1, <3>2 DEF Chains!Successors
    <3>4. QED
        BY <1>1, <1>2, <2>1, <3>1, <3>2, <3>3
  <2>2. CASE u # s
    <3>1. /\ parent'[u] = parent[u] /\ parent[u] \in Session
          /\ state[parent[u]] = "revoked" /\ owner[parent[u]] = owner[u]
        BY <1>2, <2>2 DEF ChainsInv, Chains!OnePlace
    <3>2. parent[u] # s
        BY <1>1, <3>1
    <3>3. CASE v = s
        BY <1>1, <1>2, <2>2, <3>1, <3>2, <3>3, SessionsAssumption DEF Chains!Successors
    <3>4. CASE v # s
        BY <1>1, <1>2, <2>2, <3>1, <3>2, <3>4 DEF ChainsInv, Chains!OnePlace
    <3>5. QED
        BY <3>3, <3>4
  <2>3. QED
      BY <2>1, <2>2
<1>5. Chains!Closed'
  <2> SUFFICES ASSUME NEW d \in disabled, NEW u \in Session,
                      state'[u] = "live", owner'[u] = d
               PROVE  u \in stray'
      BY <1>1 DEF Chains!Closed, Chains!Live, Chains!OwnedBy
  <2>1. QED
      BY <1>1, <1>2 DEF ChainsInv, Chains!Closed, Chains!Live, Chains!OwnedBy
<1>6. QED
    BY <1>3, <1>4, <1>5 DEF ChainsInv

\* Ending sessions forks nothing, and keeps all but a disabled customer's strays out.
LEMMA ChainsEndKeeps ==
    ASSUME ChainsInv, NEW ended \in SUBSET Session,
           state' = [s \in Session |-> IF s \in ended THEN "revoked" ELSE state[s]],
           UNCHANGED <<owner, parent, contested>>,
           \A c \in disabled' : \A s \in Session \ ended : owner[s] = c /\ state[s] = "live"
                => s \in stray'
    PROVE  ChainsInv'
<1>1. /\ state' \in [Session -> {"absent", "live", "revoked"}]
      /\ \A s \in Session : /\ state[s] = "revoked" => state'[s] = "revoked"
                            /\ state'[s] = "live" => s \notin ended /\ state[s] = "live"
    BY DEF ChainsInv
<1>2. Chains!OnePlace'
    BY <1>1 DEF ChainsInv, Chains!OnePlace
<1>3. Chains!Closed'
    BY <1>1 DEF Chains!Closed, Chains!Live, Chains!OwnedBy
<1>4. QED
    BY <1>1, <1>2, <1>3 DEF ChainsInv

LEMMA ChainsInvStep == ChainsInv /\ [Chains!Next]_(Chains!vars) => ChainsInv'
<1> SUFFICES ASSUME ChainsInv, [Chains!Next]_(Chains!vars) PROVE ChainsInv'
    OBVIOUS
<1>1. ASSUME NEW c \in Customer, NEW s \in Session, Chains!Open(s, c)
      PROVE  ChainsInv'
    BY <1>1, ChainsIssueKeeps DEF Chains!Open
<1>2. ASSUME NEW s \in Session, NEW t \in Session, Chains!Succeed(s, t)
      PROVE  ChainsInv'
    BY <1>2, ChainsIssueKeeps DEF Chains!Succeed, ChainsInv
<1>3. ASSUME NEW c \in Customer, NEW ended \in SUBSET Session, Chains!Revoke(c, ended)
      PROVE  ChainsInv'
  <2>1. \A d \in disabled' : \A s \in Session \ ended :
            owner[s] = d /\ state[s] = "live" => s \in stray'
      BY <1>3 DEF Chains!Revoke, ChainsInv, Chains!Closed, Chains!Live, Chains!OwnedBy
  <2>2. QED
      BY <1>3, <2>1, ChainsEndKeeps DEF Chains!Revoke
<1>4. ASSUME NEW c \in Customer, Chains!Disable(c) PROVE ChainsInv'
  <2>1. PICK ended \in SUBSET Session : ended = Chains!Live \cap Chains!OwnedBy(c)
      BY DEF Chains!Live
  <2>2. /\ state' = [s \in Session |-> IF s \in ended THEN "revoked" ELSE state[s]]
        /\ disabled' = disabled \cup {c}
        /\ stray' = stray \ Chains!OwnedBy(c)
        /\ UNCHANGED <<owner, parent, contested>>
      BY <1>4, <2>1 DEF Chains!Disable
  <2>3. \A d \in disabled' : \A s \in Session \ ended :
            owner[s] = d /\ state[s] = "live" => s \in stray'
      BY <2>1, <2>2 DEF ChainsInv, Chains!Closed, Chains!Live, Chains!OwnedBy
  <2>4. QED
      BY <2>2, <2>3, ChainsEndKeeps
<1>5. ASSUME NEW t \in Session, Chains!Share(t) PROVE ChainsInv'
    BY <1>5 DEF Chains!Share, ChainsInv, Chains!OnePlace, Chains!Closed,
                Chains!Live, Chains!OwnedBy
<1>6. CASE UNCHANGED Chains!vars
    BY <1>6 DEF Chains!vars, ChainsInv, Chains!OnePlace, Chains!Closed,
                Chains!Live, Chains!OwnedBy
<1>7. QED
    BY <1>1, <1>2, <1>3, <1>4, <1>5, <1>6 DEF Chains!Next

\* Whatever acts on sessions as SessionChains says gives a place to one session
\* and leaves a disabled customer nothing from before the disabling.
THEOREM ChainsPromise == Chains!Spec => [](Chains!OnePlace /\ Chains!Closed)
<1>1. Chains!Init => ChainsInv
    BY SessionsAssumption
    DEF Chains!Init, ChainsInv, Chains!OnePlace, Chains!Closed
<1>2. ChainsInv => Chains!OnePlace /\ Chains!Closed
    BY DEF ChainsInv
<1>3. QED
    BY <1>1, <1>2, ChainsInvStep, PTL DEF Chains!Spec

\* So do the requests: more than OnlyStraysSurvive, it covers the sessions that
\* have expired, whose token is still in a client's hands (disable_customer).
THEOREM SessionsKeepPromise == Spec => [](Chains!OnePlace /\ Chains!Closed)
BY SessionsImplementsChains, ChainsPromise DEF ImplementsChains
=============================================================================
