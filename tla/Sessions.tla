------------------------------ MODULE Sessions ------------------------------
(***************************************************************************)
(* Refresh sessions of customers: password and Google login, rotation,     *)
(* revocation by the customer, and the disabling of a customer by staff.   *)
(*                                                                         *)
(* Nothing here runs in a transaction around the whole request: every ORM  *)
(* call commits on its own, so each request is a sequence of one action    *)
(* per database statement, requests of several web processes interleave    *)
(* between statements, and a process may die between any two.  A request   *)
(* that is refused changes nothing and is not an action.                   *)
(***************************************************************************)
EXTENDS Naturals

CONSTANTS
    Customer,
    Session,       \* bound: the primary keys sessions may take
    Process,       \* web processes, each serving one request at a time
    Providers,     \* the login providers enabled: "password", "google"
    NoCustomer, NoSession

ASSUME SessionsAssumption ==
    /\ Providers \subseteq {"password", "google"}
    /\ NoCustomer \notin Customer
    /\ NoSession \notin Session

VARIABLES
    active,        \* Customer -> Customer.is_active
    state,         \* Session -> no row, live (revoked_at is null) or revoked
    owner,         \* Session -> Session.customer
    expired,       \* the sessions whose expires_at has passed
    request,       \* Process -> the request it serves; late is history: a
                   \* disabling of its customer has overtaken it
    parent,        \* history: Session -> the session it was rotated from
    audits,        \* Session -> AuditLogEntry rows of revoke_session
    disabled,      \* history: customers whose disabling has revoked sessions
    contested,     \* history: tokens presented while another request was about
                   \* to revoke the same one
    stray          \* history: sessions issued by a request that a disabling of
                   \* its customer had overtaken, or by Google login to a
                   \* customer already disabled, and their successors

rows == <<active, state, owner, expired>>
history == <<parent, audits, disabled, contested, stray>>
vars == <<active, state, owner, expired, request, parent, audits, disabled,
          contested, stray>>

Idle == [op |-> "none", at |-> "idle", customer |-> NoCustomer,
         session |-> NoSession, late |-> FALSE]

Op == {"none", "login", "google_login", "rotate", "revoke", "revoke_all", "disable"}
Point == {"idle", "issuing", "revoking_presented", "updating", "revoking_all",
          "auditing", "saving"}

TypeOK ==
    /\ active \in [Customer -> BOOLEAN]
    /\ state \in [Session -> {"absent", "live", "revoked"}]
    /\ owner \in [Session -> Customer \cup {NoCustomer}]
    /\ expired \subseteq Session
    /\ request \in [Process -> [op : Op, at : Point,
                                customer : Customer \cup {NoCustomer},
                                session : Session \cup {NoSession},
                                late : BOOLEAN]]
    /\ parent \in [Session -> Session \cup {NoSession}]
    /\ audits \in [Session -> Nat]
    /\ disabled \subseteq Customer
    /\ contested \subseteq Session
    /\ stray \subseteq Session
    /\ \A p \in Process : request[p].at # "idle" => request[p].customer \in Customer

Init ==
    /\ active = [c \in Customer |-> TRUE]
    /\ state = [s \in Session |-> "absent"]
    /\ owner = [s \in Session |-> NoCustomer]
    /\ expired = {}
    /\ request = [p \in Process |-> Idle]
    /\ parent = [s \in Session |-> NoSession]
    /\ audits = [s \in Session |-> 0]
    /\ disabled = {}
    /\ contested = {}
    /\ stray = {}

-----------------------------------------------------------------------------
(* Requests.                                                               *)

At(p, op, at) == request[p].op = op /\ request[p].at = at

Begin(p, op, at, c, s) ==
    /\ request[p].at = "idle"
    /\ request' = [request EXCEPT ![p] = [op |-> op, at |-> at, customer |-> c,
                                          session |-> s, late |-> FALSE]]
    /\ UNCHANGED <<rows, parent, audits, disabled, stray>>

GoTo(p, at) == request' = [request EXCEPT ![p].at = at]
End(p) == request' = [request EXCEPT ![p] = Idle]

\* Session.is_active
IsActive(s) == state[s] = "live" /\ s \notin expired

\* A customer's access token is honoured while the customer is active; it is
\* not tied to a session.
Authenticated(c) == active[c]

-----------------------------------------------------------------------------
(* Login and rotation.                                                     *)

\* login_customer: only active customers are found; the password hash is
\* compared after the row was read.
LoginPassword(p, c) ==
    /\ "password" \in Providers
    /\ active[c]
    /\ Begin(p, "login", "issuing", c, NoSession)
    /\ UNCHANGED contested

\* login_with_google for a linked identity: is_active is not looked at.
LoginGoogle(p, c) ==
    /\ "google" \in Providers
    /\ Begin(p, "google_login", "issuing", c, NoSession)
    /\ UNCHANGED contested

\* Another request has read this token's session as active and not revoked it.
Contest(p, s) ==
    contested' = contested \cup
        {t \in {s} : \E q \in Process \ {p} :
            At(q, "rotate", "revoking_presented") /\ request[q].session = s}

\* rotate_refresh_token up to the is_active check, for a token once issued.
PresentToken(p, s) ==
    /\ IsActive(s)
    /\ Begin(p, "rotate", "revoking_presented", owner[s], s)
    /\ Contest(p, s)

\* Slip: the new pair is issued and the old token left alone.
KeepPresented(p) ==
    /\ At(p, "rotate", "revoking_presented")
    /\ GoTo(p, "issuing")
    /\ UNCHANGED <<rows, history>>

\* session.save(update_fields=["revoked_at"]): unconditional.
RevokePresented(p) ==
    /\ At(p, "rotate", "revoking_presented")
    /\ state' = [state EXCEPT ![request[p].session] = "revoked"]
    /\ GoTo(p, "issuing")
    /\ UNCHANGED <<active, owner, expired, history>>

\* Slip: the presented session's row is brought back to life with a new hash.
ReissueInPlace(p) ==
    /\ request[p].at = "issuing"
    /\ \E s \in Session :
        /\ IF request[p].op = "rotate" THEN s = request[p].session
                                       ELSE state[s] = "absent"
        /\ state' = [state EXCEPT ![s] = "live"]
        /\ owner' = [owner EXCEPT ![s] = request[p].customer]
    /\ End(p)
    /\ UNCHANGED <<active, expired, history>>

\* issue_session
IssueSession(p) ==
    /\ request[p].at = "issuing"
    /\ \E s \in Session :
        /\ state[s] = "absent"
        /\ state' = [state EXCEPT ![s] = "live"]
        /\ owner' = [owner EXCEPT ![s] = request[p].customer]
        /\ parent' = [parent EXCEPT ![s] = request[p].session]
        /\ stray' = IF \/ request[p].late
                       \/ request[p].op = "google_login"
                            /\ request[p].customer \in disabled
                       \/ request[p].session \in stray
                    THEN stray \cup {s} ELSE stray
    /\ End(p)
    /\ UNCHANGED <<active, expired, audits, disabled, contested>>

-----------------------------------------------------------------------------
(* Revocation by the customer.                                             *)

\* A session id comes from a listing, though perhaps from another customer's.
BeginRevoke(p, c, s) ==
    /\ Authenticated(c)
    /\ state[s] # "absent"
    /\ Begin(p, "revoke", "updating", c, s)
    /\ UNCHANGED contested

\* Slip: any session of the customer is updated, revoked or not.
RevokeAgain(p) ==
    /\ At(p, "revoke", "updating")
    /\ owner[request[p].session] = request[p].customer
    /\ state' = [state EXCEPT ![request[p].session] = "revoked"]
    /\ GoTo(p, "auditing")
    /\ UNCHANGED <<active, owner, expired, history>>

\* revoke_session: one UPDATE that counts the rows it matched.
RevokeOne(p) ==
    LET s == request[p].session IN
    /\ At(p, "revoke", "updating")
    /\ IF owner[s] = request[p].customer /\ state[s] = "live"
       THEN /\ state' = [state EXCEPT ![s] = "revoked"]
            /\ GoTo(p, "auditing")
       ELSE /\ End(p)
            /\ UNCHANGED state
    /\ UNCHANGED <<active, owner, expired, history>>

AuditRevocation(p) ==
    /\ At(p, "revoke", "auditing")
    /\ audits' = [audits EXCEPT ![request[p].session] = @ + 1]
    /\ End(p)
    /\ UNCHANGED <<rows, parent, disabled, contested, stray>>

BeginRevokeAll(p, c) ==
    /\ Authenticated(c)
    /\ Begin(p, "revoke_all", "revoking_all", c, NoSession)
    /\ UNCHANGED contested

Owned(c) == {s \in Session : owner[s] = c}

\* What follows the UPDATE of revoke_all_sessions: disable_customer goes on to
\* its audit entry, and logins and rotations under way are overtaken.
Overtaken(q, c) == request[q].op \in {"login", "rotate"} /\ request[q].customer = c
AfterRevokingAll(p) ==
    LET c == request[p].customer IN
    \/ /\ request[p].op = "revoke_all"
       /\ End(p)
       /\ UNCHANGED history
    \/ /\ request[p].op = "disable"
       /\ request' = [q \in Process |->
                        IF q = p THEN [request[q] EXCEPT !.at = "auditing"]
                        ELSE IF Overtaken(q, c) THEN [request[q] EXCEPT !.late = TRUE]
                        ELSE request[q]]
       /\ disabled' = disabled \cup {c}
       /\ stray' = stray \ Owned(c)
       /\ UNCHANGED <<parent, audits, contested>>

\* Slip: only sessions that have expired are revoked.
RevokeExpired(p) ==
    /\ request[p].at = "revoking_all"
    /\ state' = [s \in Session |->
                    IF s \in Owned(request[p].customer) \cap expired /\ state[s] = "live"
                    THEN "revoked" ELSE state[s]]
    /\ AfterRevokingAll(p)
    /\ UNCHANGED <<active, owner, expired>>

\* revoke_all_sessions: one UPDATE.
RevokeAll(p) ==
    /\ request[p].at = "revoking_all"
    /\ state' = [s \in Session |->
                    IF s \in Owned(request[p].customer) /\ state[s] = "live"
                    THEN "revoked" ELSE state[s]]
    /\ AfterRevokingAll(p)
    /\ UNCHANGED <<active, owner, expired>>

-----------------------------------------------------------------------------
(* Disabling by staff; who may do it is the subject of StaffAdmin.         *)

BeginDisable(p, c) ==
    /\ Begin(p, "disable", "saving", c, NoSession)
    /\ UNCHANGED contested

SaveDisabled(p) ==
    /\ At(p, "disable", "saving")
    /\ active' = [active EXCEPT ![request[p].customer] = FALSE]
    /\ GoTo(p, "revoking_all")
    /\ UNCHANGED <<state, owner, expired, history>>

AuditDisable(p) ==
    /\ At(p, "disable", "auditing")
    /\ End(p)
    /\ UNCHANGED <<rows, history>>

-----------------------------------------------------------------------------
\* The refresh token's lifetime ends; a revoked one is of no use anyway.
Expire(s) ==
    /\ state[s] = "live"
    /\ expired' = expired \cup {s}
    /\ UNCHANGED <<active, state, owner, request, history>>

\* The web process dies; what its statements have committed stays.
Crash(p) ==
    /\ request[p].at # "idle"
    /\ End(p)
    /\ UNCHANGED <<rows, history>>

-----------------------------------------------------------------------------
(* The endpoints.                                                          *)

Issue(p, op) == At(p, op, "issuing") /\ IssueSession(p)

LoginView(p) == (\E c \in Customer : LoginPassword(p, c)) \/ Issue(p, "login")

GoogleLoginView(p) ==
    (\E c \in Customer : LoginGoogle(p, c)) \/ Issue(p, "google_login")

RefreshTokenView(p) ==
    \/ \E s \in Session : PresentToken(p, s)
    \/ RevokePresented(p)
    \/ Issue(p, "rotate")

SessionRevokeView(p) ==
    \/ \E c \in Customer, s \in Session : BeginRevoke(p, c, s)
    \/ RevokeOne(p)
    \/ AuditRevocation(p)

SessionRevokeAllView(p) ==
    \/ \E c \in Customer : BeginRevokeAll(p, c)
    \/ At(p, "revoke_all", "revoking_all") /\ RevokeAll(p)

\* What the customer is shown, which is what can be used.
SessionListView(c) == {s \in Owned(c) : IsActive(s)}

DisableCustomerView(p) ==
    \/ \E c \in Customer : BeginDisable(p, c)
    \/ SaveDisabled(p)
    \/ At(p, "disable", "revoking_all") /\ RevokeAll(p)
    \/ AuditDisable(p)

Next ==
    \/ \E p \in Process :
        \/ LoginView(p)
        \/ GoogleLoginView(p)
        \/ RefreshTokenView(p)
        \/ SessionRevokeView(p)
        \/ SessionRevokeAllView(p)
        \/ DisableCustomerView(p)
        \/ Crash(p)
    \/ \E s \in Session : Expire(s)

Spec == Init /\ [][Next]_vars

-----------------------------------------------------------------------------
(* Correctness.                                                            *)

\* A revoked session is never usable again, whatever requests were under way
\* when it was revoked (rotate_refresh_token, issue_session).
RevokedIsFinal ==
    [][\A s \in Session : state[s] = "revoked" => state'[s] = "revoked"]_vars

\* "the presented token is revoked and a new access/refresh pair is issued": by
\* the time a successor exists its predecessor is revoked, for the same
\* customer, however rotations, revocations and crashes interleave
\* (rotate_refresh_token).
SuccessorReplaces ==
    \A s \in Session : parent[s] # NoSession =>
        /\ state[parent[s]] = "revoked"
        /\ owner[parent[s]] = owner[s]

\* Of several requests that revoke one session only one succeeds and writes the
\* audit entry, and only for a session that is revoked (revoke_session's
\* counted UPDATE).
OneAuditPerRevocation ==
    \A s \in Session : audits[s] <= 1 /\ (audits[s] = 1 => state[s] = "revoked")

\* "refresh tokens rotate on every use": a refresh token buys a second
\* successor only when two requests presented it so close together that the
\* second read the session before the first had revoked it; no crash, login,
\* revocation or other rotation brings that about (rotate_refresh_token).
SecondSuccessorNeedsContest ==
    \A s, t \in Session :
        /\ parent[s] # NoSession
        /\ parent[s] = parent[t]
        => s = t \/ parent[s] \in contested

\* A disabled customer's usable sessions stem from a login or rotation that the
\* disabling overtook or from a Google login: all the others are gone once
\* disable_customer has revoked, and none of them comes back.
OnlyStraysSurvive ==
    \A c \in disabled : SessionListView(c) \subseteq stray

\* "the presented token is revoked and a new access/refresh pair is issued",
\* "refresh tokens rotate on every use", "revoke all active sessions": however
\* the statements of the requests interleave and wherever processes die, the
\* sessions form the chains of SessionChains.  In particular a revoked session
\* stays so, and a disabling is one step that closes every chain
\* (rotate_refresh_token, issue_session, revoke_all_sessions, disable_customer).
Chains == INSTANCE SessionChains WITH shared <- contested
ImplementsChains == Chains!Spec
=============================================================================
