------------------------------ MODULE Identity ------------------------------
(***************************************************************************)
(* Who a customer is: registration, the mailed one-time tokens (address    *)
(* verification, address change, password reset) and the linking of Google *)
(* accounts.                                                               *)
(*                                                                         *)
(* A request reads its token outside any transaction; a transaction then   *)
(* marks the token consumed and applies its effect.  Consuming locks the   *)
(* token's row but does not look at consumed_at again.  A transaction is   *)
(* two actions: the consumption, pending while the request is "applying",  *)
(* and the last write with the commit or the rollback.  A request that is  *)
(* refused before it writes changes nothing and is not an action.          *)
(***************************************************************************)
EXTENDS Naturals, FiniteSets

CONSTANTS
    Customer,      \* bound: the primary keys customers may take
    Token,         \* bound: the primary keys verification tokens may take
    Process,       \* web processes, each serving one request at a time
    Email,         \* normalised addresses
    Subject,       \* Google accounts (the sub claim)
    NoCustomer, NoToken, NoEmail, NoSubject

ASSUME IdentityAssumption ==
    /\ NoCustomer \notin Customer
    /\ NoToken \notin Token
    /\ NoEmail \notin Email
    /\ NoSubject \notin Subject

VARIABLES
    email,         \* Customer -> Customer.email, NoEmail while there is no row
    active,        \* the customers with is_active
    verified,      \* the customers with email_verified_at
    password,      \* the customers with a password LoginMethod
    google,        \* Customer -> provider_subject_id of the Google LoginMethod
    token,         \* Token -> the VerificationToken row
    expired,       \* the tokens whose expires_at has passed
    mailed,        \* Token -> the mailbox the raw token was sent to
    request,       \* Process -> the request it serves
    proven,        \* history: <<c, e>>: whoever reads mailbox e, or Google on
                   \* their behalf, has acted for customer c
    uses,          \* history: Token -> committed uses
    contested      \* history: tokens read by a request while another request
                   \* that had read them was not done with them

rows == <<email, active, verified, password, google, token, expired>>
vars == <<email, active, verified, password, google, token, expired, mailed,
          request, proven, uses, contested>>

Purpose == {"email_verification", "email_change", "password_reset"}

NoRow == [purpose |-> "none", customer |-> NoCustomer, new_email |-> NoEmail,
          consumed |-> FALSE]

Idle == [at |-> "idle", purpose |-> "none", customer |-> NoCustomer,
         token |-> NoToken, email |-> NoEmail, subject |-> NoSubject,
         vouched |-> FALSE]

Point == {"idle", "registering", "issuing", "mailing", "consuming", "applying",
          "linking"}

TypeOK ==
    /\ email \in [Customer -> Email \cup {NoEmail}]
    /\ active \subseteq Customer
    /\ verified \subseteq Customer
    /\ password \subseteq Customer
    /\ google \in [Customer -> Subject \cup {NoSubject}]
    /\ token \in [Token -> [purpose : Purpose \cup {"none"},
                            customer : Customer \cup {NoCustomer},
                            new_email : Email \cup {NoEmail},
                            consumed : BOOLEAN]]
    /\ expired \subseteq Token
    /\ mailed \in [Token -> Email \cup {NoEmail}]
    /\ request \in [Process -> [at : Point,
                                purpose : Purpose \cup {"none"},
                                customer : Customer \cup {NoCustomer},
                                token : Token \cup {NoToken},
                                email : Email \cup {NoEmail},
                                subject : Subject \cup {NoSubject},
                                vouched : BOOLEAN]]
    /\ proven \subseteq Customer \X Email
    /\ uses \in [Token -> Nat]
    /\ contested \subseteq Token
    /\ \A t \in Token :
        /\ token[t].purpose = "email_change" <=> token[t].new_email # NoEmail
        /\ token[t].customer \in Customer <=> token[t] # NoRow
        /\ mailed[t] # NoEmail => token[t] # NoRow

Init ==
    /\ email = [c \in Customer |-> NoEmail]
    /\ active = {}
    /\ verified = {}
    /\ password = {}
    /\ google = [c \in Customer |-> NoSubject]
    /\ token = [t \in Token |-> NoRow]
    /\ expired = {}
    /\ mailed = [t \in Token |-> NoEmail]
    /\ request = [p \in Process |-> Idle]
    /\ proven = {}
    /\ uses = [t \in Token |-> 0]
    /\ contested = {}

-----------------------------------------------------------------------------
(* Requests and rows.                                                      *)

At(p, at) == request[p].at = at

Begin(p, fields) ==
    /\ At(p, "idle")
    /\ request' = [request EXCEPT ![p] = fields]

End(p) == request' = [request EXCEPT ![p] = Idle]

Registered(c) == email[c] # NoEmail
Taken(e) == \E c \in Customer : email[c] = e

\* generate_token and VerificationToken.objects.create: a fresh random token.
NewToken(t, purpose, c, new_email) ==
    /\ token[t] = NoRow
    /\ token' = [token EXCEPT ![t] = [purpose |-> purpose, customer |-> c,
                                      new_email |-> new_email, consumed |-> FALSE]]

Mailing(t, e) == [Idle EXCEPT !.at = "mailing", !.token = t, !.email = e]

-----------------------------------------------------------------------------
(* Registration.                                                           *)

\* RegisterSerializer.validate_email: the address is looked up beforehand.
Register(p, e) ==
    /\ ~Taken(e)
    /\ Begin(p, [Idle EXCEPT !.at = "registering", !.email = e])
    /\ UNCHANGED <<rows, mailed, proven, uses, contested>>

\* Customer, LoginMethod and token in one transaction.
InsertCustomer(p, c, t) ==
    /\ At(p, "registering")
    /\ ~Registered(c)
    /\ email' = [email EXCEPT ![c] = request[p].email]
    /\ active' = active \cup {c}
    /\ password' = password \cup {c}
    /\ NewToken(t, "email_verification", c, NoEmail)
    /\ request' = [request EXCEPT ![p] = Mailing(t, request[p].email)]
    /\ UNCHANGED <<verified, google, expired, mailed, proven, uses, contested>>

\* Slip: the earlier look-up is trusted; nothing makes addresses unique.
CreateUnchecked(p, c, t) == InsertCustomer(p, c, t)

\* register_customer; Customer.email is unique.
CreateCustomer(p, c, t) == InsertCustomer(p, c, t) /\ ~Taken(request[p].email)

\* The address was taken after the look-up: the transaction fails.
RegistrationFails(p) ==
    /\ At(p, "registering")
    /\ Taken(request[p].email)
    /\ End(p)
    /\ UNCHANGED <<rows, mailed, proven, uses, contested>>

-----------------------------------------------------------------------------
(* Asking for a token.                                                     *)

\* request_email_change up to its look-up, for an authenticated customer.
AskEmailChange(p, c, e) ==
    /\ c \in active
    /\ \A d \in Customer \ {c} : email[d] # e
    /\ Begin(p, [Idle EXCEPT !.at = "issuing", !.purpose = "email_change",
                             !.customer = c, !.email = e])
    /\ UNCHANGED <<rows, mailed, proven, uses, contested>>

\* request_password_reset up to its look-up; the address is read here.
AskPasswordReset(p, c) ==
    /\ c \in active
    /\ Begin(p, [Idle EXCEPT !.at = "issuing", !.purpose = "password_reset",
                             !.customer = c, !.email = email[c]])
    /\ UNCHANGED <<rows, mailed, proven, uses, contested>>

\* The insert of request_email_change and request_password_reset.
IssueToken(p, t) ==
    LET r == request[p]
    IN /\ At(p, "issuing")
       /\ NewToken(t, r.purpose, r.customer,
                   IF r.purpose = "email_change" THEN r.email ELSE NoEmail)
       /\ request' = [request EXCEPT ![p] = Mailing(t, r.email)]
       /\ UNCHANGED <<email, active, verified, password, google, expired,
                      mailed, proven, uses, contested>>

\* Slip: every mail goes to the address the customer has now.
MailOwner(p) ==
    /\ At(p, "mailing")
    /\ mailed' = [mailed EXCEPT ![request[p].token] =
                      email[token[request[p].token].customer]]
    /\ End(p)
    /\ UNCHANGED <<rows, proven, uses, contested>>

\* send_mail, after the commit.
SendMail(p) ==
    /\ At(p, "mailing")
    /\ mailed' = [mailed EXCEPT ![request[p].token] = request[p].email]
    /\ End(p)
    /\ UNCHANGED <<rows, proven, uses, contested>>

-----------------------------------------------------------------------------
(* Using a token.                                                          *)

\* Another request has read t unconsumed and has not committed its use.
Contest(p, t) ==
    contested' = contested \cup
        {u \in {t} : \E q \in Process \ {p} : request[q].token = u
                                              /\ request[q].at \in {"consuming", "applying"}}

PresentToken(p, t) ==
    /\ mailed[t] # NoEmail
    /\ Begin(p, [Idle EXCEPT !.at = "consuming", !.token = t])
    /\ Contest(p, t)
    /\ UNCHANGED <<rows, mailed, proven, uses>>

\* Slip: consumed_at is not looked at.
ReadAnyToken(p, t) ==
    /\ t \notin expired
    /\ PresentToken(p, t)

\* The look-up of verify_email, confirm_email_change, confirm_password_reset.
ReadToken(p, t) ==
    /\ ~token[t].consumed
    /\ t \notin expired
    /\ PresentToken(p, t)

\* token.save(update_fields=["consumed_at"]) takes the row's lock.
Consume(p) ==
    /\ At(p, "consuming")
    /\ \A q \in Process : request[q].token = request[p].token => ~At(q, "applying")
    /\ request' = [request EXCEPT ![p].at = "applying"]
    /\ UNCHANGED <<rows, mailed, proven, uses, contested>>

\* The transaction that p's request began with Consume commits.
CommitUse(p, purpose) ==
    LET t == request[p].token
    IN /\ At(p, "applying")
       /\ token[t].purpose = purpose
       /\ token' = [token EXCEPT ![t].consumed = TRUE]
       /\ uses' = [uses EXCEPT ![t] = @ + 1]
       /\ proven' = proven \cup {<<token[t].customer, mailed[t]>>}
       /\ End(p)
       /\ UNCHANGED <<active, google, expired, mailed, contested>>

\* verify_email
VerifyEmail(p) ==
    /\ CommitUse(p, "email_verification")
    /\ verified' = verified \cup {token[request[p].token].customer}
    /\ UNCHANGED <<email, password>>

TakenByAnother(p) ==
    LET row == token[request[p].token]
    IN \E d \in Customer \ {row.customer} : email[d] = row.new_email

\* confirm_email_change; Customer.email is unique.
ConfirmEmailChange(p) ==
    LET row == token[request[p].token]
    IN /\ CommitUse(p, "email_change")
       /\ ~TakenByAnother(p)
       /\ email' = [email EXCEPT ![row.customer] = row.new_email]
       /\ verified' = verified \cup {row.customer}
       /\ UNCHANGED password

\* Slip: the refusal is raised after the transaction committed the consumption.
RefuseAndConsume(p) ==
    LET t == request[p].token
    IN /\ At(p, "applying")
       /\ token[t].purpose = "email_change"
       /\ TakenByAnother(p)
       /\ token' = [token EXCEPT ![t].consumed = TRUE]
       /\ End(p)
       /\ UNCHANGED <<email, active, verified, password, google, expired,
                      mailed, proven, uses, contested>>

\* EmailAlreadyTakenError leaves the atomic block, which rolls back.
RefuseEmailChange(p) ==
    /\ At(p, "applying")
    /\ token[request[p].token].purpose = "email_change"
    /\ TakenByAnother(p)
    /\ End(p)
    /\ UNCHANGED <<rows, mailed, proven, uses, contested>>

\* confirm_password_reset: update_or_create of the password method.
ConfirmPasswordReset(p) ==
    /\ CommitUse(p, "password_reset")
    /\ password' = password \cup {token[request[p].token].customer}
    /\ UNCHANGED <<email, verified>>

-----------------------------------------------------------------------------
(* Google login with an account no LoginMethod names.  Login with a linked *)
(* account changes nothing but sessions.                                   *)

Linked(g) == \E c \in Customer : google[c] = g

\* The address is unknown: customer and method in one transaction.
GoogleCreate(p, c, g, e, vouched) ==
    /\ At(p, "idle")
    /\ ~Linked(g)
    /\ ~Taken(e)
    /\ ~Registered(c)
    /\ email' = [email EXCEPT ![c] = e]
    /\ active' = active \cup {c}
    /\ google' = [google EXCEPT ![c] = g]
    /\ verified' = IF vouched THEN verified \cup {c} ELSE verified
    /\ proven' = IF vouched THEN proven \cup {<<c, e>>} ELSE proven
    /\ UNCHANGED <<password, token, expired, mailed, request, uses, contested>>

MatchGoogle(p, g, e, vouched) ==
    \E c \in Customer :
        /\ ~Linked(g)
        /\ email[c] = e
        /\ Begin(p, [Idle EXCEPT !.at = "linking", !.customer = c,
                                 !.email = e, !.subject = g,
                                 !.vouched = vouched])
        /\ UNCHANGED <<rows, mailed, proven, uses, contested>>

\* Slip: an address the customer has verified by mail is taken for Google's word.
GoogleMatchVerified(p, g, e, vouched) ==
    /\ vouched \/ \E c \in verified : email[c] = e
    /\ MatchGoogle(p, g, e, vouched)

\* The address is known: an account Google does not vouch for is refused.
GoogleMatch(p, g, e, vouched) == vouched /\ MatchGoogle(p, g, e, vouched)

\* A customer has one Google method and an account is linked once.
Linkable(p) ==
    LET r == request[p] IN google[r.customer] = NoSubject /\ ~Linked(r.subject)

GoogleLink(p) ==
    LET r == request[p]
    IN /\ At(p, "linking")
       /\ Linkable(p)
       /\ google' = [google EXCEPT ![r.customer] = r.subject]
       /\ verified' = IF r.vouched THEN verified \cup {r.customer} ELSE verified
       /\ proven' = IF r.vouched THEN proven \cup {<<r.customer, r.email>>} ELSE proven
       /\ End(p)
       /\ UNCHANGED <<email, active, password, token, expired, mailed, uses,
                      contested>>

\* IntegrityError: the verified flag is rolled back with the method.
GoogleLinkFails(p) ==
    /\ At(p, "linking")
    /\ ~Linkable(p)
    /\ End(p)
    /\ UNCHANGED <<rows, mailed, proven, uses, contested>>

-----------------------------------------------------------------------------
(* The environment.                                                        *)

\* DisableCustomerView, the only writer of is_active.
Disable(c) ==
    /\ c \in active
    /\ active' = active \ {c}
    /\ UNCHANGED <<email, verified, password, google, token, expired, mailed,
                   request, proven, uses, contested>>

\* A token's time to live passes.
Expire(t) ==
    /\ token[t] # NoRow
    /\ t \notin expired
    /\ expired' = expired \cup {t}
    /\ UNCHANGED <<email, active, verified, password, google, token, mailed,
                   request, proven, uses, contested>>

\* The mail server refuses, or the process dies: an open transaction is
\* rolled back, and what was committed stays.
Fail(p) ==
    /\ ~At(p, "idle")
    /\ End(p)
    /\ UNCHANGED <<rows, mailed, proven, uses, contested>>

-----------------------------------------------------------------------------
(* The endpoints.                                                          *)

\* p's request has, or has made, a token for this purpose.
IsFor(p, purpose) ==
    request[p].token # NoToken /\ token[request[p].token].purpose = purpose

ReadAndConsume(p, purpose) ==
    \/ \E t \in Token : token[t].purpose = purpose /\ ReadToken(p, t)
    \/ IsFor(p, purpose) /\ Consume(p)

RegisterView(p) ==
    \/ \E e \in Email : Register(p, e)
    \/ \E c \in Customer, t \in Token : CreateCustomer(p, c, t)
    \/ RegistrationFails(p)
    \/ IsFor(p, "email_verification") /\ SendMail(p)

VerifyEmailView(p) == ReadAndConsume(p, "email_verification") \/ VerifyEmail(p)

RequestPasswordResetView(p) ==
    \/ \E c \in Customer : AskPasswordReset(p, c)
    \/ request[p].purpose = "password_reset" /\ \E t \in Token : IssueToken(p, t)
    \/ IsFor(p, "password_reset") /\ SendMail(p)

ConfirmPasswordResetView(p) ==
    ReadAndConsume(p, "password_reset") \/ ConfirmPasswordReset(p)

RequestEmailChangeView(p) ==
    \/ \E c \in Customer, e \in Email : AskEmailChange(p, c, e)
    \/ request[p].purpose = "email_change" /\ \E t \in Token : IssueToken(p, t)
    \/ IsFor(p, "email_change") /\ SendMail(p)

ConfirmEmailChangeView(p) ==
    \/ ReadAndConsume(p, "email_change")
    \/ ConfirmEmailChange(p)
    \/ RefuseEmailChange(p)

GoogleLoginView(p) ==
    \/ \E g \in Subject, e \in Email, vouched \in BOOLEAN :
        \/ \E c \in Customer : GoogleCreate(p, c, g, e, vouched)
        \/ GoogleMatch(p, g, e, vouched)
    \/ GoogleLink(p)
    \/ GoogleLinkFails(p)

Next ==
    \/ \E p \in Process :
        \/ RegisterView(p)
        \/ VerifyEmailView(p)
        \/ RequestPasswordResetView(p)
        \/ ConfirmPasswordResetView(p)
        \/ RequestEmailChangeView(p)
        \/ ConfirmEmailChangeView(p)
        \/ GoogleLoginView(p)
        \/ Fail(p)
    \/ \E c \in Customer : Disable(c)
    \/ \E t \in Token : Expire(t)

Spec == Init /\ [][Next]_vars

-----------------------------------------------------------------------------
(* Properties.                                                             *)

\* Two customers never share an address, although registration, address change
\* and Google login all look addresses up before, and apart from, writing them.
OneOwnerPerEmail ==
    \A c, d \in Customer : Registered(c) /\ email[c] = email[d] => c = d

\* "Single-use" (verification_token.py:1) holds except for requests that
\* overlap: a token is used twice only if a second request read it before the
\* first had committed its use.
SecondUseNeedsOverlap ==
    \A t \in Token : uses[t] > 1 => t \in contested

\* The verified flag is about the address the customer has now, not about one
\* they had: whoever reads that mailbox, or Google, has confirmed it, in
\* whatever order verification, changes of address and linking are finished.
VerifiedAddressProven ==
    \A c \in verified : <<c, email[c]>> \in proven

\* A token is marked consumed if and only if what it was issued for has
\* happened: a refused change of address or a crash leaves it usable.
ConsumedMeansDone ==
    \A t \in Token :
        LET row == token[t]
        IN /\ row.consumed <=> uses[t] > 0
           /\ row.consumed =>
                /\ row.purpose = "email_verification" => row.customer \in verified
                /\ row.purpose = "email_change" =>
                      row.customer \in verified /\ <<row.customer, row.new_email>> \in proven
                /\ row.purpose = "password_reset" => row.customer \in password

\* If the step gives the customer a Google account, it is their first, nobody
\* else's, and Google vouched for its address, which is theirs or has given way
\* to one they have proven between the look-up and the link.
LinkedRightly(c) ==
    google'[c] # google[c] =>
        /\ google[c] = NoSubject
        /\ ~Linked(google'[c])
        /\ \E p \in Process :
              /\ At(p, "linking")
              /\ request[p].customer = c /\ request[p].subject = google'[c]
              /\ request[p].vouched
              /\ request[p].email = email[c] \/ <<c, email[c]>> \in proven

\* "Refuse to link an unverified Google identity to an existing, email-matched
\* Customer" (login_with_google.py:40): a customer who has a row already gets a
\* Google account only if Google vouched for its address, whatever the customer
\* has verified by mail and however they change their address meanwhile.
GoogleNeverTakesOver ==
    [][\A c \in Customer : Registered(c) => LinkedRightly(c)]_vars
=============================================================================
