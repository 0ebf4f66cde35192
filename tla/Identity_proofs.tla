--------------------------- MODULE Identity_proofs ---------------------------
(***************************************************************************)
(* Proofs about Identity, for any number of customers, tokens, addresses,  *)
(* Google accounts and web processes.                                      *)
(*                                                                         *)
(* An address is current when it is the customer's, and settled when it is *)
(* current or the customer's present address has been proven: both are     *)
(* kept by every step, since only a proven address replaces another.       *)
(***************************************************************************)
EXTENDS Identity, TLAPS

Settled(c, e) == e = email[c] \/ <<c, email[c]>> \in proven

\* Where the token t may be sent: to the owner, or to the address it is about.
MailOK(t, e) ==
    /\ token[t].purpose = "email_verification" => Settled(token[t].customer, e)
    /\ token[t].purpose = "email_change" => e = token[t].new_email

Using(r) == r.at \in {"consuming", "applying"}

\* What a request remembers is still so.
RequestOK(r) ==
    /\ r.at = "registering" => r.email \in Email
    /\ r.at = "issuing" =>
          /\ r.customer \in Customer /\ Registered(r.customer)
          /\ r.email \in Email
          /\ r.purpose \in {"email_change", "password_reset"}
    /\ r.at = "mailing" =>
          /\ r.token \in Token /\ token[r.token] # NoRow
          /\ r.email \in Email
          /\ MailOK(r.token, r.email)
    /\ Using(r) => r.token \in Token /\ mailed[r.token] # NoEmail
    /\ r.at = "linking" =>
          /\ r.customer \in Customer /\ Registered(r.customer)
          /\ r.subject \in Subject /\ r.email \in Email
          /\ r.vouched
          /\ Settled(r.customer, r.email)

RequestsOK == \A p \in Process : RequestOK(request[p])

\* Nothing refers to a customer who has no row.
RowsOK ==
    /\ \A c \in active \cup verified \cup password : Registered(c)
    /\ \A c \in Customer : google[c] # NoSubject => Registered(c)
    /\ \A t \in Token : token[t] # NoRow => Registered(token[t].customer)

MailsOK == \A t \in Token : mailed[t] # NoEmail => MailOK(t, mailed[t])

\* Two requests with one token, or one with a token used up, were in a contest.
ContestsSeen ==
    \A p \in Process : Using(request[p]) =>
        /\ token[request[p].token].consumed => request[p].token \in contested
        /\ \A q \in Process \ {p} :
              Using(request[q]) /\ request[q].token = request[p].token
                  => request[p].token \in contested

IdentityInv ==
    /\ TypeOK
    /\ RequestsOK
    /\ RowsOK
    /\ MailsOK
    /\ ContestsSeen
    /\ OneOwnerPerEmail
    /\ SecondUseNeedsOverlap
    /\ VerifiedAddressProven
    /\ ConsumedMeansDone

-----------------------------------------------------------------------------
(* The steps of a process, whatever endpoint it serves.                    *)

Quiet(p) ==
    \/ \E e \in Email : Register(p, e)
    \/ RegistrationFails(p)
    \/ \E c \in Customer, e \in Email : AskEmailChange(p, c, e)
    \/ \E c \in Customer : AskPasswordReset(p, c)
    \/ \E t \in Token : ReadToken(p, t)
    \/ Consume(p)
    \/ RefuseEmailChange(p)
    \/ \E g \in Subject, e \in Email, vouched \in BOOLEAN : GoogleMatch(p, g, e, vouched)
    \/ GoogleLinkFails(p)
    \/ Fail(p)

Steps ==
    \/ \E p \in Process :
        \/ Quiet(p)
        \/ \E c \in Customer, t \in Token : CreateCustomer(p, c, t)
        \/ \E t \in Token : IssueToken(p, t)
        \/ SendMail(p)
        \/ VerifyEmail(p)
        \/ ConfirmEmailChange(p)
        \/ ConfirmPasswordReset(p)
        \/ \E c \in Customer, g \in Subject, e \in Email, vouched \in BOOLEAN :
              GoogleCreate(p, c, g, e, vouched)
        \/ GoogleLink(p)
    \/ \E c \in Customer : Disable(c)
    \/ \E t \in Token : Expire(t)

LEMMA NextSteps == Next => Steps
<1>1. ASSUME NEW p \in Process, NEW purpose, ReadAndConsume(p, purpose) PROVE Quiet(p)
  BY <1>1 DEF ReadAndConsume, Quiet
<1>2. ASSUME NEW p \in Process,
             RegisterView(p) \/ VerifyEmailView(p) \/ RequestPasswordResetView(p)
      PROVE  Steps
  BY <1>1, <1>2 DEF RegisterView, VerifyEmailView, RequestPasswordResetView, Quiet, Steps
<1>3. ASSUME NEW p \in Process,
             ConfirmPasswordResetView(p) \/ RequestEmailChangeView(p)
                 \/ ConfirmEmailChangeView(p)
      PROVE  Steps
  BY <1>1, <1>3
     DEF ConfirmPasswordResetView, RequestEmailChangeView, ConfirmEmailChangeView,
         Quiet, Steps
<1>4. ASSUME NEW p \in Process, GoogleLoginView(p) \/ Fail(p) PROVE Steps
  BY <1>4 DEF GoogleLoginView, Quiet, Steps
<1> QED BY <1>2, <1>3, <1>4 DEF Next, Steps

-----------------------------------------------------------------------------
(* Steps that write no row.                                                *)

Request == [at : Point, purpose : Purpose \cup {"none"},
            customer : Customer \cup {NoCustomer}, token : Token \cup {NoToken},
            email : Email \cup {NoEmail}, subject : Subject \cup {NoSubject},
            vouched : BOOLEAN]

\* Only p's request changes, to one that is in order.
OnlyRequest(p) ==
    /\ request' \in [Process -> Request]
    /\ \A q \in Process \ {p} : request'[q] = request[q]
    /\ RequestOK(request'[p])
    /\ contested \subseteq contested' /\ contested' \subseteq Token
    /\ Using(request'[p]) =>
          /\ token[request'[p].token].consumed => request'[p].token \in contested'
          /\ \A q \in Process \ {p} :
                Using(request[q]) /\ request[q].token = request'[p].token
                    => request'[p].token \in contested'
    /\ UNCHANGED <<rows, mailed, proven, uses>>

LEMMA RequestKeeps ==
    ASSUME IdentityInv, NEW p \in Process, OnlyRequest(p) PROVE IdentityInv'
<1> USE DEF IdentityInv, OnlyRequest, rows
<1>1. TypeOK'
  BY DEF TypeOK, Request
<1>2. RequestsOK'
  BY DEF RequestsOK, RequestOK, MailOK, Settled, Registered, Using
<1>3. RowsOK' /\ MailsOK'
  BY DEF RowsOK, MailsOK, MailOK, Settled, Registered
<1>4. ContestsSeen'
  <2> SUFFICES ASSUME NEW q \in Process, Using(request[q])'
               PROVE  /\ token[request'[q].token].consumed => request'[q].token \in contested'
                      /\ \A s \in Process \ {q} :
                            Using(request'[s]) /\ request'[s].token = request'[q].token
                                => request'[q].token \in contested'
    BY DEF ContestsSeen, Using
  <2>1. CASE q = p
    BY <2>1 DEF Using
  <2>2. CASE q # p
    <3>1. request'[q] = request[q]
      BY <2>2
    <3>2. Using(request[q])
      BY <3>1 DEF Using
    <3> QED BY <2>2, <3>1, <3>2 DEF ContestsSeen, Using
  <2> QED BY <2>1, <2>2
<1>5. OneOwnerPerEmail' /\ SecondUseNeedsOverlap' /\ VerifiedAddressProven'
  BY DEF OneOwnerPerEmail, SecondUseNeedsOverlap, VerifiedAddressProven, Registered
<1>6. ConsumedMeansDone'
  BY DEF ConsumedMeansDone
<1> QED BY <1>1, <1>2, <1>3, <1>4, <1>5, <1>6

LEMMA EndKeeps ==
    ASSUME IdentityInv, NEW p \in Process, End(p), contested' = contested,
           UNCHANGED <<rows, mailed, proven, uses>>
    PROVE  IdentityInv'
<1>1. request' \in [Process -> Request] /\ request'[p] = Idle
  BY DEF IdentityInv, TypeOK, Request, End, Idle, Point
<1>2. RequestOK(request'[p]) /\ ~Using(request'[p])
  BY <1>1 DEF RequestOK, Idle, Using
<1> QED BY <1>1, <1>2, RequestKeeps DEF OnlyRequest, End, IdentityInv, TypeOK

LEMMA QuietKeeps == ASSUME IdentityInv, NEW p \in Process, Quiet(p) PROVE IdentityInv'
<1> USE DEF IdentityInv
<1>1. ASSUME NEW e \in Email, Register(p, e) PROVE IdentityInv'
  <2>1. /\ request' \in [Process -> Request]
        /\ request'[p] = [Idle EXCEPT !.at = "registering", !.email = e]
    BY <1>1 DEF Register, Begin, TypeOK, Request, Idle, Point
  <2>2. RequestOK(request'[p]) /\ ~Using(request'[p])
    BY <2>1 DEF RequestOK, Idle, Using
  <2> QED BY <1>1, <2>1, <2>2, RequestKeeps DEF OnlyRequest, Register, Begin, TypeOK
<1>2. ASSUME NEW c \in Customer, NEW e \in Email, AskEmailChange(p, c, e)
      PROVE  IdentityInv'
  <2>1. /\ request' \in [Process -> Request]
        /\ request'[p] = [Idle EXCEPT !.at = "issuing", !.purpose = "email_change",
                                      !.customer = c, !.email = e]
    BY <1>2 DEF AskEmailChange, Begin, TypeOK, Request, Idle, Point, Purpose
  <2>2. RequestOK(request'[p]) /\ ~Using(request'[p])
    BY <1>2, <2>1 DEF AskEmailChange, RowsOK, RequestOK, Idle, Using
  <2> QED BY <1>2, <2>1, <2>2, RequestKeeps DEF OnlyRequest, AskEmailChange, Begin, TypeOK
<1>3. ASSUME NEW c \in Customer, AskPasswordReset(p, c) PROVE IdentityInv'
  <2>1. /\ request' \in [Process -> Request]
        /\ request'[p] = [Idle EXCEPT !.at = "issuing", !.purpose = "password_reset",
                                      !.customer = c, !.email = email[c]]
    BY <1>3 DEF AskPasswordReset, Begin, TypeOK, Request, Idle, Point, Purpose
  <2>2. email[c] \in Email /\ Registered(c)
    BY <1>3 DEF AskPasswordReset, RowsOK, Registered, TypeOK
  <2>3. RequestOK(request'[p]) /\ ~Using(request'[p])
    BY <2>1, <2>2 DEF RequestOK, Idle, Using
  <2> QED BY <1>3, <2>1, <2>3, RequestKeeps DEF OnlyRequest, AskPasswordReset, Begin, TypeOK
<1>4. ASSUME NEW t \in Token, ReadToken(p, t) PROVE IdentityInv'
  <2>1. /\ request' \in [Process -> Request]
        /\ request'[p] = [Idle EXCEPT !.at = "consuming", !.token = t]
    BY <1>4 DEF ReadToken, PresentToken, Begin, TypeOK, Request, Idle, Point
  <2>2. RequestOK(request'[p]) /\ request'[p].token = t
    BY <1>4, <2>1 DEF ReadToken, PresentToken, RequestOK, Idle, Using
  <2>3. /\ contested \subseteq contested' /\ contested' \subseteq Token
        /\ \A q \in Process \ {p} :
              Using(request[q]) /\ request[q].token = t => t \in contested'
    BY <1>4 DEF ReadToken, PresentToken, Contest, Using, TypeOK
  <2>4. ~token[t].consumed
    BY <1>4 DEF ReadToken
  <2> QED BY <1>4, <2>1, <2>2, <2>3, <2>4, RequestKeeps
          DEF OnlyRequest, ReadToken, PresentToken, Begin, TypeOK
<1>5. ASSUME Consume(p) PROVE IdentityInv'
  <2>1. request \in [Process -> Request] /\ request[p] \in Request
    BY DEF TypeOK, Request
  <2>2. /\ request[p].at = "consuming"
        /\ request' = [request EXCEPT ![p] = [request[p] EXCEPT !.at = "applying"]]
        /\ UNCHANGED <<rows, mailed, proven, uses, contested>>
    BY <1>5, <2>1 DEF Consume, At, Request
  <2>3. [request[p] EXCEPT !.at = "applying"] \in Request
    BY <2>1 DEF Request, Point
  <2>4. /\ request' \in [Process -> Request]
        /\ request'[p] = [request[p] EXCEPT !.at = "applying"]
        /\ \A q \in Process \ {p} : request'[q] = request[q]
    BY <2>1, <2>2, <2>3
  <2>5. /\ request'[p].at = "applying" /\ request'[p].token = request[p].token
        /\ Using(request[p])
    BY <2>1, <2>2, <2>4 DEF Request, Using
  <2>6. RequestOK(request'[p])
    BY <2>5 DEF RequestsOK, RequestOK, Using
  <2>7. /\ token[request'[p].token].consumed => request'[p].token \in contested
        /\ \A q \in Process \ {p} :
              Using(request[q]) /\ request[q].token = request'[p].token
                  => request'[p].token \in contested
    BY <2>5 DEF ContestsSeen
  <2>8. contested \subseteq Token
    BY DEF TypeOK
  <2> QED BY <2>2, <2>4, <2>6, <2>7, <2>8, RequestKeeps DEF OnlyRequest
<1>6. ASSUME NEW g \in Subject, NEW e \in Email, NEW vouched \in BOOLEAN,
             GoogleMatch(p, g, e, vouched)
      PROVE  IdentityInv'
  <2>1. PICK c \in Customer :
            /\ email[c] = e
            /\ Begin(p, [Idle EXCEPT !.at = "linking", !.customer = c, !.email = e,
                                     !.subject = g, !.vouched = vouched])
            /\ UNCHANGED <<rows, mailed, proven, uses, contested>>
    BY <1>6 DEF GoogleMatch, MatchGoogle
  <2>2. /\ request' \in [Process -> Request]
        /\ request'[p] = [Idle EXCEPT !.at = "linking", !.customer = c, !.email = e,
                                      !.subject = g, !.vouched = vouched]
    BY <2>1 DEF Begin, TypeOK, Request, Idle, Point
  <2>3. RequestOK(request'[p]) /\ ~Using(request'[p])
    BY <1>6, <2>1, <2>2, IdentityAssumption
       DEF GoogleMatch, RequestOK, Idle, Using, Settled, Registered
  <2> QED BY <2>1, <2>2, <2>3, RequestKeeps DEF OnlyRequest, Begin, TypeOK
<1>7. ASSUME RegistrationFails(p) \/ RefuseEmailChange(p) \/ GoogleLinkFails(p) \/ Fail(p)
      PROVE  IdentityInv'
  BY <1>7, EndKeeps DEF RegistrationFails, RefuseEmailChange, GoogleLinkFails, Fail
<1> QED BY <1>1, <1>2, <1>3, <1>4, <1>5, <1>6, <1>7 DEF Quiet

-----------------------------------------------------------------------------
(* What every step keeps.                                                  *)

Grows ==
    /\ \A c \in Customer : Registered(c) =>
          /\ Registered(c)'
          /\ email'[c] = email[c] \/ <<c, email'[c]>> \in proven'
    /\ verified \subseteq verified'
    /\ password \subseteq password'
    /\ proven \subseteq proven'
    /\ \A t \in Token : token[t] # NoRow =>
          /\ token'[t] # NoRow
          /\ token'[t].purpose = token[t].purpose
          /\ token'[t].customer = token[t].customer
          /\ token'[t].new_email = token[t].new_email
    /\ \A t \in Token : mailed[t] # NoEmail => mailed'[t] # NoEmail

LEMMA SettledKept ==
    ASSUME Grows, NEW c \in Customer, Registered(c)
    PROVE  \A e : Settled(c, e) => Settled(c, e)'
BY DEF Grows, Settled

LEMMA MailKept ==
    ASSUME IdentityInv, Grows, NEW t \in Token, token[t] # NoRow
    PROVE  \A e : MailOK(t, e) => MailOK(t, e)'
<1>1. token[t].customer \in Customer /\ Registered(token[t].customer)
  BY DEF IdentityInv, RowsOK, TypeOK
<1>2. \A e : Settled(token[t].customer, e) => Settled(token[t].customer, e)'
  <2> SUFFICES ASSUME NEW c \in Customer, c = token[t].customer,
                      NEW e, Settled(c, e)
               PROVE  Settled(c, e)'
    BY <1>1 DEF Grows, Settled
  <2> QED BY <1>1, SettledKept
<1> QED BY <1>2 DEF Grows, MailOK, Settled

LEMMA OtherRequestsKept ==
    ASSUME IdentityInv, Grows, NEW q \in Process, request'[q] = request[q]
    PROVE  RequestOK(request[q])'
<1>1. RequestOK(request[q])
  BY DEF IdentityInv, RequestsOK
<1>2. request[q].at = "issuing" => Registered(request[q].customer)'
  BY <1>1 DEF RequestOK, Grows
<1>3. ASSUME request[q].at = "mailing"
      PROVE  /\ token'[request[q].token] # NoRow
             /\ MailOK(request[q].token, request[q].email)'
  <2>1. /\ request[q].token \in Token /\ token[request[q].token] # NoRow
        /\ MailOK(request[q].token, request[q].email)
    BY <1>1, <1>3 DEF RequestOK
  <2>2. \A t \in Token : token[t] # NoRow => \A e : MailOK(t, e) => MailOK(t, e)'
    BY MailKept
  <2> QED BY <2>1, <2>2 DEF Grows, MailOK, Settled
<1>4. Using(request[q]) => mailed'[request[q].token] # NoEmail
  BY <1>1 DEF RequestOK, Grows
<1>5. request[q].at = "linking" =>
          /\ Registered(request[q].customer)'
          /\ Settled(request[q].customer, request[q].email)'
  BY <1>1 DEF RequestOK, Grows, Settled
<1> QED BY <1>1, <1>2, <1>3, <1>4, <1>5 DEF RequestOK, Using

LEMMA MailsKept ==
    ASSUME IdentityInv, Grows, mailed' = mailed PROVE MailsOK'
<1> SUFFICES ASSUME NEW t \in Token, mailed[t] # NoEmail PROVE MailOK(t, mailed[t])'
  BY DEF MailsOK
<1>1. token[t] # NoRow /\ MailOK(t, mailed[t])
  BY DEF IdentityInv, MailsOK, TypeOK
<1>2. \A e : MailOK(t, e) => MailOK(t, e)'
  BY <1>1, MailKept
<1> QED BY <1>1, <1>2 DEF MailOK, Settled

\* A step that uses no token: requests stay as they are or end in good order,
\* rows are new or unchanged.
NoUse ==
    /\ \A q \in Process : \/ request'[q] = request[q]
                          \/ RequestOK(request[q])' /\ ~Using(request[q])'
    /\ \A t \in Token : \/ token'[t] = token[t]
                        \/ token[t] = NoRow /\ ~token'[t].consumed
    /\ UNCHANGED <<uses, contested>>

LEMMA NoUseKeeps ==
    ASSUME IdentityInv, Grows, NoUse
    PROVE  RequestsOK' /\ ContestsSeen' /\ SecondUseNeedsOverlap' /\ ConsumedMeansDone'
<1>1. RequestsOK'
  BY OtherRequestsKept DEF NoUse, RequestsOK
<1>2. ContestsSeen'
  <2>1. \A q \in Process : Using(request[q])' => request'[q] = request[q]
    BY DEF NoUse
  <2>2. \A q \in Process : Using(request[q]) => request[q].token \in Token
    BY DEF IdentityInv, RequestsOK, RequestOK
  <2>3. \A t \in Token : token'[t].consumed => token[t].consumed
    BY DEF NoUse
  <2> QED BY <2>1, <2>2, <2>3 DEF IdentityInv, ContestsSeen, NoUse, Using
<1>3. SecondUseNeedsOverlap'
  BY DEF IdentityInv, SecondUseNeedsOverlap, NoUse
<1>4. ConsumedMeansDone'
  <2> SUFFICES ASSUME NEW t \in Token
               PROVE  /\ token'[t].consumed <=> uses[t] > 0
                      /\ token'[t].consumed => token'[t] = token[t]
    BY DEF IdentityInv, ConsumedMeansDone, NoUse, Grows
  <2>1. token[t].consumed <=> uses[t] > 0
    BY DEF IdentityInv, ConsumedMeansDone
  <2> QED BY <2>1 DEF NoUse, NoRow
<1> QED BY <1>1, <1>2, <1>3, <1>4

-----------------------------------------------------------------------------
(* New rows.                                                               *)

LEMMA CreateKeeps ==
    ASSUME IdentityInv, NEW p \in Process, NEW c \in Customer, NEW t \in Token,
           CreateCustomer(p, c, t)
    PROVE  IdentityInv'
<1> DEFINE e == request[p].email
<1> USE DEF IdentityInv
<1>1. /\ e \in Email /\ e # NoEmail /\ ~Taken(e) /\ ~Registered(c) /\ token[t] = NoRow
      /\ email' = [email EXCEPT ![c] = e]
      /\ active' = active \cup {c} /\ password' = password \cup {c}
      /\ token' = [token EXCEPT ![t] = [purpose |-> "email_verification", customer |-> c,
                                        new_email |-> NoEmail, consumed |-> FALSE]]
      /\ request' = [request EXCEPT ![p] = Mailing(t, e)]
      /\ UNCHANGED <<verified, google, expired, mailed, proven, uses, contested>>
  BY IdentityAssumption
     DEF CreateCustomer, InsertCustomer, NewToken, At, RequestsOK, RequestOK
<1>2. TypeOK'
  BY <1>1, IdentityAssumption DEF TypeOK, Mailing, Idle, Point, Purpose, NoRow
<1>3. /\ email'[c] = e /\ \A d \in Customer \ {c} : email'[d] = email[d]
      /\ token'[t] # NoRow /\ token'[t].customer = c
      /\ token'[t].purpose = "email_verification" /\ ~token'[t].consumed
      /\ \A u \in Token \ {t} : token'[u] = token[u]
      /\ request'[p] = Mailing(t, e) /\ \A q \in Process \ {p} : request'[q] = request[q]
  BY <1>1 DEF TypeOK, NoRow
<1>4. Grows
  BY <1>1, <1>3 DEF Grows, Registered
<1>5. NoUse
  <2>1. /\ request'[p].at = "mailing" /\ request'[p].token = t /\ request'[p].email = e
    BY <1>3 DEF Mailing, Idle
  <2>2. MailOK(request[p].token, request[p].email)'
    BY <1>3, <2>1 DEF MailOK, Settled
  <2>3. RequestOK(request[p])' /\ ~Using(request[p])'
    BY <1>1, <1>3, <2>1, <2>2 DEF RequestOK, Using
  <2> QED BY <1>1, <1>3, <2>3 DEF NoUse
<1>6. RowsOK'
  BY <1>1, <1>3 DEF RowsOK, Registered, TypeOK
<1>7. OneOwnerPerEmail'
  BY <1>1, <1>3 DEF OneOwnerPerEmail, Registered, Taken
<1>8. VerifiedAddressProven'
  BY <1>1, <1>3 DEF VerifiedAddressProven, RowsOK, TypeOK
<1> QED BY <1>1, <1>2, <1>4, <1>5, <1>6, <1>7, <1>8, NoUseKeeps, MailsKept

LEMMA IssueKeeps ==
    ASSUME IdentityInv, NEW p \in Process, NEW t \in Token, IssueToken(p, t)
    PROVE  IdentityInv'
<1> DEFINE r == request[p]
           new == IF r.purpose = "email_change" THEN r.email ELSE NoEmail
<1> USE DEF IdentityInv
<1>1. /\ r.customer \in Customer /\ Registered(r.customer)
      /\ r.email \in Email /\ r.email # NoEmail
      /\ r.purpose \in {"email_change", "password_reset"}
      /\ token[t] = NoRow
      /\ token' = [token EXCEPT ![t] = [purpose |-> r.purpose, customer |-> r.customer,
                                        new_email |-> new, consumed |-> FALSE]]
      /\ request' = [request EXCEPT ![p] = Mailing(t, r.email)]
      /\ UNCHANGED <<email, active, verified, password, google, expired, mailed, proven,
                     uses, contested>>
  BY IdentityAssumption
     DEF IssueToken, NewToken, At, RequestsOK, RequestOK
<1>2. TypeOK'
  BY <1>1, IdentityAssumption DEF TypeOK, Mailing, Idle, Point, Purpose, NoRow
<1>3. /\ token'[t] # NoRow /\ token'[t].customer = r.customer
      /\ token'[t].purpose = r.purpose /\ token'[t].new_email = new /\ ~token'[t].consumed
      /\ \A u \in Token \ {t} : token'[u] = token[u]
      /\ request'[p] = Mailing(t, r.email)
      /\ \A q \in Process \ {p} : request'[q] = request[q]
  BY <1>1 DEF TypeOK, NoRow
<1>4. Grows
  BY <1>1, <1>3 DEF Grows, Registered
<1>5. NoUse
  <2>1. /\ request'[p].at = "mailing" /\ request'[p].token = t
        /\ request'[p].email = r.email
    BY <1>3 DEF Mailing, Idle
  <2>2. MailOK(request[p].token, request[p].email)'
    BY <1>1, <1>3, <2>1 DEF MailOK
  <2>3. RequestOK(request[p])' /\ ~Using(request[p])'
    BY <1>1, <1>3, <2>1, <2>2 DEF RequestOK, Using
  <2> QED BY <1>1, <1>3, <2>3 DEF NoUse
<1>6. RowsOK'
  BY <1>1, <1>3 DEF RowsOK, Registered
<1>7. OneOwnerPerEmail' /\ VerifiedAddressProven'
  BY <1>1 DEF OneOwnerPerEmail, VerifiedAddressProven, Registered
<1> QED BY <1>1, <1>2, <1>4, <1>5, <1>6, <1>7, NoUseKeeps, MailsKept

LEMMA SendKeeps == ASSUME IdentityInv, NEW p \in Process, SendMail(p) PROVE IdentityInv'
<1> DEFINE r == request[p]
<1> USE DEF IdentityInv
<1>1. /\ r.token \in Token /\ r.email \in Email /\ token[r.token] # NoRow
      /\ MailOK(r.token, r.email)
      /\ mailed' = [mailed EXCEPT ![r.token] = r.email]
      /\ request' = [request EXCEPT ![p] = Idle]
      /\ UNCHANGED <<rows, proven, uses, contested>>
  BY DEF SendMail, End, At, RequestsOK, RequestOK
<1>2. TypeOK'
  BY <1>1 DEF TypeOK, Idle, Point, rows
<1>3. Grows
  BY <1>1, IdentityAssumption DEF Grows, rows, Registered, TypeOK
<1>4. NoUse
  <2>1. RequestOK(request[p])' /\ ~Using(request[p])'
    BY <1>1 DEF RequestOK, Using, Idle, TypeOK
  <2> QED BY <1>1, <2>1 DEF NoUse, rows, TypeOK
<1>5. MailsOK'
  BY <1>1 DEF MailsOK, MailOK, Settled, rows, TypeOK
<1>6. RowsOK' /\ OneOwnerPerEmail' /\ VerifiedAddressProven'
  BY <1>1 DEF RowsOK, OneOwnerPerEmail, VerifiedAddressProven, Registered, rows
<1> QED BY <1>2, <1>3, <1>4, <1>5, <1>6, NoUseKeeps

-----------------------------------------------------------------------------
(* Using a token.                                                          *)

\* What the transactions of the three services have in common.
LEMMA CommitFacts ==
    ASSUME IdentityInv, NEW p \in Process, NEW purpose \in Purpose, CommitUse(p, purpose)
    PROVE  \E t \in Token :
              /\ request[p].token = t /\ Using(request[p])
              /\ token[t].purpose = purpose
              /\ token[t].customer \in Customer /\ Registered(token[t].customer)
              /\ mailed[t] \in Email /\ MailOK(t, mailed[t])
              /\ token' = [token EXCEPT ![t].consumed = TRUE]
              /\ uses' = [uses EXCEPT ![t] = @ + 1]
              /\ proven' = proven \cup {<<token[t].customer, mailed[t]>>}
              /\ request' = [request EXCEPT ![p] = Idle]
              /\ UNCHANGED <<active, google, expired, mailed, contested>>
<1> USE DEF IdentityInv
<1>1. PICK t \in Token : request[p].token = t /\ Using(request[p]) /\ mailed[t] # NoEmail
  BY DEF CommitUse, At, Using, RequestsOK, RequestOK
<1>2. /\ mailed[t] \in Email /\ MailOK(t, mailed[t]) /\ token[t] # NoRow
      /\ token[t].customer \in Customer
  BY <1>1 DEF MailsOK, TypeOK
<1>3. Registered(token[t].customer)
  BY <1>2 DEF RowsOK
<1> QED BY <1>1, <1>2, <1>3 DEF CommitUse, End

\* A transaction that commits the use of the token t of customer c and may
\* give c the address the token was mailed to.
Used(p, t, c) ==
    /\ request[p].token = t /\ Using(request[p])
    /\ token[t].customer = c /\ Registered(c)
    /\ mailed[t] \in Email /\ MailOK(t, mailed[t])
    /\ token' = [token EXCEPT ![t].consumed = TRUE]
    /\ uses' = [uses EXCEPT ![t] = @ + 1]
    /\ proven' = proven \cup {<<c, mailed[t]>>}
    /\ request' = [request EXCEPT ![p] = Idle]
    /\ UNCHANGED <<active, google, expired, mailed, contested>>
    /\ \/ email' = email
       \/ /\ email' = [email EXCEPT ![c] = mailed[t]]
          /\ \A d \in Customer \ {c} : email[d] # mailed[t]
    /\ verified \subseteq verified' /\ verified' \subseteq verified \cup {c}
    /\ c \in verified' => c \in verified \/ <<c, email'[c]>> \in proven'
    /\ password \subseteq password' /\ password' \subseteq password \cup {c}
    /\ token[t].purpose = "email_verification" => c \in verified'
    /\ token[t].purpose = "email_change" =>
          c \in verified' /\ mailed[t] = token[t].new_email
    /\ token[t].purpose = "password_reset" => c \in password'

LEMMA UseKeeps ==
    ASSUME IdentityInv, NEW p \in Process, NEW t \in Token, NEW c \in Customer,
           Used(p, t, c)
    PROVE  IdentityInv'
<1> USE DEF IdentityInv
<1>1. /\ token'[t] = [token[t] EXCEPT !.consumed = TRUE]
      /\ \A u \in Token \ {t} : token'[u] = token[u]
      /\ uses'[t] = uses[t] + 1 /\ \A u \in Token \ {t} : uses'[u] = uses[u]
      /\ request'[p] = Idle /\ \A q \in Process \ {p} : request'[q] = request[q]
  BY DEF Used, TypeOK
<1>2. /\ token'[t].consumed /\ token'[t].purpose = token[t].purpose
      /\ token'[t].customer = c /\ token'[t].new_email = token[t].new_email
      /\ token'[t] # NoRow
  BY <1>1, IdentityAssumption DEF Used, TypeOK, NoRow
<1>3. /\ email' \in [Customer -> Email \cup {NoEmail}]
      /\ email'[c] = email[c] \/ email'[c] = mailed[t]
      /\ \A d \in Customer \ {c} : email'[d] = email[d]
      /\ email'[c] # NoEmail
  BY IdentityAssumption DEF Used, TypeOK, Registered
<1>4. TypeOK'
  <2> DEFINE Row == [purpose : Purpose \cup {"none"}, customer : Customer \cup {NoCustomer},
                     new_email : Email \cup {NoEmail}, consumed : BOOLEAN]
  <2>1. token' \in [Token -> Row] /\ uses' \in [Token -> Nat]
    <3>1. token \in [Token -> Row] /\ token[t] \in Row
      BY DEF TypeOK
    <3>2. [token[t] EXCEPT !.consumed = TRUE] \in Row
      BY <3>1
    <3>3. token' = [token EXCEPT ![t] = [token[t] EXCEPT !.consumed = TRUE]]
      BY <3>1 DEF Used
    <3>4. token' \in [Token -> Row]
      BY <3>1, <3>2, <3>3
    <3>5. uses' \in [Token -> Nat]
      BY DEF Used, TypeOK
    <3> QED BY <3>4, <3>5
  <2>2. request' \in [Process -> Request]
    BY DEF Used, TypeOK, Request, Idle, Point
  <2>3. /\ verified' \subseteq Customer /\ password' \subseteq Customer
        /\ proven' \subseteq Customer \X Email
        /\ UNCHANGED <<active, google, expired, mailed, contested>>
    BY DEF Used, TypeOK
  <2>4. \A u \in Token :
            /\ token'[u].purpose = "email_change" <=> token'[u].new_email # NoEmail
            /\ token'[u].customer \in Customer <=> token'[u] # NoRow
            /\ mailed'[u] # NoEmail => token'[u] # NoRow
    <3> SUFFICES ASSUME NEW u \in Token
                 PROVE  /\ token'[u].purpose = "email_change" <=> token'[u].new_email # NoEmail
                        /\ token'[u].customer \in Customer <=> token'[u] # NoRow
                        /\ mailed'[u] # NoEmail => token'[u] # NoRow
      OBVIOUS
    <3>1. /\ token[u].purpose = "email_change" <=> token[u].new_email # NoEmail
          /\ token[u].customer \in Customer <=> token[u] # NoRow
          /\ mailed[u] # NoEmail => token[u] # NoRow
      BY DEF TypeOK
    <3>2. CASE u = t
      BY <1>2, <3>1, <3>2
    <3>3. CASE u # t
      BY <1>1, <2>3, <3>1, <3>3
    <3> QED BY <3>2, <3>3
  <2> QED BY <1>3, <2>1, <2>2, <2>3, <2>4 DEF TypeOK, Request
<1>5. Grows
  BY <1>1, <1>2, <1>3 DEF Grows, Used, Registered
<1>6. RequestsOK'
  <2>1. RequestOK(request[p])'
    BY <1>1 DEF RequestOK, Using, Idle
  <2> QED BY <1>1, <1>5, <2>1, OtherRequestsKept DEF RequestsOK
<1>7. RowsOK'
  <2>1. \A d \in Customer : Registered(d) => Registered(d)'
    BY <1>5 DEF Grows
  <2>2. \A d \in active' \cup verified' \cup password' : d \in Customer /\ Registered(d)
    BY DEF RowsOK, Used, TypeOK
  <2>3. \A d \in Customer : google'[d] # NoSubject => Registered(d)
    BY DEF RowsOK, Used
  <2>4. \A u \in Token : token'[u] # NoRow =>
            token'[u].customer \in Customer /\ Registered(token'[u].customer)
    BY <1>1, <1>2 DEF RowsOK, Used, TypeOK
  <2> QED BY <2>1, <2>2, <2>3, <2>4 DEF RowsOK, Registered
<1>8. MailsOK'
  BY <1>5, MailsKept DEF Used
<1>9. ContestsSeen'
  <2> SUFFICES ASSUME NEW q \in Process, Using(request[q])'
               PROVE  /\ token'[request'[q].token].consumed => request'[q].token \in contested
                      /\ \A s \in Process \ {q} :
                            Using(request[s])' /\ request'[s].token = request'[q].token
                                => request'[q].token \in contested
    BY DEF ContestsSeen, Used, Using
  <2>1. q # p /\ request'[q] = request[q] /\ Using(request[q]) /\ request[q].token \in Token
    BY <1>1 DEF Using, Idle, RequestsOK, RequestOK
  <2>2. request[q].token = t => t \in contested
    BY <2>1 DEF ContestsSeen, Used
  <2>3. token'[request[q].token].consumed => request[q].token \in contested
    BY <1>1, <2>1, <2>2 DEF ContestsSeen
  <2>4. \A s \in Process \ {q} : Using(request[s])' => s # p /\ request'[s] = request[s]
    BY <1>1 DEF Using, Idle
  <2> QED BY <2>1, <2>3, <2>4 DEF ContestsSeen, Using
<1>10. OneOwnerPerEmail'
  BY <1>3 DEF OneOwnerPerEmail, Used, Registered, TypeOK
<1>11. SecondUseNeedsOverlap'
  <2>1. uses[t] > 0 => t \in contested
    BY DEF ConsumedMeansDone, ContestsSeen, Used
  <2> QED BY <1>1, <2>1 DEF SecondUseNeedsOverlap, Used, TypeOK
<1>12. VerifiedAddressProven'
  BY <1>3 DEF VerifiedAddressProven, Used, TypeOK
<1>13. ConsumedMeansDone'
  <2> SUFFICES ASSUME NEW u \in Token
               PROVE  /\ token'[u].consumed <=> uses'[u] > 0
                      /\ token'[u].consumed =>
                          /\ token'[u].purpose = "email_verification" =>
                                token'[u].customer \in verified'
                          /\ token'[u].purpose = "email_change" =>
                                token'[u].customer \in verified'
                                /\ <<token'[u].customer, token'[u].new_email>> \in proven'
                          /\ token'[u].purpose = "password_reset" =>
                                token'[u].customer \in password'
    BY DEF ConsumedMeansDone
  <2>1. CASE u = t
    BY <1>1, <1>2, <2>1 DEF Used, TypeOK
  <2>2. CASE u # t
    BY <1>1, <2>2 DEF ConsumedMeansDone, Used
  <2> QED BY <2>1, <2>2
<1> QED BY <1>4, <1>6, <1>7, <1>8, <1>9, <1>10, <1>11, <1>12, <1>13

LEMMA CommitsKeep ==
    ASSUME IdentityInv, NEW p \in Process,
           VerifyEmail(p) \/ ConfirmEmailChange(p) \/ ConfirmPasswordReset(p)
    PROVE  IdentityInv'
<1>1. ASSUME VerifyEmail(p) PROVE IdentityInv'
  <2>1. PICK t \in Token :
            /\ request[p].token = t /\ Using(request[p])
            /\ token[t].purpose = "email_verification"
            /\ token[t].customer \in Customer /\ Registered(token[t].customer)
            /\ mailed[t] \in Email /\ MailOK(t, mailed[t])
            /\ token' = [token EXCEPT ![t].consumed = TRUE]
            /\ uses' = [uses EXCEPT ![t] = @ + 1]
            /\ proven' = proven \cup {<<token[t].customer, mailed[t]>>}
            /\ request' = [request EXCEPT ![p] = Idle]
            /\ UNCHANGED <<active, google, expired, mailed, contested>>
    BY <1>1, CommitFacts DEF VerifyEmail, Purpose
  <2>2. PICK c \in Customer : c = token[t].customer
    BY <2>1
  <2>3. Settled(c, mailed[t])
    BY <2>1, <2>2 DEF MailOK
  <2>4. /\ verified' = verified \cup {c} /\ UNCHANGED <<email, password>>
    BY <1>1, <2>1, <2>2 DEF VerifyEmail
  <2> QED BY <2>1, <2>2, <2>3, <2>4, UseKeeps DEF Used, Settled
<1>2. ASSUME ConfirmEmailChange(p) PROVE IdentityInv'
  <2>1. PICK t \in Token :
            /\ request[p].token = t /\ Using(request[p])
            /\ token[t].purpose = "email_change"
            /\ token[t].customer \in Customer /\ Registered(token[t].customer)
            /\ mailed[t] \in Email /\ MailOK(t, mailed[t])
            /\ token' = [token EXCEPT ![t].consumed = TRUE]
            /\ uses' = [uses EXCEPT ![t] = @ + 1]
            /\ proven' = proven \cup {<<token[t].customer, mailed[t]>>}
            /\ request' = [request EXCEPT ![p] = Idle]
            /\ UNCHANGED <<active, google, expired, mailed, contested>>
    BY <1>2, CommitFacts DEF ConfirmEmailChange, Purpose
  <2>2. PICK c \in Customer : c = token[t].customer
    BY <2>1
  <2>3. mailed[t] = token[t].new_email
    BY <2>1 DEF MailOK
  <2>4. /\ verified' = verified \cup {c} /\ UNCHANGED password
        /\ email' = [email EXCEPT ![c] = mailed[t]]
        /\ \A d \in Customer \ {c} : email[d] # mailed[t]
    BY <1>2, <2>1, <2>2, <2>3 DEF ConfirmEmailChange, TakenByAnother
  <2>5. email'[c] = mailed[t]
    BY <2>4 DEF IdentityInv, TypeOK
  <2>6. c \in verified' /\ <<c, email'[c]>> \in proven'
    BY <2>1, <2>2, <2>4, <2>5
  <2>7. Used(p, t, c)
    BY <2>1, <2>2, <2>3, <2>4, <2>6 DEF Used
  <2> QED BY <2>7, UseKeeps
<1>3. ASSUME ConfirmPasswordReset(p) PROVE IdentityInv'
  <2>1. PICK t \in Token :
            /\ request[p].token = t /\ Using(request[p])
            /\ token[t].purpose = "password_reset"
            /\ token[t].customer \in Customer /\ Registered(token[t].customer)
            /\ mailed[t] \in Email /\ MailOK(t, mailed[t])
            /\ token' = [token EXCEPT ![t].consumed = TRUE]
            /\ uses' = [uses EXCEPT ![t] = @ + 1]
            /\ proven' = proven \cup {<<token[t].customer, mailed[t]>>}
            /\ request' = [request EXCEPT ![p] = Idle]
            /\ UNCHANGED <<active, google, expired, mailed, contested>>
    BY <1>3, CommitFacts DEF ConfirmPasswordReset, Purpose
  <2>2. PICK c \in Customer : c = token[t].customer
    BY <2>1
  <2>3. password' = password \cup {c} /\ UNCHANGED <<email, verified>>
    BY <1>3, <2>1, <2>2 DEF ConfirmPasswordReset
  <2> QED BY <2>1, <2>2, <2>3, UseKeeps DEF Used
<1> QED BY <1>1, <1>2, <1>3

-----------------------------------------------------------------------------
(* Google accounts, and the environment.                                   *)

LEMMA GoogleCreateKeeps ==
    ASSUME IdentityInv, NEW p \in Process, NEW c \in Customer, NEW g \in Subject,
           NEW e \in Email, NEW vouched \in BOOLEAN, GoogleCreate(p, c, g, e, vouched)
    PROVE  IdentityInv'
<1> USE DEF IdentityInv, GoogleCreate
<1>1. TypeOK'
  BY DEF TypeOK
<1>2. /\ email'[c] = e /\ \A d \in Customer \ {c} : email'[d] = email[d]
      /\ google'[c] = g /\ \A d \in Customer \ {c} : google'[d] = google[d]
      /\ e # NoEmail
  BY IdentityAssumption DEF TypeOK
<1>3. Grows
  BY <1>2 DEF Grows, Registered
<1>4. NoUse
  BY DEF NoUse
<1>5. RowsOK'
  BY <1>2 DEF RowsOK, Registered, TypeOK
<1>6. OneOwnerPerEmail'
  BY <1>2 DEF OneOwnerPerEmail, Registered, Taken
<1>7. VerifiedAddressProven'
  BY <1>2 DEF VerifiedAddressProven, RowsOK, TypeOK
<1> QED BY <1>1, <1>3, <1>4, <1>5, <1>6, <1>7, NoUseKeeps, MailsKept

LEMMA GoogleLinkKeeps ==
    ASSUME IdentityInv, NEW p \in Process, GoogleLink(p) PROVE IdentityInv'
<1> DEFINE r == request[p]
<1> USE DEF IdentityInv
<1>1. /\ r.customer \in Customer /\ Registered(r.customer) /\ r.subject \in Subject
      /\ r.email \in Email
      /\ Settled(r.customer, r.email)
      /\ google' = [google EXCEPT ![r.customer] = r.subject]
      /\ verified' = verified \cup {r.customer}
      /\ proven' = proven \cup {<<r.customer, r.email>>}
      /\ request' = [request EXCEPT ![p] = Idle]
      /\ UNCHANGED <<email, active, password, token, expired, mailed, uses, contested>>
  BY DEF GoogleLink, At, End, RequestsOK, RequestOK, TypeOK
<1>2. TypeOK'
  BY <1>1 DEF TypeOK, Idle, Point
<1>3. Grows
  BY <1>1 DEF Grows, Registered
<1>4. NoUse
  <2>1. RequestOK(request[p])' /\ ~Using(request[p])'
    BY <1>1 DEF RequestOK, Using, Idle, TypeOK
  <2> QED BY <1>1, <2>1 DEF NoUse, TypeOK
<1>5. RowsOK'
  BY <1>1 DEF RowsOK, Registered, TypeOK
<1>6. OneOwnerPerEmail'
  BY <1>1 DEF OneOwnerPerEmail, Registered
<1>7. VerifiedAddressProven'
  BY <1>1 DEF VerifiedAddressProven, Settled
<1> QED BY <1>1, <1>2, <1>3, <1>4, <1>5, <1>6, <1>7, NoUseKeeps, MailsKept

LEMMA EnvironmentKeeps ==
    ASSUME IdentityInv,
           \/ \E c \in Customer : Disable(c)
           \/ \E t \in Token : Expire(t)
           \/ UNCHANGED vars
    PROVE  IdentityInv'
<1> USE DEF IdentityInv
<1>1. /\ active' \subseteq active /\ expired' \subseteq Token
      /\ UNCHANGED <<email, verified, password, google, token, mailed, request, proven,
                     uses, contested>>
  BY DEF Disable, Expire, vars, rows, TypeOK
<1>2. TypeOK' /\ Grows /\ NoUse
  BY <1>1 DEF TypeOK, Grows, NoUse, Registered
<1>3. RowsOK' /\ OneOwnerPerEmail' /\ VerifiedAddressProven'
  BY <1>1 DEF RowsOK, OneOwnerPerEmail, VerifiedAddressProven, Registered
<1> QED BY <1>1, <1>2, <1>3, NoUseKeeps, MailsKept

-----------------------------------------------------------------------------
LEMMA IdentityInitial == Init => IdentityInv
<1> SUFFICES ASSUME Init PROVE IdentityInv
  OBVIOUS
<1>1. TypeOK
  BY IdentityAssumption DEF Init, TypeOK, NoRow, Idle, Point
<1>2. RequestsOK /\ RowsOK /\ MailsOK /\ ContestsSeen
  BY DEF Init, RequestsOK, RequestOK, Idle, Using, RowsOK, MailsOK, ContestsSeen
<1>3. /\ OneOwnerPerEmail /\ SecondUseNeedsOverlap /\ VerifiedAddressProven
      /\ ConsumedMeansDone
  BY DEF Init, OneOwnerPerEmail, Registered, SecondUseNeedsOverlap,
         VerifiedAddressProven, ConsumedMeansDone, NoRow
<1> QED BY <1>1, <1>2, <1>3 DEF IdentityInv

LEMMA IdentityInvariance == Spec => []IdentityInv
<1>1. IdentityInv /\ [Next]_vars => IdentityInv'
  <2> SUFFICES ASSUME IdentityInv, [Next]_vars PROVE IdentityInv'
    OBVIOUS
  <2>1. Steps \/ UNCHANGED vars
    BY NextSteps
  <2> QED BY <2>1, QuietKeeps, CreateKeeps, IssueKeeps, SendKeeps, CommitsKeep,
             GoogleCreateKeeps, GoogleLinkKeeps, EnvironmentKeeps DEF Steps
<1> QED BY <1>1, IdentityInitial, PTL DEF Spec

\* Type correctness.
THEOREM IdentityTypeCorrect == Spec => []TypeOK
BY IdentityInvariance, PTL DEF IdentityInv

\* Registration, change of address and Google login never give two customers
\* one address (register_customer, confirm_email_change, login_with_google).
THEOREM IdentityOneOwnerPerEmail == Spec => []OneOwnerPerEmail
BY IdentityInvariance, PTL DEF IdentityInv

\* A token is used twice only by requests that overlap (verify_email,
\* confirm_email_change, confirm_password_reset).
THEOREM IdentitySecondUseNeedsOverlap == Spec => []SecondUseNeedsOverlap
BY IdentityInvariance, PTL DEF IdentityInv

\* A verified flag is about the address the customer has now.
THEOREM IdentityVerifiedAddressProven == Spec => []VerifiedAddressProven
BY IdentityInvariance, PTL DEF IdentityInv

\* A token is consumed if and only if what it was issued for has happened.
THEOREM IdentityConsumedMeansDone == Spec => []ConsumedMeansDone
BY IdentityInvariance, PTL DEF IdentityInv

-----------------------------------------------------------------------------
(* How a standing account changes.                                         *)

\* The step uses the token that was mailed to e for c, for this purpose.
ByMail(c, purpose, e) ==
    \E t \in Token :
        /\ token[t].customer = c /\ token[t].purpose = purpose
        /\ mailed[t] = e /\ <<c, e>> \in proven'
        /\ uses'[t] = uses[t] + 1

\* The step links a Google account that vouches for e to c, who had none.
ByGoogle(c, e) ==
    /\ google[c] = NoSubject /\ google'[c] # NoSubject
    /\ <<c, e>> \in proven'

\* Once registered, a customer gets another address only by the token mailed to
\* that address, and a password, having none, only by a mailed reset token; the
\* verified flag comes from a mail or a Google account and is never taken back
\* (confirm_email_change, confirm_password_reset, verify_email, login_with_google).
StandingAccount(c) ==
    /\ Registered(c)'
    /\ email'[c] # email[c] => ByMail(c, "email_change", email'[c])
    /\ c \in password' \ password =>
          \E e \in Email : ByMail(c, "password_reset", e)
    /\ c \in verified' \ verified =>
          \E e \in Email :
              \/ ByMail(c, "email_verification", e)
              \/ ByMail(c, "email_change", e)
              \/ ByGoogle(c, e)
    /\ verified \subseteq verified' /\ password \subseteq password'

StandingAccountsKept == [][\A c \in Customer : Registered(c) => StandingAccount(c)]_vars

LEMMA CommitMail ==
    ASSUME IdentityInv, NEW p \in Process, NEW purpose \in Purpose, CommitUse(p, purpose)
    PROVE  \E t \in Token, e \in Email, c \in Customer :
              /\ request[p].token = t /\ token[t].customer = c
              /\ mailed[t] = e /\ MailOK(t, e)
              /\ ByMail(c, purpose, e)
<1>1. PICK t \in Token :
          /\ request[p].token = t /\ token[t].purpose = purpose
          /\ token[t].customer \in Customer
          /\ mailed[t] \in Email /\ MailOK(t, mailed[t])
          /\ uses' = [uses EXCEPT ![t] = @ + 1]
          /\ proven' = proven \cup {<<token[t].customer, mailed[t]>>}
  BY CommitFacts
<1>2. uses'[t] = uses[t] + 1
  BY <1>1 DEF IdentityInv, TypeOK
<1>3. ByMail(token[t].customer, purpose, mailed[t])
  BY <1>1, <1>2 DEF ByMail
<1> QED BY <1>1, <1>3

LEMMA AccountUntouched ==
    ASSUME UNCHANGED <<email, verified, password>>, NEW c \in Customer, Registered(c)
    PROVE  StandingAccount(c)
BY DEF StandingAccount, Registered

\* An insert writes the row of somebody who had none.
LEMMA InsertLeavesOthers ==
    ASSUME TypeOK, NEW d \in Customer, ~Registered(d), NEW e \in Email,
           email' = [email EXCEPT ![d] = e],
           password \subseteq password', password' \subseteq password \cup {d},
           verified \subseteq verified', verified' \subseteq verified \cup {d},
           NEW c \in Customer, Registered(c)
    PROVE  StandingAccount(c)
<1>1. c # d
  OBVIOUS
<1>2. email'[c] = email[c] /\ c \notin password' \ password /\ c \notin verified' \ verified
  BY <1>1 DEF TypeOK
<1> QED BY <1>2 DEF StandingAccount, Registered

LEMMA CommitStands ==
    ASSUME IdentityInv, NEW p \in Process, NEW c \in Customer, Registered(c),
           VerifyEmail(p) \/ ConfirmEmailChange(p) \/ ConfirmPasswordReset(p)
    PROVE  StandingAccount(c)
<1>1. CASE VerifyEmail(p)
  <2>1. PICK t \in Token, e \in Email, d \in Customer :
            /\ request[p].token = t /\ token[t].customer = d
            /\ ByMail(d, "email_verification", e)
    BY <1>1, CommitMail DEF VerifyEmail, Purpose
  <2>2. verified' = verified \cup {d} /\ UNCHANGED <<email, password>>
    BY <1>1, <2>1 DEF VerifyEmail
  <2> QED BY <2>1, <2>2 DEF StandingAccount, Registered
<1>2. CASE ConfirmEmailChange(p)
  <2>1. PICK t \in Token, e \in Email, d \in Customer :
            /\ request[p].token = t /\ token[t].customer = d
            /\ mailed[t] = e /\ MailOK(t, e)
            /\ ByMail(d, "email_change", e)
    BY <1>2, CommitMail DEF ConfirmEmailChange, Purpose
  <2>2. e = token[t].new_email
    BY <1>2, <2>1 DEF ConfirmEmailChange, CommitUse, MailOK
  <2>3. /\ verified' = verified \cup {d} /\ UNCHANGED password
        /\ email' = [email EXCEPT ![d] = e]
    BY <1>2, <2>1, <2>2 DEF ConfirmEmailChange
  <2>4. email'[d] = e /\ (c # d => email'[c] = email[c])
    BY <2>3 DEF IdentityInv, TypeOK
  <2>5. Registered(c)'
    BY <2>4, IdentityAssumption DEF Registered
  <2> QED BY <2>1, <2>3, <2>4, <2>5 DEF StandingAccount
<1>3. CASE ConfirmPasswordReset(p)
  <2>1. PICK t \in Token, e \in Email, d \in Customer :
            /\ request[p].token = t /\ token[t].customer = d
            /\ ByMail(d, "password_reset", e)
    BY <1>3, CommitMail DEF ConfirmPasswordReset, Purpose
  <2>2. password' = password \cup {d} /\ UNCHANGED <<email, verified>>
    BY <1>3, <2>1 DEF ConfirmPasswordReset
  <2> QED BY <2>1, <2>2 DEF StandingAccount, Registered
<1> QED BY <1>1, <1>2, <1>3

LEMMA GoogleStands ==
    ASSUME IdentityInv, NEW p \in Process, NEW c \in Customer, Registered(c),
           \/ \E d \in Customer, g \in Subject, e \in Email, vouched \in BOOLEAN :
                GoogleCreate(p, d, g, e, vouched)
           \/ GoogleLink(p)
    PROVE  StandingAccount(c)
<1>1. CASE \E d \in Customer, g \in Subject, e \in Email, vouched \in BOOLEAN :
              GoogleCreate(p, d, g, e, vouched)
  <2>1. PICK d \in Customer, g \in Subject, e \in Email, vouched \in BOOLEAN :
            GoogleCreate(p, d, g, e, vouched)
    BY <1>1
  <2> QED BY <2>1, InsertLeavesOthers DEF GoogleCreate, IdentityInv
<1>2. CASE GoogleLink(p)
  <2>1. PICK d \in Customer, e \in Email, g \in Subject :
            /\ request[p].customer = d /\ request[p].email = e
            /\ request[p].subject = g /\ request[p].vouched
    BY <1>2 DEF GoogleLink, At, IdentityInv, RequestsOK, RequestOK
  <2>2. /\ google[d] = NoSubject /\ google' = [google EXCEPT ![d] = g]
        /\ verified' = verified \cup {d} /\ proven' = proven \cup {<<d, e>>}
        /\ UNCHANGED <<email, password>>
    BY <1>2, <2>1 DEF GoogleLink, Linkable
  <2>3. ByGoogle(d, e)
    BY <2>2, IdentityAssumption DEF ByGoogle, IdentityInv, TypeOK
  <2> QED BY <2>2, <2>3 DEF StandingAccount, Registered
<1> QED BY <1>1, <1>2

\* What the services do to a customer who has a row already: the address moves
\* to the mailbox the token was sent to, a password comes by mail, and nobody is
\* unverified or loses a password.
THEOREM IdentityStandingAccounts == Spec => StandingAccountsKept
<1>1. IdentityInv /\ [Next]_vars
          => [\A c \in Customer : Registered(c) => StandingAccount(c)]_vars
  <2> SUFFICES ASSUME IdentityInv, Next, NEW c \in Customer, Registered(c)
               PROVE  StandingAccount(c)
    OBVIOUS
  <2>1. Steps
    BY NextSteps
  <2>2. CASE \/ \E p \in Process :
                  \/ Quiet(p) \/ SendMail(p) \/ \E t \in Token : IssueToken(p, t)
             \/ \E d \in Customer : Disable(d)
             \/ \E t \in Token : Expire(t)
    BY <2>2, AccountUntouched
       DEF Quiet, Register, RegistrationFails, AskEmailChange, AskPasswordReset,
           ReadToken, PresentToken, Consume, RefuseEmailChange, GoogleMatch,
           MatchGoogle, GoogleLinkFails, Fail, SendMail, IssueToken, Disable, Expire,
           rows
  <2>3. ASSUME NEW p \in Process, NEW d \in Customer, NEW t \in Token,
               CreateCustomer(p, d, t)
        PROVE  StandingAccount(c)
    BY <2>3, InsertLeavesOthers
       DEF CreateCustomer, InsertCustomer, At, IdentityInv, RequestsOK, RequestOK
  <2> QED BY <2>1, <2>2, <2>3, CommitStands, GoogleStands DEF Steps
<1> QED BY <1>1, IdentityInvariance, PTL DEF Spec, StandingAccountsKept

-----------------------------------------------------------------------------
(* Whose Google account a customer gets.                                   *)

\* A customer who has a row gets a Google account from login_with_google alone,
\* and only one that vouches for an address that was theirs when it was looked
\* up, a mail verification notwithstanding.
THEOREM IdentityGoogleNeverTakesOver == Spec => GoogleNeverTakesOver
<1>1. IdentityInv /\ [Next]_vars
          => [\A c \in Customer : Registered(c) => LinkedRightly(c)]_vars
  <2> SUFFICES ASSUME IdentityInv, Next, NEW c \in Customer,
                      Registered(c), google'[c] # google[c]
               PROVE  LinkedRightly(c)
    BY DEF LinkedRightly
  <2>1. Steps
    BY NextSteps
  <2>2. \/ \E p \in Process : GoogleLink(p)
        \/ \E p \in Process, d \in Customer, g \in Subject, e \in Email,
              vouched \in BOOLEAN : GoogleCreate(p, d, g, e, vouched)
    BY <2>1
       DEF Steps, Quiet, Register, RegistrationFails, AskEmailChange,
           AskPasswordReset, ReadToken, PresentToken, Consume, RefuseEmailChange,
           GoogleMatch, MatchGoogle, GoogleLinkFails, Fail, SendMail, IssueToken,
           CreateCustomer, InsertCustomer, VerifyEmail, ConfirmEmailChange,
           ConfirmPasswordReset, CommitUse, Disable, Expire, rows
  <2>3. ASSUME NEW p \in Process, GoogleLink(p) PROVE LinkedRightly(c)
    <3>1. /\ At(p, "linking") /\ Linkable(p)
          /\ google' = [google EXCEPT ![request[p].customer] = request[p].subject]
      BY <2>3 DEF GoogleLink
    <3>2. request[p].vouched /\ Settled(request[p].customer, request[p].email)
      BY <3>1 DEF At, IdentityInv, RequestsOK, RequestOK
    <3>3. c = request[p].customer /\ google'[c] = request[p].subject
      BY <3>1 DEF IdentityInv, TypeOK
    <3> QED BY <3>1, <3>2, <3>3 DEF LinkedRightly, Linkable, Settled
  <2>4. ASSUME NEW p \in Process, NEW d \in Customer, NEW g \in Subject,
               NEW e \in Email, NEW vouched \in BOOLEAN,
               GoogleCreate(p, d, g, e, vouched)
        PROVE  FALSE
    BY <2>4 DEF GoogleCreate, IdentityInv, TypeOK
  <2> QED BY <2>2, <2>3, <2>4
<1> QED BY <1>1, IdentityInvariance, PTL DEF Spec, GoogleNeverTakesOver
=============================================================================
