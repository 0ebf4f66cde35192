---------------------------- MODULE SessionChains ----------------------------
(***************************************************************************)
(* What a customer is promised about refresh sessions, as the docstrings   *)
(* and comments of the accounts module put it.  A login opens a chain of   *)
(* sessions.  Each refresh adds one session to the chain of the same       *)
(* customer, in the place of a revoked one, and no chain forks unless a    *)
(* token was presented twice at once.  Disabling a customer is one step    *)
(* that closes every chain there is: what is usable afterwards was issued  *)
(* afterwards.  Sessions is shown to implement this specification.         *)
(***************************************************************************)
CONSTANTS
    Customer,
    Session,
    NoCustomer, NoSession

VARIABLES
    state,         \* Session -> absent, live or revoked
    owner,         \* Session -> the customer it was issued to
    parent,        \* Session -> the session it stands in the place of
    shared,        \* sessions presented twice at once
    disabled,      \* customers disabled at least once
    stray          \* sessions issued to a customer since their disabling

vars == <<state, owner, parent, shared, disabled, stray>>

Live == {s \in Session : state[s] = "live"}
OwnedBy(c) == {s \in Session : owner[s] = c}
Successors(t) == {s \in Session : parent[s] = t}

Init ==
    /\ state = [s \in Session |-> "absent"]
    /\ owner = [s \in Session |-> NoCustomer]
    /\ parent = [s \in Session |-> NoSession]
    /\ shared = {}
    /\ disabled = {}
    /\ stray = {}

\* A new session of a customer, in the place of t if t is a session.
Issue(s, c, t) ==
    /\ state[s] = "absent"
    /\ state' = [state EXCEPT ![s] = "live"]
    /\ owner' = [owner EXCEPT ![s] = c]
    /\ parent' = [parent EXCEPT ![s] = t]
    /\ stray' = stray \cup {x \in {s} : c \in disabled}
    /\ UNCHANGED <<shared, disabled>>

Open(s, c) == Issue(s, c, NoSession)

\* The place is free: its holder is revoked and nobody else has taken it.
Succeed(s, t) ==
    /\ state[t] = "revoked"
    /\ Successors(t) = {} \/ t \in shared
    /\ Issue(s, owner[t], t)

\* Some sessions of one customer end, by a refresh or by the customer's wish.
Revoke(c, ended) ==
    /\ ended \subseteq Live \cap OwnedBy(c)
    /\ state' = [s \in Session |-> IF s \in ended THEN "revoked" ELSE state[s]]
    /\ UNCHANGED <<owner, parent, shared, disabled, stray>>

Share(t) ==
    /\ t \in Live
    /\ shared' = shared \cup {t}
    /\ UNCHANGED <<state, owner, parent, disabled, stray>>

Disable(c) ==
    /\ state' = [s \in Session |-> IF s \in Live \cap OwnedBy(c)
                                   THEN "revoked" ELSE state[s]]
    /\ disabled' = disabled \cup {c}
    /\ stray' = stray \ OwnedBy(c)
    /\ UNCHANGED <<owner, parent, shared>>

Next ==
    \/ \E c \in Customer :
        \/ \E s \in Session : Open(s, c)
        \/ \E ended \in SUBSET Session : Revoke(c, ended)
        \/ Disable(c)
    \/ \E s, t \in Session : Succeed(s, t)
    \/ \E t \in Session : Share(t)

Spec == Init /\ [][Next]_vars

-----------------------------------------------------------------------------
(* What follows for everything that implements this specification.         *)

\* A session takes the place of a revoked one of the same customer, and a place
\* is taken once unless it was shared (rotate_refresh_token).
OnePlace ==
    \A s, t \in Session : parent[s] # NoSession =>
        /\ state[parent[s]] = "revoked"
        /\ owner[parent[s]] = owner[s]
        /\ parent[t] = parent[s] => s = t \/ parent[s] \in shared

\* Whatever a disabled customer has left was issued since the disabling, expired
\* or not (disable_customer).
Closed == \A c \in disabled : Live \cap OwnedBy(c) \subseteq stray
=============================================================================
