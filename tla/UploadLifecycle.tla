-------------------------- MODULE UploadLifecycle --------------------------
(***************************************************************************)
(* What the media module promises about one upload, as its models and      *)
(* docstrings put it: an upload is requested, then settles once, as ready  *)
(* or as rejected.  A ready upload serves derivatives made from one        *)
(* acceptable object, and never any other; only a ready upload belongs to  *)
(* a product.  MediaPipeline is shown to implement this specification.     *)
(***************************************************************************)
CONSTANTS
    Upload,        \* the MediaUpload rows
    Content,       \* the bytes a client may upload
    Product,
    Derivative,    \* the public files made from one upload
    Acceptable,    \* pairs <<u, c>>: c may be served as upload u
    NoContent, NoProduct

VARIABLES
    state,         \* Upload -> absent, pending, ready or rejected
    served,        \* Upload -> Derivative -> the content it was made from
    owner          \* Upload -> the product it is attached to

vars == <<state, served, owner>>

Nothing == [k \in Derivative |-> NoContent]

Init ==
    /\ state  = [u \in Upload |-> "absent"]
    /\ served = [u \in Upload |-> Nothing]
    /\ owner  = [u \in Upload |-> NoProduct]

Create(u) ==
    /\ state[u] = "absent"
    /\ state' = [state EXCEPT ![u] = "pending"]
    /\ UNCHANGED <<served, owner>>

\* All derivatives appear in one step, made from the same content.
Accept(u, c) ==
    /\ state[u] = "pending"
    /\ <<u, c>> \in Acceptable
    /\ state'  = [state EXCEPT ![u] = "ready"]
    /\ served' = [served EXCEPT ![u] = [k \in Derivative |-> c]]
    /\ UNCHANGED owner

Reject(u) ==
    /\ state[u] = "pending"
    /\ state' = [state EXCEPT ![u] = "rejected"]
    /\ UNCHANGED <<served, owner>>

Attach(u, p) ==
    /\ state[u] = "ready"
    /\ owner' = [owner EXCEPT ![u] = p]
    /\ UNCHANGED <<state, served>>

Next ==
    \E u \in Upload :
        \/ Create(u)
        \/ \E c \in Content : Accept(u, c)
        \/ Reject(u)
        \/ \E p \in Product : Attach(u, p)

Spec == Init /\ [][Next]_vars
=============================================================================
