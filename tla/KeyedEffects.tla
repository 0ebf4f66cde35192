---------------------------- MODULE KeyedEffects ----------------------------
(***************************************************************************)
(* What an Idempotency-Key promises, as common/db/idempotency.py puts it:  *)
(* "same actor + key + request body -> same stored response, replayed, no  *)
(* new side effect".  A request is carried out and its response kept in    *)
(* one step; while the response is kept, requests of the same key have no  *)
(* effect and only a like one is answered; when its lifetime is over the   *)
(* key is free again.  StaffAdmin is shown to implement this specification *)
(* as long as nobody works with a key while another request, or one that   *)
(* died, has its response still to store.                                  *)
(***************************************************************************)
EXTENDS Sequences

CONSTANTS
    Slot,          \* a key, as one actor uses it for one action
    Body,          \* what requests ask for: records with a target and data
    Alike(_, _, _) \* for a slot and two bodies: they count as one request

VARIABLES
    kept,          \* Slot -> the bodies whose response is kept, at most one
    log,           \* Slot -> the targets of the effects, oldest first
    answered       \* the requests that got a successful answer

vars == <<kept, log, answered>>

Init ==
    /\ kept = [k \in Slot |-> {}]
    /\ log = [k \in Slot |-> <<>>]
    /\ answered = {}

Perform(k, b) ==
    /\ kept[k] = {}
    /\ kept' = [kept EXCEPT ![k] = {b}]
    /\ log' = [log EXCEPT ![k] = Append(@, b.target)]
    /\ UNCHANGED answered

\* The first answer, and every replay.
Answer(k, b) ==
    /\ \E d \in kept[k] : Alike(k, b, d)
    /\ answered' = answered \cup {[slot |-> k, target |-> b.target, data |-> b.data]}
    /\ UNCHANGED <<kept, log>>

Forget(k) ==
    /\ kept' = [kept EXCEPT ![k] = {}]
    /\ UNCHANGED <<log, answered>>

Next ==
    \E k \in Slot :
        \/ \E b \in Body : Perform(k, b) \/ Answer(k, b)
        \/ Forget(k)

Spec == Init /\ [][Next]_vars
=============================================================================
