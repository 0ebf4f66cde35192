------------------------ MODULE CombinationRegistry ------------------------
(***************************************************************************)
(* What set_variant_attributes promises: the attributes of a variant are   *)
(* replaced as a whole and in one step, by a combination that the column   *)
(* holds and that no other variant of the product has.  What it does not   *)
(* promise is in Merge: two updates of one variant that overlap may leave  *)
(* rows of both, under the key of the later one.  VariantAttributes is     *)
(* shown to implement this specification.                                  *)
(***************************************************************************)
CONSTANTS
    Variant,       \* the variants of the product
    Storable       \* the combinations that the column holds: sets of pairs of
                   \* an attribute and a code

VARIABLES
    rows,          \* Variant -> the values attached to it
    key,           \* Variant -> its combination
    merged         \* variants whose rows may hold more than their combination

vars == <<rows, key, merged>>

Init ==
    /\ rows = [v \in Variant |-> {}]
    /\ key = [v \in Variant |-> {}]
    /\ merged = {}

\* One value per attribute, in two sets together.
Compatible(s, t) == \A x \in s, y \in t : x[1] = y[1] => x = y

Available(v, s) ==
    /\ Compatible(s, s)
    /\ s # {} => \A u \in Variant \ {v} : key[u] # s

Replace(v, s) ==
    /\ Available(v, s)
    /\ rows' = [rows EXCEPT ![v] = s]
    /\ key' = [key EXCEPT ![v] = s]
    /\ merged' = merged \ {v}

Merge(v, s, kept) ==
    /\ Available(v, s)
    /\ Compatible(s, kept)
    /\ rows' = [rows EXCEPT ![v] = s \cup kept]
    /\ key' = [key EXCEPT ![v] = s]
    /\ merged' = merged \cup {v}

Next ==
    \E v \in Variant, s \in Storable :
        \/ Replace(v, s)
        \/ \E kept \in SUBSET rows[v] : Merge(v, s, kept)

Spec == Init /\ [][Next]_vars
=============================================================================
