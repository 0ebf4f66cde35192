-------------------------- MODULE VariantAttributes --------------------------
(***************************************************************************)
(* set_variant_attributes: the attribute values attached to the variants   *)
(* of one product, and the key that encodes them.                          *)
(*                                                                         *)
(* The service is one transaction under PostgreSQL's READ COMMITTED: every *)
(* statement reads what is committed when it starts, waits for rows and    *)
(* index entries that another open transaction has written, and goes on    *)
(* when that one has ended.  A request is one action per statement (the    *)
(* bulk insert: one per row), and commits or rolls back as a whole.        *)
(***************************************************************************)
EXTENDS Naturals, FiniteSets, SequencesExt

CONSTANTS
    Variant,       \* the variants of the product
    Value,         \* attribute values: pairs of an attribute and a code
    Process,       \* callers of the service
    MaxValues,     \* how many ids the key's column can hold (6: 36 characters
                   \* each, joined by colons, in a CharField(max_length=255))
    Calls,         \* bound: the calls made, a variant and a list of values
    NoVariant

ASSUME VariantAttributesAssumption ==
    /\ MaxValues \in Nat
    /\ Calls \subseteq Variant \X Seq(Value)
    /\ NoVariant \notin Variant

VARIABLES
    rows,          \* Variant -> the committed VariantAttributeValue rows
    key,           \* Variant -> the set attribute_combination_key encodes
    request,       \* Process -> the transaction it has open: values in the
                   \* order given, the first done of them inserted, victims the
                   \* rows its DELETE found; overlaps is history: another
                   \* transaction on the variant was open meanwhile
    overlapped     \* history: variants whose last update overlapped another

vars == <<rows, key, request, overlapped>>

Attribute(x) == x[1]

\* No two values of one attribute, as DuplicateAttributeError demands.
OnePerAttribute(values) ==
    \A i, j \in DOMAIN values : Attribute(values[i]) = Attribute(values[j]) => i = j

Idle == [at |-> "idle", variant |-> NoVariant, values |-> <<>>, done |-> 0,
         victims |-> {}, overlaps |-> FALSE]

Point == {"idle", "checked", "deleting", "inserting", "committing"}

At(p, at) == request[p].at = at
Open(p) == ~At(p, "idle")

\* What the open transaction of p has written so far.
Wanted(p) == ToSet(request[p].values)
Inserted(p) == {request[p].values[i] : i \in 1..request[p].done}
Deleted(p) ==
    IF At(p, "inserting") \/ At(p, "committing") THEN request[p].victims ELSE {}

\* q works on p's variant too.
Shares(p, q) == q # p /\ Open(q) /\ request[q].variant = request[p].variant

TypeOK ==
    /\ rows \in [Variant -> SUBSET Value]
    /\ key \in [Variant -> SUBSET Value]
    /\ request \in [Process -> [at : Point, variant : Variant \cup {NoVariant},
                                values : Seq(Value), done : Nat,
                                victims : SUBSET Value, overlaps : BOOLEAN]]
    /\ overlapped \subseteq Variant
    /\ \A p \in Process :
        /\ request[p].variant \in Variant <=> Open(p)
        /\ OnePerAttribute(request[p].values)
        /\ request[p].done <= Len(request[p].values)
        /\ Open(p) => request[p].victims \subseteq rows[request[p].variant]
    \* unique_attribute_per_variant
    /\ \A v \in Variant : \A x, y \in rows[v] :
           Attribute(x) = Attribute(y) => x = y

Init ==
    /\ rows = [v \in Variant |-> {}]
    /\ key = [v \in Variant |-> {}]
    /\ request = [p \in Process |-> Idle]
    /\ overlapped = {}

-----------------------------------------------------------------------------
(* The statements of a transaction.                                        *)

GoTo(p, at) == request' = [request EXCEPT ![p].at = at]

Rollback(p) ==
    /\ request' = [request EXCEPT ![p] = Idle]
    /\ UNCHANGED <<rows, key, overlapped>>

\* The checks before the first write.
Begin(p, v, values) ==
    /\ At(p, "idle")
    /\ OnePerAttribute(values)
    /\ values # <<>> => \A u \in Variant \ {v} : key[u] # ToSet(values)
    /\ LET rivals == {q \in Process : request[q].variant = v}
       IN request' = [q \in Process |->
            IF q = p THEN [Idle EXCEPT !.at = "checked", !.variant = v,
                                       !.values = values, !.overlaps = rivals # {}]
            ELSE IF q \in rivals THEN [request[q] EXCEPT !.overlaps = TRUE]
                 ELSE request[q]]
    /\ UNCHANGED <<rows, key, overlapped>>

\* Slip: the old rows are left where they are.
FindNone(p) ==
    /\ At(p, "checked")
    /\ GoTo(p, "deleting")
    /\ UNCHANGED <<rows, key, overlapped>>

\* The DELETE takes its snapshot: it will never see rows committed later.
FindRows(p) ==
    /\ At(p, "checked")
    /\ request' = [request EXCEPT ![p].at = "deleting",
                                  ![p].victims = rows[request[p].variant]]
    /\ UNCHANGED <<rows, key, overlapped>>

\* q has deleted a row that p's DELETE has found.
DeleteWaits(p, q) ==
    /\ At(p, "deleting")
    /\ Shares(p, q)
    /\ Deleted(q) \cap request[p].victims # {}

\* Slip: without @transaction.atomic the DELETE commits on its own.
DeleteNow(p) ==
    /\ At(p, "deleting")
    /\ rows' = [rows EXCEPT ![request[p].variant] = @ \ request[p].victims]
    /\ request' = [request EXCEPT ![p].at = "inserting", ![p].victims = {}]
    /\ UNCHANGED <<key, overlapped>>

DeleteRows(p) ==
    /\ At(p, "deleting")
    /\ \A q \in Process : ~DeleteWaits(p, q)
    /\ GoTo(p, "inserting")
    /\ UNCHANGED <<rows, key, overlapped>>

Incoming(p) == request[p].values[request[p].done + 1]
Inserting(p) == At(p, "inserting") /\ request[p].done < Len(request[p].values)

\* q has inserted or deleted a row for the attribute p is about to insert.
InsertWaits(p, q) ==
    /\ Inserting(p)
    /\ Shares(p, q)
    /\ \E x \in Inserted(q) \cup Deleted(q) : Attribute(x) = Attribute(Incoming(p))

\* The variant has a row for the attribute, committed or p's own.
Clashes(p) ==
    \E x \in (rows[request[p].variant] \ request[p].victims) \cup Inserted(p) :
        Attribute(x) = Attribute(Incoming(p))

InsertRow(p) ==
    /\ Inserting(p)
    /\ \A q \in Process : ~InsertWaits(p, q)
    /\ ~Clashes(p)
    /\ request' = [request EXCEPT ![p].done = @ + 1]
    /\ UNCHANGED <<rows, key, overlapped>>

AtClash(p) ==
    /\ Inserting(p)
    /\ \A q \in Process : ~InsertWaits(p, q)
    /\ Clashes(p)

\* Slip: the insert is tried again until it succeeds.
RetryClash(p) == AtClash(p) /\ UNCHANGED vars

\* unique_attribute_per_variant is violated: the transaction fails.
InsertFails(p) == AtClash(p) /\ Rollback(p)

Saving(p) == At(p, "inserting") /\ request[p].done = Len(request[p].values)

\* q has updated p's variant, or has written or overwritten p's key elsewhere.
SaveWaits(p, q) ==
    /\ Saving(p)
    /\ q # p
    /\ At(q, "committing")
    /\ \/ Shares(p, q)
       \/ Wanted(p) # {} /\ Wanted(p) \in {Wanted(q), key[request[q].variant]}

\* "value too long", or unique_attribute_combination_per_product.
Unsavable(p) ==
    \/ Len(request[p].values) > MaxValues
    \/ Wanted(p) # {} /\ \E u \in Variant \ {request[p].variant} : key[u] = Wanted(p)

AtSave(p) == Saving(p) /\ \A q \in Process : ~SaveWaits(p, q)

\* Slip: only the checks at the beginning keep combinations apart.
SaveUnchecked(p) ==
    /\ AtSave(p)
    /\ Len(request[p].values) <= MaxValues
    /\ GoTo(p, "committing")
    /\ UNCHANGED <<rows, key, overlapped>>

SaveKey(p) ==
    /\ AtSave(p)
    /\ ~Unsavable(p)
    /\ GoTo(p, "committing")
    /\ UNCHANGED <<rows, key, overlapped>>

SaveKeyFails(p) == AtSave(p) /\ Unsavable(p) /\ Rollback(p)

\* Rows that are gone are no longer found by the DELETEs that waited for them.
Commit(p) ==
    LET v == request[p].variant
    IN /\ At(p, "committing")
       /\ rows' = [rows EXCEPT ![v] = (@ \ Deleted(p)) \cup Inserted(p)]
       /\ key' = [key EXCEPT ![v] = Wanted(p)]
       /\ request' = [q \in Process |->
            IF q = p THEN Idle
            ELSE IF Shares(p, q)
                 THEN [request[q] EXCEPT !.victims = @ \ Deleted(p)]
                 ELSE request[q]]
       /\ overlapped' = IF request[p].overlaps THEN overlapped \cup {v}
                        ELSE overlapped \ {v}

\* The caller or its connection dies.
Crash(p) == Open(p) /\ Rollback(p)

-----------------------------------------------------------------------------
(* PostgreSQL's deadlock detector aborts a transaction of a waiting cycle. *)

WaitsFor(p, q) == DeleteWaits(p, q) \/ InsertWaits(p, q) \/ SaveWaits(p, q)

Deadlocked(p) ==
    \E cycle \in SUBSET Process :
        /\ p \in cycle
        /\ \A q \in cycle : /\ \E r \in cycle : WaitsFor(q, r)
                            /\ \E r \in cycle : WaitsFor(r, q)

AbortDeadlocked(p) == Deadlocked(p) /\ Rollback(p)

-----------------------------------------------------------------------------
Step(p) ==
    \/ FindRows(p)
    \/ DeleteRows(p)
    \/ InsertRow(p)
    \/ InsertFails(p)
    \/ SaveKey(p)
    \/ SaveKeyFails(p)
    \/ Commit(p)
    \/ AbortDeadlocked(p)

Next ==
    \E p \in Process :
        \/ \E call \in Calls : Begin(p, call[1], call[2])
        \/ Step(p)
        \/ Crash(p)

\* A statement that can run is run; one that waits again and again is granted
\* its lock in turn, and the detector looks at every cycle.
Fairness == \A p \in Process : SF_vars(Step(p))

Spec == Init /\ [][Next]_vars /\ Fairness

-----------------------------------------------------------------------------
(* Properties.                                                             *)

\* @transaction.atomic keeps its word: to everybody else an update is one step
\* that replaces the variant's attributes by a combination nobody else has, or,
\* when it overlapped another update of the variant, leaves rows of both.
Registry == INSTANCE CombinationRegistry WITH
    Storable <- {s \in SUBSET Value : Cardinality(s) <= MaxValues},
    merged <- overlapped
ImplementsRegistry == Registry!Spec

\* "unique Attribute combination per Product is a real database constraint,
\* not just an application check race-prone under concurrent writes"
\* (set_variant_attributes.py:5): no interleaving gives two variants one key.
CombinationsDistinct ==
    \A u, v \in Variant : key[u] # {} /\ key[u] = key[v] => u = v

\* Every value the key encodes is attached to the variant, also after races,
\* failed inserts and rollbacks.
KeyIsAttached ==
    \A v \in Variant : key[v] \subseteq rows[v]

\* The key is "kept in sync" with the rows (variant.py:3) except when two
\* updates of the variant overlap: the second's DELETE does not see the rows
\* the first commits meanwhile, and both sets of rows stay.  The next update
\* that has the variant to itself repairs it.
DesyncNeedsOverlap ==
    \A v \in Variant : rows[v] # key[v] => v \in overlapped

\* Every update ends, committed or rolled back: transactions that insert the
\* same attributes in different orders and wait for one another included.
UpdatesEnd ==
    \A p \in Process : Open(p) ~> ~Open(p)
=============================================================================
