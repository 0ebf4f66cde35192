----------------------- MODULE VariantAttributes_proofs -----------------------
(***************************************************************************)
(* Proofs about VariantAttributes, for any number of variants, values and  *)
(* transactions.                                                           *)
(*                                                                         *)
(* The database's locks keep what two open transactions have written apart *)
(* (PairOK); what one of them relies on is in RequestOK.                   *)
(***************************************************************************)
EXTENDS VariantAttributes, FiniteSetTheorems, WellFoundedInduction, TLAPS

Request == [at : Point, variant : Variant \cup {NoVariant}, values : Seq(Value),
            done : Nat, victims : SUBSET Value, overlaps : BOOLEAN]

\* What TypeOK says of a request beyond its type.
ShapeOK(r) ==
    /\ r.variant \in Variant <=> r.at # "idle"
    /\ OnePerAttribute(r.values)
    /\ r.done <= Len(r.values)
    /\ r.at # "idle" => r.victims \subseteq rows[r.variant]

RequestOK(r) ==
    \* The rows inserted so far do not meet those that will be left.
    /\ r.at \in {"inserting", "committing"} =>
          \A i \in 1..r.done : \A x \in rows[r.variant] \ r.victims :
              Attribute(x) # Attribute(r.values[i])
    \* A transaction that has the variant to itself replaces all its rows.
    /\ r.at \in {"deleting", "inserting", "committing"} /\ ~r.overlaps =>
          r.victims = rows[r.variant]
    /\ r.at \in {"idle", "checked", "deleting"} => r.done = 0
    \* The key written but not committed is nobody else's.
    /\ r.at = "committing" =>
          /\ r.done = Len(r.values)
          /\ r.done <= MaxValues
          /\ ToSet(r.values) # {} =>
                \A u \in Variant \ {r.variant} : key[u] # ToSet(r.values)

RequestsOK == \A p \in Process : RequestOK(request[p])

\* r and s are transactions of two processes.
PairOK(r, s) ==
    /\ r.at # "idle" /\ s.variant = r.variant =>
          /\ r.overlaps
          /\ \A i \in 1..r.done, j \in 1..s.done :
                Attribute(r.values[i]) # Attribute(s.values[j])
    /\ r.at = "committing" /\ s.at = "committing" =>
          /\ r.variant # s.variant
          /\ ToSet(r.values) # {} => ToSet(r.values) # ToSet(s.values)

PairsOK ==
    \A p, q \in Process : p # q => PairOK(request[p], request[q])

VariantInv ==
    /\ TypeOK
    /\ RequestsOK
    /\ PairsOK
    /\ CombinationsDistinct
    /\ KeyIsAttached
    /\ DesyncNeedsOverlap

-----------------------------------------------------------------------------
LEMMA InitHolds == Init => VariantInv
<1> SUFFICES ASSUME Init PROVE VariantInv
  OBVIOUS
<1> USE VariantAttributesAssumption DEF Init
<1>1. TypeOK
  BY DEF TypeOK, Idle, Point, OnePerAttribute, Open, At
<1>2. RequestsOK /\ PairsOK
  BY DEF RequestsOK, PairsOK, RequestOK, PairOK, Idle
<1>3. CombinationsDistinct /\ KeyIsAttached /\ DesyncNeedsOverlap
  BY DEF CombinationsDistinct, KeyIsAttached, DesyncNeedsOverlap
<1> QED BY <1>1, <1>2, <1>3 DEF VariantInv

-----------------------------------------------------------------------------
(* Steps that change p's request alone.                                    *)

OnlyRequest(p) ==
    /\ request' \in [Process -> Request]
    /\ \A q \in Process \ {p} : request'[q] = request[q]
    /\ UNCHANGED <<rows, key, overlapped>>

LEMMA RequestKeeps ==
    ASSUME VariantInv, NEW p \in Process, OnlyRequest(p),
           ShapeOK(request'[p]), RequestOK(request'[p]),
           \A q \in Process \ {p} :
               PairOK(request[q], request'[p]) /\ PairOK(request'[p], request[q])
    PROVE  VariantInv'
<1> USE DEF VariantInv, OnlyRequest
<1>1. TypeOK'
  BY DEF TypeOK, Request, Open, At, ShapeOK
<1>2. RequestsOK'
  <2>1. ASSUME NEW q \in Process PROVE RequestOK(request'[q])
    BY DEF RequestsOK
  <2> QED BY <2>1 DEF RequestsOK, RequestOK
<1>3. PairsOK'
  <2>1. ASSUME NEW q \in Process, NEW s \in Process, q # s
        PROVE  PairOK(request'[q], request'[s])
    BY <2>1 DEF PairsOK
  <2> QED BY <2>1 DEF PairsOK, PairOK
<1>4. CombinationsDistinct' /\ KeyIsAttached' /\ DesyncNeedsOverlap'
  BY DEF CombinationsDistinct, KeyIsAttached, DesyncNeedsOverlap
<1> QED BY <1>1, <1>2, <1>3, <1>4

LEMMA RollbackKeeps ==
    ASSUME VariantInv, NEW p \in Process, Rollback(p) PROVE VariantInv'
<1> USE VariantAttributesAssumption
<1>1. request'[p] = Idle /\ OnlyRequest(p)
  BY DEF VariantInv, Rollback, OnlyRequest, TypeOK, Request, Idle, Point
<1>2. \A q \in Process \ {p} : request[q].variant # NoVariant \/ request[q].at = "idle"
  BY DEF VariantInv, TypeOK, Open, At
<1>3. \A q \in Process \ {p} : PairOK(request[q], Idle) /\ PairOK(Idle, request[q])
  BY <1>2 DEF PairOK, Idle
<1>4. ShapeOK(Idle) /\ RequestOK(Idle)
  BY DEF ShapeOK, RequestOK, Idle, OnePerAttribute
<1> QED
  BY <1>1, <1>3, <1>4, RequestKeeps
-----------------------------------------------------------------------------
(* One lemma per statement of the transaction.                             *)

\* A request that shares p's variant has begun, and is another one's.
LEMMA SharesSymmetric ==
    ASSUME VariantInv, NEW p \in Process, NEW q \in Process \ {p},
           request[p].at # "idle", request[q].variant = request[p].variant
    PROVE  Shares(p, q) /\ request[q].at # "idle" /\ request[q].overlaps
BY DEF VariantInv, TypeOK, Shares, Open, At, PairsOK, PairOK

LEMMA BeginKeeps ==
    ASSUME VariantInv, NEW p \in Process, NEW call \in Calls,
           Begin(p, call[1], call[2])
    PROVE  VariantInv'
<1> DEFINE v == call[1]
           values == call[2]
           rivals == {q \in Process : request[q].variant = v}
<1>0. TypeOK /\ RequestsOK /\ PairsOK
  BY DEF VariantInv
<1>1. v \in Variant /\ values \in Seq(Value)
  BY VariantAttributesAssumption
<1>2. /\ request' = [q \in Process |->
            IF q = p THEN [Idle EXCEPT !.at = "checked", !.variant = v,
                                       !.values = values, !.overlaps = rivals # {}]
            ELSE IF q \in rivals THEN [request[q] EXCEPT !.overlaps = TRUE]
                 ELSE request[q]]
      /\ OnePerAttribute(values)
  BY DEF Begin
<1>11. request[p].at = "idle" /\ UNCHANGED <<rows, key, overlapped>>
  BY DEF Begin, At
<1> HIDE DEF v, values
<1>3. p \notin rivals
  BY <1>0, <1>1, <1>11 DEF TypeOK, Open, At
<1>4. /\ request'[p].at = "checked" /\ request'[p].variant = v
      /\ request'[p].values = values /\ request'[p].done = 0
      /\ request'[p].victims = {} /\ (rivals # {} => request'[p].overlaps)
      /\ request'[p] \in Request
  <2> HIDE DEF rivals
  <2> QED BY <1>1, <1>2 DEF Idle, Request, Point
<1>5. ASSUME NEW q \in Process \ {p}
      PROVE  /\ request'[q].at = request[q].at
             /\ request'[q].variant = request[q].variant
             /\ request'[q].values = request[q].values
             /\ request'[q].done = request[q].done
             /\ request'[q].victims = request[q].victims
             /\ request[q].overlaps => request'[q].overlaps
             /\ request[q].variant = v => request'[q].overlaps
             /\ request'[q] \in Request
  <2>1. request[q] \in Request
    BY <1>0 DEF TypeOK, Request
  <2>2. CASE q \in rivals
    <3>1. request'[q] = [request[q] EXCEPT !.overlaps = TRUE]
      BY <1>2, <2>2
    <3> QED BY <2>1, <3>1 DEF Request
  <2>3. CASE q \notin rivals
    BY <1>2, <2>1, <2>3
  <2> QED BY <2>2, <2>3
<1>6. request' \in [Process -> Request]
  <2>1. \A q \in Process : request'[q] \in Request
    BY <1>4, <1>5
  <2>2. request' = [q \in Process |-> request'[q]]
    BY <1>2
  <2> QED BY <2>1, <2>2
<1>7. TypeOK'
  <2>1. OnePerAttribute(values)
    BY <1>2
  <2>2. ShapeOK(request'[p])
    BY <1>1, <1>4, <2>1 DEF ShapeOK
  <2>3. ASSUME NEW q \in Process \ {p} PROVE ShapeOK(request'[q])
    BY <1>0, <1>5 DEF TypeOK, ShapeOK, Open, At
  <2> QED
    BY <1>0, <1>11, <1>6, <2>2, <2>3 DEF TypeOK, ShapeOK, Open, At, Request
<1>8. RequestsOK'
  <2>1. RequestOK(request'[p])
    BY <1>4 DEF RequestOK
  <2>2. ASSUME NEW q \in Process \ {p} PROVE RequestOK(request'[q])
    <3>1. RequestOK(request[q])
      BY <1>0 DEF RequestsOK
    <3> HIDE DEF rivals
    <3> QED BY <1>5, <3>1 DEF RequestOK
  <2> QED
    BY <1>11, <2>1, <2>2 DEF RequestsOK, RequestOK
<1>9. PairsOK'
  <2>1. ASSUME NEW q \in Process \ {p}
        PROVE  PairOK(request'[p], request'[q]) /\ PairOK(request'[q], request'[p])
    <3>1. request'[q].variant = v => request'[p].overlaps
      BY <1>4, <1>5
    <3>2. request'[q].variant = v => request'[q].overlaps
      BY <1>5
    <3>3. \A i, j : ~(i \in 1..request'[p].done) /\ request'[p].at # "committing"
      BY <1>4
    <3> HIDE DEF rivals
    <3> QED BY <1>4, <3>1, <3>2, <3>3 DEF PairOK
  <2>2. ASSUME NEW q \in Process \ {p}, NEW s \in Process \ {p}, q # s
        PROVE  PairOK(request'[q], request'[s])
    BY <1>0, <1>5, <2>2 DEF PairsOK, PairOK
  <2> QED BY <2>1, <2>2 DEF PairsOK, PairOK
<1>10. CombinationsDistinct' /\ KeyIsAttached' /\ DesyncNeedsOverlap'
  BY <1>11 DEF VariantInv, CombinationsDistinct, KeyIsAttached, DesyncNeedsOverlap
<1> QED BY <1>7, <1>8, <1>9, <1>10 DEF VariantInv

\* s is r after a step that changes neither its variant nor its values.
Same(r, s) ==
    s.variant = r.variant /\ s.values = r.values /\ s.overlaps = r.overlaps

LEMMA FindRowsKeeps ==
    ASSUME VariantInv, NEW p \in Process, FindRows(p) PROVE VariantInv'
<1> DEFINE r == request[p]
<1>0. TypeOK /\ RequestOK(r) /\ r \in Request /\ r.at = "checked" /\ r.variant \in Variant
  BY DEF VariantInv, RequestsOK, TypeOK, Request, FindRows, At, Open
<1>1. /\ OnlyRequest(p)
      /\ request'[p].at = "deleting" /\ request'[p].victims = rows[r.variant]
      /\ request'[p].done = r.done /\ Same(r, request'[p])
  <2>1. request' = [request EXCEPT ![p].at = "deleting", ![p].victims = rows[r.variant]]
            /\ UNCHANGED <<rows, key, overlapped>>
    BY DEF FindRows
  <2>2. request \in [Process -> Request] /\ rows[r.variant] \in SUBSET Value
    BY <1>0 DEF TypeOK, Request
  <2> QED
    BY <2>1, <2>2 DEF OnlyRequest, Request, Point, Same
<1>2. ShapeOK(request'[p])
  BY <1>0, <1>1 DEF ShapeOK, Same, TypeOK, Open, At
<1>3. RequestOK(request'[p])
  BY <1>0, <1>1 DEF RequestOK, Same
<1>4. ASSUME NEW q \in Process \ {p}
      PROVE  PairOK(request[q], request'[p]) /\ PairOK(request'[p], request[q])
  BY <1>0, <1>1 DEF VariantInv, PairsOK, PairOK, Same
<1> QED BY <1>1, <1>2, <1>3, <1>4, RequestKeeps

LEMMA DeleteRowsKeeps ==
    ASSUME VariantInv, NEW p \in Process, DeleteRows(p) PROVE VariantInv'
<1> DEFINE r == request[p]
<1>0. TypeOK /\ RequestOK(r) /\ r \in Request /\ r.at = "deleting"
  BY DEF VariantInv, RequestsOK, TypeOK, Request, DeleteRows, At
<1>1. /\ OnlyRequest(p)
      /\ request'[p].at = "inserting" /\ request'[p].victims = r.victims
      /\ request'[p].done = r.done /\ Same(r, request'[p])
  <2>1. request' = [request EXCEPT ![p].at = "inserting"]
            /\ UNCHANGED <<rows, key, overlapped>>
    BY DEF DeleteRows, GoTo
  <2>2. request \in [Process -> Request]
    BY <1>0 DEF TypeOK, Request
  <2> QED
    BY <2>1, <2>2 DEF OnlyRequest, Request, Point, Same
<1>2. ShapeOK(request'[p])
  BY <1>0, <1>1 DEF ShapeOK, Same, TypeOK, Open, At
<1>3. RequestOK(request'[p])
  BY <1>0, <1>1 DEF RequestOK, Same
<1>4. ASSUME NEW q \in Process \ {p}
      PROVE  PairOK(request[q], request'[p]) /\ PairOK(request'[p], request[q])
  BY <1>0, <1>1 DEF VariantInv, PairsOK, PairOK, Same
<1> QED BY <1>1, <1>2, <1>3, <1>4, RequestKeeps

LEMMA InsertRowKeeps ==
    ASSUME VariantInv, NEW p \in Process, InsertRow(p) PROVE VariantInv'
<1> DEFINE r == request[p]
           x == r.values[r.done + 1]
<1>0. /\ TypeOK /\ RequestOK(r) /\ r \in Request /\ r.at = "inserting"
      /\ r.variant \in Variant /\ r.done < Len(r.values)
  BY DEF VariantInv, RequestsOK, TypeOK, Request, InsertRow, Inserting, At, Open
<1>1. /\ OnlyRequest(p)
      /\ request'[p].at = "inserting" /\ request'[p].victims = r.victims
      /\ request'[p].done = r.done + 1 /\ Same(r, request'[p])
  <2>1. request' = [request EXCEPT ![p].done = @ + 1] /\ UNCHANGED <<rows, key, overlapped>>
    BY DEF InsertRow
  <2>2. request \in [Process -> Request]
    BY <1>0 DEF TypeOK, Request
  <2>3. r.done + 1 \in Nat /\ r.at = "inserting"
    BY <1>0 DEF Request
  <2> QED
    BY <2>1, <2>2, <2>3 DEF OnlyRequest, Request, Same
<1>2. ShapeOK(request'[p])
  BY <1>0, <1>1 DEF ShapeOK, Same, TypeOK, Open, At, Request
<1>3. RequestOK(request'[p])
  <2>1. \A y \in rows[r.variant] \ r.victims : Attribute(y) # Attribute(x)
    BY DEF InsertRow, Clashes, Incoming
  <2>2. \A i \in 1..(r.done + 1) : i \in 1..r.done \/ i = r.done + 1
    BY <1>0 DEF Request
  <2> QED
    BY <1>0, <1>1, <2>1, <2>2 DEF RequestOK, Same
<1>4. ASSUME NEW q \in Process \ {p}
      PROVE  PairOK(request[q], request'[p]) /\ PairOK(request'[p], request[q])
  <2>1. CASE request[q].variant = r.variant
    <3>1. Shares(p, q) /\ request[q].overlaps /\ r.overlaps
      BY <1>0, <2>1, SharesSymmetric DEF VariantInv, PairsOK, PairOK
    <3>2. \A j \in 1..request[q].done : Attribute(request[q].values[j]) # Attribute(x)
      BY <1>0, <3>1 DEF InsertRow, InsertWaits, Inserted, Incoming, Inserting
    <3>3. \A i \in 1..(r.done + 1) : i \in 1..r.done \/ i = r.done + 1
      BY <1>0 DEF Request
    <3> QED
      BY <1>0, <1>1, <3>1, <3>2, <3>3 DEF VariantInv, PairsOK, PairOK, Same
  <2>2. CASE request[q].variant # r.variant
    BY <1>0, <1>1, <2>2 DEF PairOK, Same
  <2> QED BY <2>1, <2>2
<1> QED BY <1>1, <1>2, <1>3, <1>4, RequestKeeps

LEMMA SaveKeyKeeps ==
    ASSUME VariantInv, NEW p \in Process, SaveKey(p) PROVE VariantInv'
<1> DEFINE r == request[p]
<1>0. /\ TypeOK /\ RequestOK(r) /\ r \in Request /\ r.at = "inserting"
      /\ r.variant \in Variant /\ r.done = Len(r.values)
  BY DEF VariantInv, RequestsOK, TypeOK, Request, SaveKey, AtSave, Saving, At, Open
<1>1. /\ OnlyRequest(p)
      /\ request'[p].at = "committing" /\ request'[p].victims = r.victims
      /\ request'[p].done = r.done /\ Same(r, request'[p])
  <2>1. request' = [request EXCEPT ![p].at = "committing"]
            /\ UNCHANGED <<rows, key, overlapped>>
    BY DEF SaveKey, GoTo
  <2>2. request \in [Process -> Request]
    BY <1>0 DEF TypeOK, Request
  <2> QED
    BY <2>1, <2>2 DEF OnlyRequest, Request, Point, Same
<1>2. ShapeOK(request'[p])
  BY <1>0, <1>1 DEF ShapeOK, Same, TypeOK, Open, At
<1>3. RequestOK(request'[p])
  <2>1. Len(r.values) <= MaxValues
    BY <1>0, VariantAttributesAssumption DEF Request, SaveKey, Unsavable
  <2>2. ToSet(r.values) # {} => \A u \in Variant \ {r.variant} : key[u] # ToSet(r.values)
    BY DEF SaveKey, Unsavable, Wanted
  <2> QED BY <1>0, <1>1, <2>1, <2>2 DEF RequestOK, Same
<1>4. ASSUME NEW q \in Process \ {p}
      PROVE  PairOK(request[q], request'[p]) /\ PairOK(request'[p], request[q])
  <2>1. CASE request[q].at = "committing"
    <3>1. ~SaveWaits(p, q) /\ Saving(p)
      BY DEF SaveKey, AtSave
    <3>2. request[q].variant # r.variant
      BY <1>0, <2>1, <3>1, SharesSymmetric DEF SaveWaits, At
    <3>3. ToSet(r.values) # {} => ToSet(r.values) # ToSet(request[q].values)
      BY <2>1, <3>1 DEF SaveWaits, At, Wanted
    <3> QED BY <1>1, <3>2, <3>3 DEF PairOK, Same
  <2>2. CASE request[q].at # "committing"
    BY <1>0, <1>1, <2>2 DEF VariantInv, PairsOK, PairOK, Same
  <2> QED BY <2>1, <2>2
<1> QED BY <1>1, <1>2, <1>3, <1>4, RequestKeeps

LEMMA CommitKeeps ==
    ASSUME VariantInv, NEW p \in Process, Commit(p) PROVE VariantInv'
<1> DEFINE r == request[p]
           v == r.variant
           W == ToSet(r.values)
<1>0. /\ TypeOK /\ RequestsOK /\ PairsOK /\ ShapeOK(r) /\ RequestOK(r) /\ r \in Request
      /\ r.at = "committing" /\ r.done = Len(r.values) /\ v \in Variant
  BY DEF VariantInv, RequestsOK, RequestOK, TypeOK, ShapeOK, Request, Commit, At, Open
<1>1. W = {r.values[i] : i \in 1..Len(r.values)} /\ W \in SUBSET Value
  BY <1>0 DEF ToSet, Request
<1>2. /\ rows'[v] = (rows[v] \ r.victims) \cup W
      /\ \A u \in Variant \ {v} : rows'[u] = rows[u]
      /\ rows' \in [Variant -> SUBSET Value]
  <2>1. rows' = [rows EXCEPT ![v] = (@ \ Deleted(p)) \cup Inserted(p)]
    BY DEF Commit
  <2>2. Inserted(p) = W /\ Deleted(p) = r.victims
    BY <1>0, <1>1 DEF Inserted, Deleted, At
  <2>3. rows \in [Variant -> SUBSET Value]
    BY <1>0 DEF TypeOK
  <2> HIDE DEF W, r
  <2> QED BY <1>0, <1>1, <2>1, <2>2, <2>3
<1>3. /\ key'[v] = W
      /\ \A u \in Variant \ {v} : key'[u] = key[u]
      /\ key' \in [Variant -> SUBSET Value]
  <2>1. key' = [key EXCEPT ![v] = W]
    BY DEF Commit, Wanted
  <2>2. key \in [Variant -> SUBSET Value]
    BY <1>0 DEF TypeOK
  <2> HIDE DEF W, r
  <2> QED BY <1>0, <1>1, <2>1, <2>2
<1>4. /\ r.overlaps => v \in overlapped'
      /\ overlapped \ {v} \subseteq overlapped' /\ overlapped' \subseteq Variant
  BY <1>0 DEF Commit, TypeOK
<1>5. request'[p] = Idle
  BY DEF Commit
<1>6. ASSUME NEW q \in Process \ {p}
      PROVE  /\ request'[q] \in Request
             /\ request'[q].at = request[q].at
             /\ request'[q].done = request[q].done
             /\ Same(request[q], request'[q])
             /\ request[q].variant = v =>
                   request'[q].victims = request[q].victims \ r.victims
             /\ request[q].variant # v => request'[q].victims = request[q].victims
  <2>1. request[q] \in Request
    BY <1>0 DEF TypeOK, Request
  <2>2. CASE request[q].variant = v
    <3>1. Shares(p, q)
      BY <1>0, <2>2, SharesSymmetric
    <3>2. Deleted(p) = r.victims
      BY <1>0 DEF Deleted, At
    <3>3. request'[q] = [request[q] EXCEPT !.victims = @ \ r.victims]
      BY <3>1, <3>2 DEF Commit
    <3> QED BY <2>1, <2>2, <3>3 DEF Request, Same
  <2>3. CASE request[q].variant # v
    <3>1. request'[q] = request[q]
      BY <2>3 DEF Commit, Shares
    <3> QED BY <2>1, <2>3, <3>1 DEF Same
  <2> QED BY <2>2, <2>3
<1>7. request' \in [Process -> Request]
  <2>1. Idle \in Request
    BY VariantAttributesAssumption DEF Idle, Request, Point
  <2>2. request' = [q \in Process |-> request'[q]]
    BY DEF Commit
  <2> QED BY <1>5, <1>6, <2>1, <2>2
<1>8. ASSUME NEW q \in Process \ {p}, request[q].variant = v
      PROVE  /\ request[q].overlaps /\ request[q].at # "committing"
             /\ \A x \in W : \A i \in 1..request[q].done :
                   Attribute(x) # Attribute(request[q].values[i])
  <2>1. PairOK(r, request[q]) /\ PairOK(request[q], r) /\ request[q].at # "idle"
    BY <1>0, <1>8, SharesSymmetric DEF PairsOK
  <2> QED
    BY <1>0, <1>1, <1>8, <2>1 DEF PairOK
<1>9. TypeOK'
  <2>1. ShapeOK(Idle)'
    BY VariantAttributesAssumption DEF ShapeOK, Idle, OnePerAttribute
  <2>2. ASSUME NEW q \in Process \ {p} PROVE ShapeOK(request[q])'
    <3>1. ShapeOK(request[q])
      BY <1>0 DEF TypeOK, ShapeOK, Open, At
    <3> QED
      BY <1>2, <1>6, <3>1 DEF ShapeOK, Same
  <2>3. ASSUME NEW x \in rows'[v], NEW y \in rows'[v], Attribute(x) = Attribute(y)
        PROVE  x = y
    <3>1. \A a, b \in rows[v] : Attribute(a) = Attribute(b) => a = b
      BY <1>0 DEF TypeOK
    <3>2. \A a, b \in W : Attribute(a) = Attribute(b) => a = b
      BY <1>0, <1>1 DEF ShapeOK, OnePerAttribute
    <3>3. \A a \in rows[v] \ r.victims, b \in W : Attribute(a) # Attribute(b)
      BY <1>0, <1>1 DEF RequestOK
    <3> HIDE DEF W, v, r
    <3> QED BY <1>2, <2>3, <3>1, <3>2, <3>3
  <2>4. ASSUME NEW u \in Variant, NEW x \in rows'[u], NEW y \in rows'[u],
               Attribute(x) = Attribute(y)
        PROVE  x = y
    BY <1>0, <1>2, <2>3, <2>4 DEF TypeOK
  <2>5. \A q \in Process : ShapeOK(request[q])'
    BY <1>5, <2>1, <2>2
  <2> QED
    BY <1>2, <1>3, <1>4, <1>7, <2>4, <2>5 DEF TypeOK, ShapeOK, Open, At, Request
<1>10. RequestsOK'
  <2>1. RequestOK(Idle)'
    BY DEF RequestOK, Idle
  <2>2. ASSUME NEW q \in Process \ {p} PROVE RequestOK(request[q])'
    <3>1. RequestOK(request[q])
      BY <1>0 DEF RequestsOK
    <3>2. CASE request[q].variant = v
      <4> HIDE DEF W, v, r
      <4> QED BY <1>2, <1>6, <1>8, <3>1, <3>2 DEF RequestOK, Same
    <3>3. CASE request[q].variant # v
      <4>1. request[q].at = "committing" => request[q].variant \in Variant
        BY <1>0 DEF TypeOK, Open, At
      <4>2. request[q].at = "committing" /\ ToSet(request[q].values) # {}
                => ToSet(request[q].values) # W
        BY <1>0 DEF PairsOK, PairOK
      <4>3. request[q].at # "idle" => request[q].variant \in Variant
        BY <1>0 DEF TypeOK, Open, At
      <4> HIDE DEF W, v, r
      <4> QED
        BY <1>2, <1>3, <1>6, <3>1, <3>3, <4>2, <4>3 DEF RequestOK, Same
    <3> QED BY <3>2, <3>3
  <2> QED BY <1>5, <2>1, <2>2 DEF RequestsOK
<1>11. PairsOK'
  <2>1. ASSUME NEW q \in Process \ {p}
        PROVE  PairOK(request'[q], Idle) /\ PairOK(Idle, request'[q])
    BY <1>0, <1>6, VariantAttributesAssumption
       DEF PairOK, Idle, Same, TypeOK, Open, At
  <2>2. ASSUME NEW q \in Process \ {p}, NEW s \in Process \ {p}, q # s
        PROVE  PairOK(request'[q], request'[s])
    <3>1. PairOK(request[q], request[s])
      BY <1>0, <2>2 DEF PairsOK
    <3>2. Same(request[q], request'[q]) /\ Same(request[s], request'[s])
      BY <1>6
    <3>3. /\ request'[q].at = request[q].at /\ request'[q].done = request[q].done
          /\ request'[s].at = request[s].at /\ request'[s].done = request[s].done
      BY <1>6
    <3> HIDE DEF W, v, r
    <3> QED BY <3>1, <3>2, <3>3 DEF PairOK, Same
  <2> QED BY <1>5, <2>1, <2>2 DEF PairsOK, PairOK
<1>12. CombinationsDistinct'
  <2>1. \A u \in Variant \ {v} : W # {} => key[u] # W
    BY <1>0 DEF RequestOK
  <2> HIDE DEF W, v, r
  <2> QED
    BY <1>3, <2>1 DEF VariantInv, CombinationsDistinct
<1>13. KeyIsAttached' /\ DesyncNeedsOverlap'
  <2>1. ~r.overlaps => r.victims = rows[v]
    BY <1>0 DEF RequestOK
  <2> HIDE DEF W, v, r
  <2> QED
    BY <1>2, <1>3, <1>4, <2>1 DEF VariantInv, KeyIsAttached, DesyncNeedsOverlap
<1> QED BY <1>9, <1>10, <1>11, <1>12, <1>13 DEF VariantInv

-----------------------------------------------------------------------------
LEMMA InvariantHolds == Spec => []VariantInv
<1>1. ASSUME VariantInv, Next PROVE VariantInv'
  <2>1. ASSUME NEW p \in Process, Step(p) PROVE VariantInv'
    BY <1>1, <2>1, FindRowsKeeps, DeleteRowsKeeps, InsertRowKeeps, SaveKeyKeeps,
       CommitKeeps, RollbackKeeps
       DEF Step, InsertFails, SaveKeyFails, AbortDeadlocked
  <2>2. ASSUME NEW p \in Process, Crash(p) PROVE VariantInv'
    BY <1>1, <2>2, RollbackKeeps DEF Crash
  <2> QED BY <1>1, <2>1, <2>2, BeginKeeps DEF Next
<1>2. ASSUME VariantInv, UNCHANGED vars PROVE VariantInv'
  <2> USE <1>2 DEF vars, VariantInv
  <2>1. TypeOK'
    BY DEF TypeOK, Open, At
  <2>2. RequestsOK'
    BY DEF RequestsOK, RequestOK
  <2>3. PairsOK'
    BY DEF PairsOK, PairOK
  <2>4. CombinationsDistinct' /\ KeyIsAttached' /\ DesyncNeedsOverlap'
    BY DEF CombinationsDistinct, KeyIsAttached, DesyncNeedsOverlap
  <2> QED BY <2>1, <2>2, <2>3, <2>4
<1>3. VariantInv /\ [Next]_vars => VariantInv'
  BY <1>1, <1>2
<1> QED BY <1>3, InitHolds, PTL DEF Spec

\* Every variable keeps its type, and no variant ever has two committed values
\* of one attribute, for all variants, values and transactions.
THEOREM VariantTypeCorrect == Spec => []TypeOK
BY InvariantHolds, PTL DEF VariantInv

\* Two variants never have one combination of attributes, although each request
\* checks that before the other's key is committed.
THEOREM VariantCombinationsDistinct == Spec => []CombinationsDistinct
BY InvariantHolds, PTL DEF VariantInv

\* Every value the key encodes is attached to the variant.
THEOREM VariantKeyIsAttached == Spec => []KeyIsAttached
BY InvariantHolds, PTL DEF VariantInv

\* Rows and key part only when two updates of one variant overlap.
THEOREM VariantDesyncNeedsOverlap == Spec => []DesyncNeedsOverlap
BY InvariantHolds, PTL DEF VariantInv

-----------------------------------------------------------------------------
(* The atomic registry.                                                    *)

\* A sequence has finitely many elements, and at most as many as it is long.
LEMMA ToSetIsShort ==
    ASSUME NEW s \in Seq(Value)
    PROVE  Cardinality(ToSet(s)) \in Nat /\ Cardinality(ToSet(s)) <= Len(s)
<1> DEFINE f == [i \in 1..Len(s) |-> s[i]]
<1>1. ToSet(s) = {s[i] : i \in 1..Len(s)}
  BY DEF ToSet
<1>2. f \in [1..Len(s) -> ToSet(s)] /\ \A x \in ToSet(s) : \E i \in 1..Len(s) : f[i] = x
  BY <1>1
<1>3. f \in Surjection(1..Len(s), ToSet(s))
  BY <1>2 DEF Surjection
<1>4. IsFiniteSet(1..Len(s)) /\ Cardinality(1..Len(s)) = Len(s)
  <2>1. Len(s) \in Nat
    OBVIOUS
  <2> QED BY <2>1, FS_Interval
<1>5. IsFiniteSet(ToSet(s)) /\ Cardinality(ToSet(s)) <= Cardinality(1..Len(s))
  <2> HIDE DEF f
  <2> QED BY <1>3, <1>4, FS_Surjection
<1> QED BY <1>4, <1>5, FS_CardinalityType

\* The statements before the commit are invisible; the commit replaces or merges.
LEMMA CommitReplaces ==
    ASSUME VariantInv, NEW p \in Process, Commit(p)
    PROVE  Registry!Next
<1> DEFINE r == request[p]
           v == r.variant
           W == ToSet(r.values)
           kept == rows[v] \ r.victims
<1>1. /\ TypeOK /\ RequestOK(r) /\ r \in Request /\ OnePerAttribute(r.values)
      /\ r.at = "committing" /\ r.done = Len(r.values) /\ v \in Variant
  BY DEF VariantInv, RequestsOK, RequestOK, TypeOK, Request, Commit, At, Open
<1>2. W = {r.values[i] : i \in 1..Len(r.values)} /\ W \in SUBSET Value
  BY <1>1 DEF ToSet, Request
<1>3. Cardinality(W) <= MaxValues
  <2>1. Cardinality(W) \in Nat /\ Cardinality(W) <= Len(r.values)
    BY <1>1, ToSetIsShort DEF Request
  <2>2. Len(r.values) \in Nat /\ Len(r.values) <= MaxValues
    BY <1>1 DEF RequestOK, Request
  <2> HIDE DEF W
  <2> QED BY <2>1, <2>2, VariantAttributesAssumption
<1>4. Registry!Available(v, W)
  <2>1. Registry!Compatible(W, W)
    BY <1>1, <1>2 DEF Registry!Compatible, OnePerAttribute, Attribute
  <2>2. W # {} => \A u \in Variant \ {v} : key[u] # W
    BY <1>1 DEF RequestOK
  <2> QED BY <2>1, <2>2 DEF Registry!Available
<1>5. Registry!Compatible(W, kept)
  BY <1>1, <1>2 DEF Registry!Compatible, RequestOK, Attribute
<1>6. /\ rows' = [rows EXCEPT ![v] = W \cup kept]
      /\ key' = [key EXCEPT ![v] = W]
  <2>1. rows' = [rows EXCEPT ![v] = (@ \ Deleted(p)) \cup Inserted(p)]
    BY DEF Commit
  <2>2. Inserted(p) = W /\ Deleted(p) = r.victims
    BY <1>1, <1>2 DEF Inserted, Deleted, At
  <2>3. key' = [key EXCEPT ![v] = W]
    BY DEF Commit, Wanted
  <2>4. (rows[v] \ Deleted(p)) \cup Inserted(p) = W \cup kept
    BY <2>2
  <2> QED BY <2>1, <2>3, <2>4
<1>7. CASE r.overlaps
  <2>1. overlapped' = overlapped \cup {v} /\ kept \in SUBSET rows[v]
    BY <1>7 DEF Commit
  <2>2. Registry!Merge(v, W, kept)
    BY <1>5, <1>6, <1>4, <2>1 DEF Registry!Merge
  <2> QED BY <1>1, <1>2, <1>3, <2>1, <2>2 DEF Registry!Next
<1>8. CASE ~r.overlaps
  <2>1. kept = {} /\ overlapped' = overlapped \ {v}
    BY <1>1, <1>8 DEF RequestOK, Commit
  <2>2. rows' = [rows EXCEPT ![v] = W]
    BY <1>6, <2>1
  <2>3. Registry!Replace(v, W)
    BY <1>6, <1>4, <2>1, <2>2 DEF Registry!Replace
  <2> QED BY <1>1, <1>2, <1>3, <2>3 DEF Registry!Next
<1> QED BY <1>7, <1>8

LEMMA RegistryStep == VariantInv /\ [Next]_vars => [Registry!Next]_(Registry!vars)
<1> SUFFICES ASSUME VariantInv, [Next]_vars
             PROVE  Registry!Next \/ UNCHANGED Registry!vars
  OBVIOUS
<1>1. ASSUME NEW p \in Process, NEW call \in Calls, Begin(p, call[1], call[2])
      PROVE  UNCHANGED Registry!vars
  BY <1>1 DEF Begin, Registry!vars
<1>2. ASSUME NEW p \in Process, Rollback(p) PROVE UNCHANGED Registry!vars
  BY <1>2 DEF Rollback, Registry!vars
<1>3. ASSUME NEW p \in Process, FindRows(p) \/ DeleteRows(p) \/ InsertRow(p) \/ SaveKey(p)
      PROVE  UNCHANGED Registry!vars
  BY <1>3 DEF FindRows, DeleteRows, InsertRow, SaveKey, Registry!vars
<1>4. ASSUME NEW p \in Process, Step(p) PROVE Registry!Next \/ UNCHANGED Registry!vars
  BY <1>2, <1>3, <1>4, CommitReplaces DEF Step, InsertFails, SaveKeyFails, AbortDeadlocked
<1>5. CASE UNCHANGED vars
  BY <1>5 DEF vars, Registry!vars
<1> QED BY <1>1, <1>2, <1>4, <1>5 DEF Next, Crash

\* With its locks and constraints the transaction is atomic to everybody else, for
\* any number of them, but for rows that an overlapped update leaves
\* (set_variant_attributes).
THEOREM VariantImplementsRegistry == Spec => ImplementsRegistry
<1>1. Init => Registry!Init
  BY DEF Init, Registry!Init
<1> QED BY <1>1, RegistryStep, InvariantHolds, PTL
        DEF Spec, ImplementsRegistry, Registry!Spec

-----------------------------------------------------------------------------
(* What UpdatesEnd rests on besides fairness: steps of a transaction bring *)
(* it nearer to its end, and not all of those that wait are stuck.         *)

\* The statements and rows a transaction still has before it.
Left(p) ==
    CASE At(p, "checked") -> Len(request[p].values) + 3
      [] At(p, "deleting") -> Len(request[p].values) + 2
      [] At(p, "inserting") -> Len(request[p].values) + 1 - request[p].done
      [] OTHER -> 0

\* Each step of a transaction leaves it fewer statements, and what others do
\* gives it none (set_variant_attributes has no retry).
THEOREM UpdatesAdvance ==
    Spec => [][\A p \in Process : Open(p) /\ Open(p)' =>
                  /\ Left(p)' <= Left(p)
                  /\ Step(p) => Left(p)' < Left(p)]_vars
<1> DEFINE Nearer(p) == /\ Left(p)' <= Left(p)
                        /\ Step(p) => Left(p)' < Left(p)
<1>1. ASSUME TypeOK, NEW p \in Process, Next, Open(p), Open(p)' PROVE Nearer(p)
  <2> DEFINE r == request[p]
             n == Len(r.values)
  <2>1. /\ r.at \in {"checked", "deleting", "inserting", "committing"}
        /\ n \in Nat /\ r.done \in Nat /\ r.done <= n
    BY <1>1 DEF TypeOK, Point, Open, At
  <2>2. ASSUME request'[p].at = r.at, request'[p].values = r.values,
               request'[p].done = r.done, ~Step(p)
        PROVE  Nearer(p)
    <3>1. Left(p)' = Left(p)
      BY <2>2 DEF Left, At
    <3>2. Left(p) \in Nat
      BY <2>1 DEF Left, At
    <3> QED BY <2>2, <3>1, <3>2
  <2>3. ASSUME Step(p) PROVE Nearer(p)
    <3>1. CASE FindRows(p)
      <4>1. /\ r.at = "checked" /\ request'[p].at = "deleting"
            /\ request'[p].values = r.values
        BY <1>1, <3>1 DEF FindRows, TypeOK, At
      <4>2. Left(p) = n + 3 /\ Left(p)' = n + 2
        BY <4>1 DEF Left, At
      <4> QED BY <2>1, <4>2
    <3>2. CASE DeleteRows(p)
      <4>1. /\ r.at = "deleting" /\ request'[p].at = "inserting"
            /\ request'[p].values = r.values /\ request'[p].done = r.done
        BY <1>1, <3>2 DEF DeleteRows, GoTo, TypeOK, At
      <4>2. Left(p) = n + 2 /\ Left(p)' = n + 1 - r.done
        BY <4>1 DEF Left, At
      <4> QED BY <2>1, <4>2
    <3>3. CASE InsertRow(p)
      <4>1. /\ r.at = "inserting" /\ request'[p].at = "inserting"
            /\ request'[p].values = r.values /\ request'[p].done = r.done + 1
        BY <1>1, <3>3 DEF InsertRow, Inserting, TypeOK, At
      <4>2. Left(p) = n + 1 - r.done /\ Left(p)' = n + 1 - (r.done + 1)
        BY <4>1 DEF Left, At
      <4> QED BY <2>1, <4>2
    <3>4. CASE SaveKey(p)
      <4>1. r.at = "inserting" /\ request'[p].at = "committing"
        BY <1>1, <3>4 DEF SaveKey, AtSave, Saving, GoTo, TypeOK, At
      <4>2. Left(p) = n + 1 - r.done /\ Left(p)' = 0
        BY <4>1 DEF Left, At
      <4> QED BY <2>1, <4>2
    <3>5. CASE Commit(p)
      BY <1>1, <3>5 DEF Commit, Open, At, Idle
    <3>6. CASE Rollback(p)
      BY <1>1, <3>6 DEF Rollback, Open, At, Idle, TypeOK
    <3> QED BY <2>3, <3>1, <3>2, <3>3, <3>4, <3>5, <3>6
            DEF Step, InsertFails, SaveKeyFails, AbortDeadlocked
  <2>4. CASE \E call \in Calls : Begin(p, call[1], call[2])
    BY <1>1, <2>4 DEF Begin, Open
  <2>5. CASE Crash(p)
    BY <1>1, <2>5 DEF Crash, Rollback, Open, At, Idle, TypeOK
  <2>6. ASSUME NEW q \in Process, q # p,
               \/ \E call \in Calls : Begin(q, call[1], call[2])
               \/ Step(q)
               \/ Crash(q)
        PROVE  /\ request'[p].at = r.at /\ request'[p].values = r.values
               /\ request'[p].done = r.done
    <3>1. ASSUME NEW call \in Calls, Begin(q, call[1], call[2])
          PROVE  /\ request'[p].at = r.at /\ request'[p].values = r.values
                 /\ request'[p].done = r.done
      <4>1. request'[p] \in {r, [r EXCEPT !.overlaps = TRUE]}
        BY <2>6, <3>1 DEF Begin
      <4> QED BY <1>1, <4>1 DEF TypeOK
    <3>2. ASSUME Commit(q)
          PROVE  /\ request'[p].at = r.at /\ request'[p].values = r.values
                 /\ request'[p].done = r.done
      BY <1>1, <2>6, <3>2 DEF Commit, TypeOK
    <3>3. ASSUME FindRows(q) \/ DeleteRows(q) \/ InsertRow(q) \/ SaveKey(q) \/ Rollback(q)
          PROVE  request'[p] = r
      BY <1>1, <2>6, <3>3 DEF FindRows, DeleteRows, InsertRow, SaveKey, Rollback, GoTo, TypeOK
    <3> QED BY <2>6, <3>1, <3>2, <3>3
            DEF Step, InsertFails, SaveKeyFails, AbortDeadlocked, Crash
  <2>7. CASE ~Step(p)
    BY <1>1, <2>2, <2>4, <2>5, <2>6, <2>7 DEF Next
  <2> QED BY <2>3, <2>7
<1>2. TypeOK /\ [Next]_vars =>
        [\A p \in Process : Open(p) /\ Open(p)' => Nearer(p)]_vars
  <2> HIDE DEF Nearer
  <2> QED BY <1>1
<1> QED BY <1>2, VariantTypeCorrect, PTL DEF Spec

\* Follow those who wait in a finite set in which everybody waits for somebody:
\* the walk ends in a circle.
LEMMA WaitersFormACycle ==
    ASSUME NEW W, IsFiniteSet(W), W # {}, \A q \in W : \E r \in W : WaitsFor(q, r)
    PROVE  \E C \in SUBSET W :
              /\ C # {}
              /\ \A q \in C : /\ \E r \in C : WaitsFor(q, r)
                              /\ \E r \in C : WaitsFor(r, q)
<1> DEFINE Stuck == {C \in (SUBSET W) \ {{}} : \A q \in C : \E r \in C : WaitsFor(q, r)}
           Sizes == {Cardinality(C) : C \in Stuck}
           Less == OpToRel(<, Nat)
<1>1. Sizes \subseteq Nat /\ Sizes # {}
  <2>1. \A C \in Stuck : Cardinality(C) \in Nat
    BY FS_Subset, FS_CardinalityType
  <2>2. W \in Stuck
    OBVIOUS
  <2> HIDE DEF Stuck
  <2> QED BY <2>1, <2>2
<1>2. PICK C \in Stuck : \A D \in Stuck : ~(Cardinality(D) < Cardinality(C))
  <2>1. IsWellFoundedOn(Less, Nat)
    BY NatLessThanWellFounded, Zenon
  <2>2. PICK m \in Sizes : \A n \in Sizes : <<n, m>> \notin Less
    <3> HIDE DEF Less, Sizes
    <3> QED BY <1>1, <2>1, WFMin
  <2>3. \A n \in Sizes : ~(n < m)
    BY <1>1, <2>2 DEF OpToRel
  <2> HIDE DEF Stuck
  <2> QED BY <2>3
<1> DEFINE D == {r \in C : \E q \in C : WaitsFor(q, r)}
<1>3. D \in Stuck
  BY <1>2
<1>4. D = C
  <2>1. D \subseteq C /\ IsFiniteSet(C)
    BY <1>2, FS_Subset
  <2>2. Cardinality(C) \in Nat /\ Cardinality(D) \in Nat
    BY <1>2, <1>3, FS_Subset, FS_CardinalityType
  <2>3. Cardinality(D) = Cardinality(C)
    <3>1. Cardinality(D) <= Cardinality(C)
      BY <2>1, FS_Subset
    <3>2. ~(Cardinality(D) < Cardinality(C))
      BY <1>2, <1>3
    <3> HIDE DEF D
    <3> QED BY <2>2, <3>1, <3>2
  <2> QED BY <2>1, <2>3, FS_Subset
<1>5. \A r \in C : \E q \in C : WaitsFor(q, r)
  BY <1>4
<1>6. C \in SUBSET W /\ C # {} /\ \A q \in C : \E r \in C : WaitsFor(q, r)
  BY <1>2
<1> HIDE DEF D
<1> QED BY <1>5, <1>6

\* The guards of Step: the next statement has what it needs, or the detector has
\* found the transaction waiting in a circle.
CanStep(p) ==
    \/ At(p, "checked")
    \/ At(p, "deleting") /\ \A q \in Process : ~DeleteWaits(p, q)
    \/ Inserting(p) /\ \A q \in Process : ~InsertWaits(p, q)
    \/ AtSave(p)
    \/ At(p, "committing")
    \/ Deadlocked(p)

\* Whoever waits, waits in the end for somebody who can go on: among the
\* transactions that one waits for, directly or through others, there is always
\* one with a step to take, however many there are and whatever they insert in
\* whatever order (the locks of set_variant_attributes, the deadlock detector).
THEOREM NobodyWaitsInVain ==
    ASSUME IsFiniteSet(Process)
    PROVE  Spec => [](\A S \in SUBSET Process :
                        /\ \E p \in S : Open(p)
                        /\ \A p \in S, q \in Process : WaitsFor(p, q) => q \in S
                        => \E p \in S : CanStep(p))
<1> DEFINE Helped(S) ==
        /\ \E p \in S : Open(p)
        /\ \A p \in S, q \in Process : WaitsFor(p, q) => q \in S
        => \E p \in S : CanStep(p)
<1>1. ASSUME TypeOK, NEW S \in SUBSET Process, NEW o \in S, Open(o),
             \A p \in S, q \in Process : WaitsFor(p, q) => q \in S,
             \A p \in S : ~CanStep(p)
      PROVE  FALSE
  <2> DEFINE W == {p \in S : Open(p)}
  <2>1. \A p \in W : \E q \in W : WaitsFor(p, q)
    <3> SUFFICES ASSUME NEW p \in W PROVE \E q \in W : WaitsFor(p, q)
      OBVIOUS
    <3>1. \E q \in Process : WaitsFor(p, q)
      <4>1. /\ request[p].at \in {"checked", "deleting", "inserting", "committing"}
            /\ Len(request[p].values) \in Nat
            /\ request[p].done \in Nat /\ request[p].done <= Len(request[p].values)
        BY <1>1 DEF TypeOK, Point, Open, At
      <4>2. At(p, "deleting") \/ Inserting(p) \/ Saving(p)
        BY <1>1, <4>1 DEF CanStep, At, Inserting, Saving
      <4> QED BY <1>1, <4>2 DEF CanStep, AtSave, WaitsFor
    <3>2. \A q \in Process : WaitsFor(p, q) => Open(q)
      BY DEF WaitsFor, DeleteWaits, InsertWaits, SaveWaits, Shares, Open, At
    <3> QED BY <1>1, <3>1, <3>2
  <2>2. IsFiniteSet(W) /\ W # {}
    BY <1>1, FS_Subset
  <2>3. PICK C \in SUBSET W :
          /\ C # {}
          /\ \A q \in C : /\ \E r \in C : WaitsFor(q, r)
                          /\ \E r \in C : WaitsFor(r, q)
    <3> HIDE DEF W
    <3> QED BY <2>1, <2>2, WaitersFormACycle
  <2>4. PICK p \in C : Deadlocked(p)
    BY <2>3 DEF Deadlocked
  <2> QED BY <1>1, <2>4 DEF CanStep
<1>2. TypeOK => \A S \in SUBSET Process : Helped(S)
  BY <1>1
<1> QED BY <1>2, VariantTypeCorrect, PTL
===============================================================================
