------------------------- MODULE CategoryTree_proofs -------------------------
(***************************************************************************)
(* The cycle check of the category tree is sound for any number of         *)
(* categories and processes, as long as no re-parenting is saved on a      *)
(* check that another one has overtaken.                                   *)
(***************************************************************************)
EXTENDS CategoryTree, FiniteSetTheorems, TLAPS

LEMMA TypeInvariance == Spec => []TypeOK
<1>1. Init => TypeOK
  BY DEF Init, TypeOK, Idle
<1>2. TypeOK /\ [Next]_vars => TypeOK'
  <2> SUFFICES ASSUME TypeOK, [Next]_vars PROVE TypeOK'
    OBVIOUS
  <2> USE DEF TypeOK
  <2>1. ASSUME NEW p \in Process, NEW c \in Category, NEW np \in Category \cup {Root},
               AssertAcyclic(p, c, np)
        PROVE  TypeOK'
    <3>1. PICK w \in Walking \cup Saving : worker' = [worker EXCEPT ![p] = w]
      BY <2>1 DEF AssertAcyclic, Walking, Saving
    <3> QED BY <2>1, <3>1 DEF AssertAcyclic, tree
  <2>2. ASSUME NEW p \in Process, NEW c \in Category, NEW np \in Category \cup {Root},
               CreateCategory(p, c, np) \/ ReparentCategory(p, c, np)
        PROVE  TypeOK'
    BY <2>1, <2>2 DEF CreateCategory, ReparentCategory
  <2>3. ASSUME NEW p \in Process, Step(p) PROVE TypeOK'
    <3>1. worker[p] \in Walking
      BY <2>3 DEF Step, Walking, Saving, Idle
    <3>2. PICK w \in {Idle} \cup Walking \cup Saving : worker' = [worker EXCEPT ![p] = w]
      <4>1. CASE worker[p].node \in worker[p].seen
        BY <2>3, <4>1 DEF Step
      <4>2. CASE worker[p].node \notin worker[p].seen /\ worker[p].up = Root
        BY <2>3, <3>1, <4>2 DEF Step, Walking, Saving
      <4>3. CASE worker[p].node \notin worker[p].seen /\ worker[p].up # Root
        BY <2>3, <3>1, <4>3 DEF Step, Walking, Saving
      <4> QED BY <4>1, <4>2, <4>3
    <3> QED BY <2>3, <3>2 DEF Step, tree, history
  <2>4. ASSUME NEW p \in Process, SaveParent(p) PROVE TypeOK'
    <3>1. worker[p] \in Saving
      BY <2>4 DEF SaveParent, Walking, Saving, Idle
    <3>2. overtaken' \subseteq Process /\ stale' \in BOOLEAN
      BY <2>4 DEF SaveParent, history
    <3> QED BY <2>4, <3>1, <3>2 DEF SaveParent, Saving
  <2>5. CASE UNCHANGED vars
    BY <2>5 DEF vars
  <2> QED BY <2>2, <2>3, <2>4, <2>5 DEF Next
<1> QED BY <1>1, <1>2, PTL DEF Spec

\* Every re-parenting and creation keeps the state well formed
\* (create_category, reparent_category).
THEOREM CategoryTypeCorrect == Spec => []TypeOK
BY TypeInvariance

-----------------------------------------------------------------------------
\* A category without a row has no parent and is nobody's parent, and walks
\* pass over rows.
Grounded ==
    /\ \A c \in Category \ rows : parent[c] = Root
    /\ \A c \in Category : parent[c] \in rows \cup {Root}
    /\ \A p \in Process :
        /\ worker[p].at # "idle" => worker[p].target \in rows \cup {Root}
        /\ worker[p].at = "walking" =>
            /\ worker[p].node \in rows
            /\ worker[p].up \in rows \cup {Root}
            /\ worker[p].seen \ {worker[p].category} \subseteq rows

\* What a walk that was not overtaken has passed leads to where it is.
WalkIsAPath ==
    \A p \in Process \ overtaken : worker[p].at = "walking" =>
        LET w == worker[p]
            path == (w.seen \ {w.category}) \cup {w.node} IN
        /\ w.category \in w.seen
        /\ w.target \in path
        /\ w.up = parent[w.node]
        /\ \A c \in w.seen \ {w.category} : parent[c] \in path

\* A set that holds the target and is closed under parents, without the
\* category that is about to be moved.
Above(c, t, S) ==
    /\ c \notin S
    /\ t \in S
    /\ \A x \in S : parent[x] \in S \cup {Root}
SaveIsSafe ==
    \A p \in Process \ overtaken : worker[p].at = "saving" /\ worker[p].target # Root =>
        \E S \in SUBSET rows : Above(worker[p].category, worker[p].target, S)

TreeInv ==
    /\ TypeOK
    /\ Grounded
    /\ WalkIsAPath
    /\ SaveIsSafe
    /\ CycleNeedsStaleCheck

\* The parent map after a save has no cycle when the moved
\* category does not lie on the way from its new parent to the root.
LEMMA MoveKeepsAcyclic ==
    ASSUME TypeOK, Acyclic, NEW c \in Category, NEW t \in Category \cup {Root},
           parent' = [parent EXCEPT ![c] = t],
           t # Root => \E S \in SUBSET Category : Above(c, t, S)
    PROVE  Acyclic'
<1> SUFFICES ASSUME NEW S \in (SUBSET Category) \ {{}}, \A x \in S : parent'[x] \in S
             PROVE  FALSE
  BY DEF Acyclic
<1>1. c \in S
  <2> SUFFICES ASSUME c \notin S PROVE FALSE
    OBVIOUS
  <2>1. \A x \in S : parent[x] \in S
    BY DEF TypeOK
  <2> QED BY <2>1 DEF Acyclic
<1>2. t \in S
  BY <1>1 DEF TypeOK
<1>3. PICK T \in SUBSET Category : Above(c, t, T)
  BY <1>2, CategoryTreeAssumption
<1>4. \A x \in S \cap T : parent[x] \in S \cap T
  BY <1>3, CategoryTreeAssumption DEF Above, TypeOK
<1>5. S \cap T \in (SUBSET Category) \ {{}}
  BY <1>2, <1>3 DEF Above
<1> QED BY <1>4, <1>5 DEF Acyclic

LEMMA TreeInvInit == Init => TreeInv
<1> SUFFICES ASSUME Init PROVE TreeInv
  OBVIOUS
<1>1. TypeOK
  BY DEF Init, TypeOK, Idle
<1>2. Grounded /\ WalkIsAPath /\ SaveIsSafe
  BY DEF Init, Grounded, WalkIsAPath, SaveIsSafe, Idle
<1>3. CycleNeedsStaleCheck
  BY CategoryTreeAssumption DEF Init, Acyclic, CycleNeedsStaleCheck
<1> QED BY <1>1, <1>2, <1>3 DEF TreeInv

\* What other processes know is not disturbed while p moves and the tree stays.
LEMMA OnlyOneMoves ==
    ASSUME TreeInv, TypeOK', NEW p \in Process, NEW w, worker' = [worker EXCEPT ![p] = w],
           UNCHANGED <<tree, stale>>, overtaken \ {p} \subseteq overtaken',
           w.at # "idle" => w.target \in rows \cup {Root},
           w.at = "walking" =>
                /\ w.node \in rows
                /\ w.up \in rows \cup {Root}
                /\ w.seen \ {w.category} \subseteq rows,
           w.at = "walking" /\ p \notin overtaken' =>
                /\ w.category \in w.seen
                /\ w.target \in (w.seen \ {w.category}) \cup {w.node}
                /\ w.up = parent[w.node]
                /\ \A c \in w.seen \ {w.category} :
                        parent[c] \in (w.seen \ {w.category}) \cup {w.node},
           w.at = "saving" /\ w.target # Root /\ p \notin overtaken' =>
                \E S \in SUBSET rows : Above(w.category, w.target, S)
    PROVE  TreeInv'
<1> USE DEF TreeInv
<1>1. rows' = rows /\ parent' = parent /\ stale' = stale
  BY DEF tree
<1>2. worker'[p] = w /\ \A q \in Process \ {p} : worker'[q] = worker[q]
  BY DEF TypeOK
<1>3. Grounded'
  BY <1>1, <1>2 DEF Grounded
<1>4. WalkIsAPath'
  <2> SUFFICES ASSUME NEW q \in Process, q \notin overtaken', worker'[q].at = "walking"
               PROVE  /\ worker'[q].category \in worker'[q].seen
                      /\ worker'[q].target \in (worker'[q].seen \ {worker'[q].category})
                                                  \cup {worker'[q].node}
                      /\ worker'[q].up = parent[worker'[q].node]
                      /\ \A c \in worker'[q].seen \ {worker'[q].category} :
                            parent[c] \in (worker'[q].seen \ {worker'[q].category})
                                            \cup {worker'[q].node}
    BY <1>1 DEF WalkIsAPath
  <2>1. CASE q = p
    BY <1>2, <2>1
  <2>2. CASE q # p
    BY <1>2, <2>2 DEF WalkIsAPath
  <2> QED BY <2>1, <2>2
<1>5. SaveIsSafe'
  <2> SUFFICES ASSUME NEW q \in Process, q \notin overtaken', worker'[q].at = "saving",
                      worker'[q].target # Root
               PROVE  \E S \in SUBSET rows : Above(worker'[q].category, worker'[q].target, S)
    BY <1>1 DEF SaveIsSafe, Above
  <2>1. CASE q = p
    BY <1>2, <2>1
  <2>2. CASE q # p
    BY <1>2, <2>2 DEF SaveIsSafe
  <2> QED BY <2>1, <2>2
<1>6. CycleNeedsStaleCheck'
  BY <1>1 DEF CycleNeedsStaleCheck, Acyclic
<1> QED BY <1>3, <1>4, <1>5, <1>6

LEMMA CheckBegins ==
    ASSUME TreeInv, TypeOK', NEW p \in Process, NEW c \in Category,
           NEW np \in Category \cup {Root}, AssertAcyclic(p, c, np)
    PROVE  TreeInv'
<1> USE DEF TreeInv
<1>1. UNCHANGED <<tree, stale>> /\ overtaken \ {p} \subseteq overtaken'
  BY DEF AssertAcyclic
<1>2. CASE np = Root
  <2> DEFINE w == [at |-> "saving", category |-> c, target |-> Root]
  <2>1. worker' = [worker EXCEPT ![p] = w]
    BY <1>2, CategoryTreeAssumption DEF AssertAcyclic, TypeOK
  <2> QED BY <1>1, <2>1, OnlyOneMoves
<1>3. CASE np # Root
  <2> DEFINE w == [at |-> "walking", category |-> c, target |-> np,
                   node |-> np, up |-> parent[np], seen |-> {c}]
  <2>1. worker' = [worker EXCEPT ![p] = w] /\ np \in rows \ {c}
    BY <1>3 DEF AssertAcyclic
  <2>2. parent[np] \in rows \cup {Root}
    BY <1>3 DEF Grounded
  <2> QED BY <1>1, <2>1, <2>2, OnlyOneMoves
<1> QED BY <1>2, <1>3

LEMMA CheckSteps ==
    ASSUME TreeInv, TypeOK', NEW p \in Process, Step(p)
    PROVE  TreeInv'
<1> USE DEF TreeInv
<1>1. UNCHANGED <<tree, stale>> /\ overtaken' = overtaken /\ worker[p].at = "walking"
  BY DEF Step, history
<1>2. worker[p] \in Walking
  BY <1>1 DEF TypeOK, Walking, Saving, Idle
<1>3. PICK old \in Walking : worker[p] = old
  BY <1>2
<1>4. /\ old.at = "walking"
      /\ old.node \in rows
      /\ old.up \in rows \cup {Root}
      /\ old.seen \ {old.category} \subseteq rows
      /\ old.target \in rows \cup {Root}
  BY <1>1, <1>3 DEF Grounded
<1>5. p \notin overtaken' =>
        /\ old.category \in old.seen
        /\ old.target \in (old.seen \ {old.category}) \cup {old.node}
        /\ old.up = parent[old.node]
        /\ \A c \in old.seen \ {old.category} :
                parent[c] \in (old.seen \ {old.category}) \cup {old.node}
  BY <1>1, <1>3 DEF WalkIsAPath
<1>6. CASE old.node \in old.seen
  <2>1. worker' = [worker EXCEPT ![p] = Idle]
    BY <1>3, <1>6 DEF Step
  <2> QED BY <1>1, <2>1, OnlyOneMoves DEF Idle
<1>7. CASE old.node \notin old.seen /\ old.up = Root
  <2> DEFINE w == [at |-> "saving", category |-> old.category, target |-> old.target]
  <2>1. worker' = [worker EXCEPT ![p] = w]
    BY <1>3, <1>7 DEF Step
  <2>2. PICK S \in SUBSET rows : S = (old.seen \ {old.category}) \cup {old.node}
    BY <1>4
  <2>3. p \notin overtaken' => Above(old.category, old.target, S)
    BY <1>5, <1>7, <2>2 DEF Above
  <2>4. /\ w.at = "saving" /\ w.category = old.category /\ w.target = old.target
    OBVIOUS
  <2> HIDE DEF w
  <2> QED BY <1>1, <1>4, <2>1, <2>3, <2>4, OnlyOneMoves
<1>8. CASE old.node \notin old.seen /\ old.up # Root
  <2>1. PICK w : w = [at |-> "walking", category |-> old.category, target |-> old.target,
                      node |-> old.up, up |-> parent[old.up],
                      seen |-> old.seen \cup {old.node}]
    OBVIOUS
  <2>2. worker' = [worker EXCEPT ![p] = w]
    BY <1>3, <1>8, <2>1 DEF Step, Walking
  <2>3. parent[old.up] \in rows \cup {Root} /\ old.up \in rows
    BY <1>4, <1>8 DEF Grounded, TypeOK
  <2>4. /\ w.at = "walking" /\ w.category = old.category /\ w.target = old.target
        /\ w.node = old.up /\ w.up = parent[old.up] /\ w.seen = old.seen \cup {old.node}
    BY <2>1
  <2>5. w.seen \ {w.category} \subseteq rows
    BY <1>4, <2>4
  <2>6. p \notin overtaken' =>
            /\ w.category \in w.seen
            /\ w.target \in (w.seen \ {w.category}) \cup {w.node}
            /\ w.up = parent[w.node]
            /\ \A c \in w.seen \ {w.category} :
                    parent[c] \in (w.seen \ {w.category}) \cup {w.node}
    BY <1>5, <1>8, <2>4
  <2> QED BY <1>1, <1>4, <2>2, <2>3, <2>4, <2>5, <2>6, OnlyOneMoves
<1> QED BY <1>6, <1>7, <1>8

LEMMA ParentSaved ==
    ASSUME TreeInv, TypeOK', NEW p \in Process, SaveParent(p)
    PROVE  TreeInv'
<1> USE DEF TreeInv
<1>1. worker[p] \in Saving
  BY DEF SaveParent, TypeOK, Walking, Saving, Idle
<1>2. PICK c \in Category, t \in Category \cup {Root} :
        worker[p].at = "saving" /\ worker[p].category = c /\ worker[p].target = t
  BY <1>1 DEF Saving
<1>3. /\ rows' = rows \cup {c}
      /\ parent' = [parent EXCEPT ![c] = t]
      /\ worker' = [worker EXCEPT ![p] = Idle]
  BY <1>2 DEF SaveParent
<1>4. worker'[p].at = "idle" /\ \A q \in Process \ {p} : worker'[q] = worker[q]
  BY <1>3 DEF TypeOK, Idle
<1>5. t \in rows \cup {Root} /\ rows \subseteq Category
  BY <1>2 DEF Grounded, TypeOK
<1>6. \A x \in Category : parent'[x] = IF x = c THEN t ELSE parent[x]
  BY <1>3 DEF TypeOK
<1>7. Grounded'
  BY <1>3, <1>4, <1>5, <1>6 DEF Grounded
<1>8. CASE c \in rows
  <2>1. overtaken' = Process \ {p} /\ (stale' <=> (stale \/ p \in overtaken))
    BY <1>2, <1>8 DEF SaveParent
  <2>2. WalkIsAPath' /\ SaveIsSafe'
    BY <1>4, <2>1 DEF WalkIsAPath, SaveIsSafe
  <2>3. ASSUME ~stale' PROVE Acyclic'
    <3>1. t # Root => \E S \in SUBSET Category : Above(c, t, S)
      BY <1>2, <1>5, <2>1, <2>3 DEF SaveIsSafe
    <3> QED BY <1>3, <2>1, <2>3, <3>1, MoveKeepsAcyclic DEF CycleNeedsStaleCheck
  <2> QED BY <1>7, <2>2, <2>3 DEF CycleNeedsStaleCheck
<1>9. CASE c \notin rows
  <2>1. overtaken' = overtaken /\ stale' = stale
    BY <1>2, <1>9 DEF SaveParent, history
  <2>2. \A x \in rows : parent'[x] = parent[x]
    BY <1>5, <1>6, <1>9
  <2>3. WalkIsAPath'
    <3> SUFFICES ASSUME NEW q \in Process \ overtaken, worker'[q].at = "walking"
                 PROVE  /\ worker[q].category \in worker[q].seen
                        /\ worker[q].target \in (worker[q].seen \ {worker[q].category})
                                                    \cup {worker[q].node}
                        /\ worker[q].up = parent'[worker[q].node]
                        /\ \A x \in worker[q].seen \ {worker[q].category} :
                              parent'[x] \in (worker[q].seen \ {worker[q].category})
                                               \cup {worker[q].node}
      BY <1>4, <2>1 DEF WalkIsAPath
    <3>1. q # p /\ worker[q].at = "walking"
      BY <1>4
    <3>2. worker[q].node \in rows /\ worker[q].seen \ {worker[q].category} \subseteq rows
      BY <3>1 DEF Grounded
    <3> QED BY <2>2, <3>1, <3>2 DEF WalkIsAPath
  <2>4. SaveIsSafe'
    <3> SUFFICES ASSUME NEW q \in Process \ overtaken, worker'[q].at = "saving",
                        worker'[q].target # Root
                 PROVE  \E S \in SUBSET rows' : Above(worker[q].category, worker[q].target, S)'
      BY <2>1 DEF SaveIsSafe
    <3>1. q # p /\ worker'[q] = worker[q]
      BY <1>4
    <3>2. PICK S \in SUBSET rows : Above(worker[q].category, worker[q].target, S)
      BY <3>1 DEF SaveIsSafe
    <3>3. Above(worker[q].category, worker[q].target, S)'
      BY <2>2, <3>1, <3>2 DEF Above
    <3> QED BY <1>3, <3>3
  <2>5. ASSUME ~stale' PROVE Acyclic'
    <3>1. t # Root => Above(c, t, rows)
      BY <1>5, <1>9 DEF Above, Grounded
    <3> QED BY <1>3, <1>5, <2>1, <2>5, <3>1, MoveKeepsAcyclic DEF CycleNeedsStaleCheck
  <2> QED BY <1>7, <2>3, <2>4, <2>5 DEF CycleNeedsStaleCheck
<1> QED BY <1>8, <1>9

LEMMA TreeInvStep ==
    ASSUME TreeInv, TypeOK', [Next]_vars
    PROVE  TreeInv'
<1>1. ASSUME NEW p \in Process, NEW c \in Category, NEW np \in Category \cup {Root},
             CreateCategory(p, c, np) \/ ReparentCategory(p, c, np)
      PROVE  TreeInv'
  BY <1>1, CheckBegins DEF CreateCategory, ReparentCategory
<1>2. CASE UNCHANGED vars
  BY <1>2 DEF vars, TreeInv, Grounded, WalkIsAPath, SaveIsSafe, Above, Acyclic,
              CycleNeedsStaleCheck
<1> QED BY <1>1, <1>2, CheckSteps, ParentSaved DEF Next

\* A cycle appears only when a re-parenting is saved on a check that another
\* re-parenting overtook, whatever else runs at the same time
\* (Category.assert_acyclic, create_category, reparent_category).
THEOREM CyclesNeedStaleChecks == Spec => []CycleNeedsStaleCheck
<1>1. TypeOK' /\ TreeInv /\ [Next]_vars => TreeInv'
  BY TreeInvStep
<1>2. TreeInv => CycleNeedsStaleCheck
  BY DEF TreeInv
<1> QED BY <1>1, <1>2, TypeInvariance, TreeInvInit, PTL DEF Spec

\* In particular re-parentings one after the other never close a cycle
\* (Category.assert_acyclic, reparent_category).
THEOREM SerialTreeAcyclic ==
    ASSUME \A p, q \in Process : p = q
    PROVE  Spec => []Acyclic
<1> DEFINE NeverOvertaken == overtaken = {} /\ ~stale
<1>1. Init => NeverOvertaken
  BY DEF Init
<1>2. NeverOvertaken /\ [Next]_vars => NeverOvertaken'
  <2> SUFFICES ASSUME NeverOvertaken, [Next]_vars PROVE NeverOvertaken'
    OBVIOUS
  <2>1. ASSUME NEW p \in Process, NEW c \in Category, NEW np \in Category \cup {Root},
               CreateCategory(p, c, np) \/ ReparentCategory(p, c, np)
        PROVE  NeverOvertaken'
    BY <2>1 DEF CreateCategory, ReparentCategory, AssertAcyclic
  <2>2. ASSUME NEW p \in Process, Step(p) PROVE NeverOvertaken'
    BY <2>2 DEF Step, history
  <2>3. ASSUME NEW p \in Process, SaveParent(p) PROVE NeverOvertaken'
    BY <2>3 DEF SaveParent, history
  <2>4. CASE UNCHANGED vars
    BY <2>4 DEF vars
  <2> QED BY <2>1, <2>2, <2>3, <2>4 DEF Next
<1>3. NeverOvertaken /\ CycleNeedsStaleCheck => Acyclic
  BY DEF CycleNeedsStaleCheck
<1> QED BY <1>1, <1>2, <1>3, CyclesNeedStaleChecks, PTL DEF Spec

-----------------------------------------------------------------------------
\* The rows a walk may still come to.
Unseen(p) == Category \ worker[p].seen

\* The part of WalksEnd that needs no fairness: with finitely many categories
\* each turn of a walk that goes on leaves it fewer rows to come to, whatever
\* the tree has become, and what others do leaves the walk as it is.  So no walk
\* takes more turns than there are categories (assert_acyclic's seen set).
THEOREM WalksRunOut ==
    ASSUME IsFiniteSet(Category)
    PROVE  Spec => [][\A p \in Process :
                        worker[p].at = "walking" /\ worker'[p].at = "walking" =>
                            \/ worker'[p] = worker[p]
                            \/ Cardinality(Unseen(p)') < Cardinality(Unseen(p))]_vars
<1> DEFINE Less(p) == \/ worker'[p] = worker[p]
                      \/ Cardinality(Unseen(p)') < Cardinality(Unseen(p))
<1>1. ASSUME TypeOK, NEW p \in Process, Next,
             worker[p].at = "walking", worker'[p].at = "walking"
      PROVE  Less(p)
  <2>1. ASSUME NEW q \in Process, Step(q) PROVE Less(p)
    <3>1. CASE q # p
      <4>1. worker'[p] = worker[p]
        BY <2>1, <3>1, <1>1 DEF Step, TypeOK
      <4> QED BY <4>1
    <3>2. CASE q = p
      <4>1. worker[p] \in Walking
        BY <1>1 DEF TypeOK, Walking, Saving, Idle
      <4>2. worker[p].node \notin worker[p].seen
        BY <1>1, <2>1, <3>2 DEF Step, TypeOK, Idle
      <4>3. worker'[p].seen = worker[p].seen \cup {worker[p].node}
        <5>1. worker'[p] = [worker[p] EXCEPT !.node = worker[p].up,
                                !.up = parent[worker[p].up],
                                !.seen = @ \cup {worker[p].node}]
          BY <1>1, <2>1, <3>2, <4>2 DEF Step, TypeOK
        <5> QED BY <4>1, <5>1 DEF Walking
      <4>4. Unseen(p)' = Unseen(p) \ {worker[p].node} /\ worker[p].node \in Unseen(p)
        BY <4>1, <4>2, <4>3 DEF Unseen, Walking
      <4>5. IsFiniteSet(Unseen(p))
        BY FS_Subset DEF Unseen
      <4>6. /\ Cardinality(Unseen(p)') = Cardinality(Unseen(p)) - 1
            /\ Cardinality(Unseen(p)) \in Nat
        <5> HIDE DEF Unseen
        <5>1. Cardinality(Unseen(p) \ {worker[p].node}) = Cardinality(Unseen(p)) - 1
          BY <4>4, <4>5, FS_RemoveElement
        <5>2. Cardinality(Unseen(p)) \in Nat
          BY <4>5, FS_CardinalityType
        <5> QED BY <4>4, <5>1, <5>2
      <4> QED BY <4>6
    <3> QED BY <3>1, <3>2
  <2>2. ASSUME NEW q \in Process, NEW c \in Category, NEW np \in Category \cup {Root},
               CreateCategory(q, c, np) \/ ReparentCategory(q, c, np)
        PROVE  Less(p)
    BY <1>1, <2>2 DEF CreateCategory, ReparentCategory, AssertAcyclic, TypeOK, Idle
  <2>3. ASSUME NEW q \in Process, SaveParent(q) PROVE Less(p)
    BY <1>1, <2>3 DEF SaveParent, TypeOK
  <2> QED BY <1>1, <2>1, <2>2, <2>3 DEF Next
<1>2. TypeOK /\ [Next]_vars =>
        [\A p \in Process : worker[p].at = "walking" /\ worker'[p].at = "walking"
                              => Less(p)]_vars
  BY <1>1
<1> QED BY <1>2, TypeInvariance, PTL DEF Spec
=============================================================================
