---------------------------- MODULE CategoryTree ----------------------------
(***************************************************************************)
(* The category tree: creation and re-parenting, with the cycle check of   *)
(* Category.assert_acyclic.                                                *)
(*                                                                         *)
(* The check walks from the new parent towards the root and reads one row  *)
(* per step; nothing locks the rows it has seen, and the category itself   *)
(* is saved after the walk in a statement of its own.  A refused request   *)
(* changes nothing.                                                        *)
(***************************************************************************)
CONSTANTS
    Category,      \* bound: the primary keys categories may take
    Process,
    Root           \* stands for a null parent

ASSUME CategoryTreeAssumption == Root \notin Category

VARIABLES
    rows,          \* the categories that have a row
    parent,        \* Category -> Category.parent
    worker,        \* Process -> the creation or re-parenting it carries out
    overtaken,     \* history: the processes during whose latest check another
                   \* process saved a re-parenting
    stale          \* history: a re-parenting was saved on an overtaken check

tree == <<rows, parent>>
history == <<overtaken, stale>>
vars == <<rows, parent, worker, overtaken, stale>>

\* A walk has reached node, whose parent it read along with the node's row.
Idle == [at |-> "idle"]
Walking == [at : {"walking"}, category : Category, target : Category,
            node : Category, up : Category \cup {Root},
            seen : SUBSET Category]
Saving == [at : {"saving"}, category : Category, target : Category \cup {Root}]

TypeOK ==
    /\ rows \subseteq Category
    /\ parent \in [Category -> Category \cup {Root}]
    /\ worker \in [Process -> {Idle} \cup Walking \cup Saving]
    /\ overtaken \subseteq Process
    /\ stale \in BOOLEAN

Init ==
    /\ rows = {}
    /\ parent = [c \in Category |-> Root]
    /\ worker = [p \in Process |-> Idle]
    /\ overtaken = {}
    /\ stale = FALSE

-----------------------------------------------------------------------------
\* assert_acyclic up to its loop: to the root no walk is needed, and nothing
\* goes under itself.
AssertAcyclic(p, c, np) ==
    /\ worker[p] = Idle
    /\ \/ /\ np = Root
          /\ worker' = [worker EXCEPT ![p] =
                [at |-> "saving", category |-> c, target |-> Root]]
       \/ /\ np \in rows \ {c}
          /\ worker' = [worker EXCEPT ![p] =
                [at |-> "walking", category |-> c, target |-> np,
                 node |-> np, up |-> parent[np], seen |-> {c}]]
    /\ overtaken' = overtaken \ {p}
    /\ UNCHANGED <<tree, stale>>

\* A new category's primary key is made before its row is.
CreateCategory(p, c, np) ==
    /\ c \notin rows
    /\ \A q \in Process : worker[q] # Idle => worker[q].category # c
    /\ AssertAcyclic(p, c, np)

ReparentCategory(p, c, np) ==
    /\ c \in rows
    /\ AssertAcyclic(p, c, np)

\* Slip: only the direct parent is looked at.
StepOnce(p) ==
    LET w == worker[p] IN
    /\ w.at = "walking"
    /\ worker' = [worker EXCEPT ![p] =
                    IF w.node \in w.seen THEN Idle
                    ELSE [at |-> "saving", category |-> w.category,
                          target |-> w.target]]
    /\ UNCHANGED <<tree, history>>

\* Slip: the walk looks for the category alone and remembers nothing else.
StepForgetful(p) ==
    LET w == worker[p] IN
    /\ w.at = "walking"
    /\ \/ /\ w.node = w.category
          /\ worker' = [worker EXCEPT ![p] = Idle]
       \/ /\ w.node # w.category /\ w.up = Root
          /\ worker' = [worker EXCEPT ![p] =
                [at |-> "saving", category |-> w.category, target |-> w.target]]
       \/ /\ w.node # w.category /\ w.up # Root
          /\ worker' = [worker EXCEPT ![p] =
                [w EXCEPT !.node = w.up, !.up = parent[w.up]]]
    /\ UNCHANGED <<tree, history>>

\* One turn of assert_acyclic's loop: refuse, pass the root, or read one row.
Step(p) ==
    LET w == worker[p] IN
    /\ w.at = "walking"
    /\ \/ /\ w.node \in w.seen
          /\ worker' = [worker EXCEPT ![p] = Idle]
       \/ /\ w.node \notin w.seen /\ w.up = Root
          /\ worker' = [worker EXCEPT ![p] =
                [at |-> "saving", category |-> w.category, target |-> w.target]]
       \/ /\ w.node \notin w.seen /\ w.up # Root
          /\ worker' = [worker EXCEPT ![p] =
                [w EXCEPT !.node = w.up, !.up = parent[w.up],
                          !.seen = @ \cup {w.node}]]
    /\ UNCHANGED <<tree, history>>

\* category.save(): an INSERT for a new category, else an UPDATE.
SaveParent(p) ==
    LET w == worker[p] IN
    /\ w.at = "saving"
    /\ rows' = rows \cup {w.category}
    /\ parent' = [parent EXCEPT ![w.category] = w.target]
    /\ worker' = [worker EXCEPT ![p] = Idle]
    /\ IF w.category \in rows
       THEN /\ overtaken' = Process \ {p}
            /\ stale' = (stale \/ p \in overtaken)
       ELSE UNCHANGED history

Next ==
    \E p \in Process :
        \/ \E c \in Category, np \in Category \cup {Root} :
            CreateCategory(p, c, np) \/ ReparentCategory(p, c, np)
        \/ Step(p)
        \/ SaveParent(p)

Fairness == \A p \in Process : WF_vars(Step(p))
Spec == Init /\ [][Next]_vars
FairSpec == Spec /\ Fairness

-----------------------------------------------------------------------------
(* Correctness.                                                            *)

\* No set of categories in which everyone's parent is in the set again.
Acyclic == ~ \E S \in (SUBSET Category) \ {{}} : \A c \in S : parent[c] \in S

\* The tree has no cycle unless a re-parenting was saved on a check that another
\* re-parenting had overtaken: the walk sees every cycle the save would close,
\* creations never make its result stale, and a creation's own check may be as
\* stale as it likes (assert_acyclic, called before every save).
CycleNeedsStaleCheck == stale \/ Acyclic

\* Every cycle check ends, even when it meets a cycle that another request has
\* closed in the meantime: each turn adds to the rows seen (assert_acyclic's
\* seen set).
WalksEnd == \A p \in Process : worker[p].at = "walking" ~> worker[p].at # "walking"
=============================================================================
