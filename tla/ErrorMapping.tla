---------------------------- MODULE ErrorMapping ----------------------------
(***************************************************************************)
(* exception_handler: how an exception becomes the code and the list of    *)
(* errors of a Problem Details response.                                   *)
(*                                                                         *)
(* A tree is what exc.get_full_details() returns: a leaf (one message with *)
(* its code), a list, or a dict from field names to trees.  A field's path *)
(* is the sequence of names and indices the response joins with dots; the  *)
(* order in which errors are listed is left out.  No serializer has a      *)
(* field "message": a dict with that key would be taken for a leaf.        *)
(***************************************************************************)
EXTENDS Naturals, Sequences, FiniteSets, FiniteSetsExt

Leaf(code) == [kind |-> "leaf", code |-> code]
List(nodes) == [kind |-> "list", items |-> nodes]    \* a sequence of trees
Dict(fields) == [kind |-> "dict", items |-> fields]  \* a function on names

NonField == "non_field_errors"

RECURSIVE FlattenFullDetails(_, _)

\* Slip: the elements of a list keep the list's path.
FlattenWithoutIndex(node, path) ==
    CASE node.kind = "leaf" -> {[field |-> path, code |-> node.code]}
      [] node.kind = "list" ->
            UNION {FlattenFullDetails(node.items[i], path) : i \in DOMAIN node.items}
      [] node.kind = "dict" ->
            UNION {FlattenFullDetails(node.items[k], IF k = NonField THEN path
                                                     ELSE Append(path, k)) :
                        k \in DOMAIN node.items}

\* _flatten_full_details
FlattenFullDetails(node, path) ==
    CASE node.kind = "leaf" -> {[field |-> path, code |-> node.code]}
      [] node.kind = "list" ->
            UNION {FlattenFullDetails(node.items[i], Append(path, i - 1)) :
                        i \in DOMAIN node.items}
      [] node.kind = "dict" ->
            UNION {FlattenFullDetails(node.items[k], IF k = NonField THEN path
                                                     ELSE Append(path, k)) :
                        k \in DOMAIN node.items}

\* The Django exceptions that exception_handler replaces by DRF's.
Translated(exc) ==
    CASE exc.class = "Http404" -> [class |-> "NotFound", default_code |-> "not_found",
                                   details |-> Leaf("not_found")]
      [] exc.class = "PermissionDenied" ->
            [class |-> "PermissionDenied", default_code |-> "permission_denied",
             details |-> Leaf("permission_denied")]
      [] OTHER -> exc

Unhandled == [code |-> "unhandled", errors |-> {}]

ExceptionHandler(exc) ==
    LET errors == FlattenFullDetails(Translated(exc).details, <<>>)
        single == Cardinality(errors) = 1 /\ \A e \in errors : e.field = <<>>
    IN IF exc.class = "other" THEN Unhandled
       ELSE [code |-> IF single THEN (CHOOSE e \in errors : TRUE).code
                      ELSE Translated(exc).default_code,
             errors |-> IF single THEN {} ELSE errors]

-----------------------------------------------------------------------------
\* Reference: how many messages a tree holds, and their codes.
RECURSIVE LeafCount(_)
LeafCount(node) ==
    IF node.kind = "leaf" THEN 1
    ELSE FoldSet(LAMBDA k, n : n + LeafCount(node.items[k]), 0, DOMAIN node.items)

RECURSIVE Codes(_)
Codes(node) ==
    IF node.kind = "leaf" THEN {node.code}
    ELSE UNION {Codes(node.items[k]) : k \in DOMAIN node.items}
=============================================================================
