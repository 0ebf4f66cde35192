---------------------------- MODULE RequestChecks ----------------------------
(***************************************************************************)
(* FunctionChecks with one more kind of input: the exceptions that         *)
(* ErrorMapping turns into responses.  Their details are trees, and what   *)
(* walks a tree is recursive.                                              *)
(***************************************************************************)
EXTENDS FunctionChecks, FiniteSets, ErrorMapping

CONSTANTS
    ErrorCodes,    \* bound: error codes
    Fields         \* bound: names of serializer fields

ASSUME RequestChecksAssumption == "message" \notin Fields

\* Trees as DRF builds them: a detail; a list of details; per field a list of
\* details or, for a nested serializer, a dict or a list of dicts.
Leaves == {Leaf(c) : c \in ErrorCodes}
DetailLists == {List(s) : s \in BoundedSeq(Leaves, 2) \ {<<>>}}
Dicts(values) ==
    {Dict(f) : f \in UNION {[names -> values] : names \in SUBSET (Fields \cup {NonField})}}
Flat == Dicts(DetailLists)
Small == {d \in Flat : LeafCount(d) <= 1}
Nested == {Dict("items" :> v) : v \in Flat \cup {List(s) : s \in BoundedSeq(Small, 2)}}
Trees == Leaves \cup DetailLists \cup Flat \cup Nested

Raise ==
    \E class \in {"Http404", "PermissionDenied", "api", "other"}, t \in Trees :
        input' = [kind |-> "exception",
                  exc |-> [class |-> class, default_code |-> "default", details |-> t]]

RequestNext == Next \/ (input = None /\ Raise)

RequestSpec == Init /\ [][RequestNext]_input

-----------------------------------------------------------------------------
\* A response loses no error and locates each: a detail without a field is the
\* response's code; all the others are listed with their codes, and there are
\* as many paths as messages, across fields, lists, nested serializers and
\* errors of no field, so no two share one (exception_handler).
ErrorsLocated ==
    input.kind = "exception" /\ input.exc.class = "api" =>
        LET tree == input.exc.details
            response == ExceptionHandler(input.exc)
        IN IF tree.kind = "leaf"
           THEN response = [code |-> tree.code, errors |-> {}]
           ELSE /\ response.code = input.exc.default_code
                /\ {e.code : e \in response.errors} = Codes(tree)
                /\ Cardinality({e.field : e \in response.errors}) = LeafCount(tree)
=============================================================================
