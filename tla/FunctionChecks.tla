--------------------------- MODULE FunctionChecks ---------------------------
(***************************************************************************)
(* The functions of Localization and Identifiers against what they are     *)
(* for, on every input of a bounded kind.  Each step takes one more input. *)
(***************************************************************************)
EXTENDS SequencesExt, Localization, Identifiers

CONSTANTS
    Tags,          \* bound: what the parts of a header may be
    MaxParts,      \* bound: parts of a header
    Times,         \* bound: the times identifiers are made at, in milliseconds
    Randoms        \* bound: the ten bytes os.urandom may return

\* to_bytes raises OverflowError for a time that does not fit six bytes.
ASSUME FunctionChecksAssumption ==
    /\ \A tag \in Tags : tag.quality \in Nat
    /\ MaxParts \in Nat
    /\ \A t \in Times : t \in Nat /\ Quotients(t)[5] < 256
    /\ Randoms \subseteq [1..10 -> 0..255]

VARIABLE input

Headers == BoundedSeq(Tags, MaxParts)

None == [kind |-> "none"]

Init == input = None

ReceiveHeader ==
    \E h \in Headers : input' = [kind |-> "header", header |-> h]

MakeIdentifiers ==
    \E before, after \in Times, r, s \in Randoms :
        /\ before < after
        /\ input' = [kind |-> "identifiers", before |-> Uuid7(before, r),
                     after |-> Uuid7(after, s)]

Next == input = None /\ (ReceiveHeader \/ MakeIdentifiers)

Spec == Init /\ [][Next]_input

-----------------------------------------------------------------------------
\* What is suggested to a visitor (suggest_locale) is accepted and stored when
\* they choose it (validate_locale_and_currency, update_locale_preference),
\* whatever they had: the two services read the country's row differently.
SuggestionAccepted ==
    input.kind = "header" =>
        LET s == SuggestLocale(SeededCountry, input.header)
        IN \A locale \in SeededCountry.allowed_locales \cup {""} :
              UpdateLocalePreference(
                  [preferred_locale |-> locale, preferred_currency |-> ""],
                  SeededCountry, s.locale, s.currency)
              = [preferred_locale |-> s.locale, preferred_currency |-> s.currency]

\* The first match is the best one for every header whose parts are listed in
\* order of preference; the parser does not read qualities.
FirstMatchIsBest ==
    input.kind = "header" /\ Ordered(input.header) =>
        BestLocaleMatch(input.header, SeededCountry.allowed_locales)
            = Preferred(input.header, SeededCountry.allowed_locales)

\* Identifiers sort by the millisecond they were made in, whatever their
\* random bytes ("time-ordered UUIDs", uuid7.py:1).
LaterSortsLater ==
    input.kind = "identifiers" => Precedes(input.before, input.after)
=============================================================================
