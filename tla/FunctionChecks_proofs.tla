------------------------ MODULE FunctionChecks_proofs ------------------------
(***************************************************************************)
(* The locale functions for headers of every length with parts of every    *)
(* kind, and the order of identifiers for every two times that fit into    *)
(* their six bytes.                                                        *)
(***************************************************************************)
EXTENDS FunctionChecks, WellFoundedInduction, SequenceTheorems, TLAPS

-----------------------------------------------------------------------------
(* Least elements.                                                         *)

\* The least-number principle for sets; the library's has an operator parameter.
LEMMA LeastNatural ==
    ASSUME NEW S, S \subseteq Nat, S # {}
    PROVE  \E m \in S : \A n \in S : m <= n
<1> DEFINE Less == OpToRel(<, Nat)
<1>1. IsWellFoundedOn(Less, Nat)
  BY NatLessThanWellFounded, Zenon
<1>2. PICK m \in S : \A n \in S : <<n, m>> \notin Less
  <2> HIDE DEF Less
  <2> QED BY <1>1, WFMin
<1>3. \A n \in S : ~(n < m)
  BY <1>2 DEF OpToRel
<1> QED BY <1>3

LEMMA MinIsLeast ==
    ASSUME NEW S, S \subseteq Nat, S # {}
    PROVE  Min(S) \in S /\ \A n \in S : Min(S) <= n
BY LeastNatural DEF Min

LEMMA LeastIsMin ==
    ASSUME NEW S, S \subseteq Nat, NEW m \in S, \A n \in S : m <= n
    PROVE  Min(S) = m
<1>1. Min(S) \in S /\ Min(S) <= m /\ m <= Min(S)
  BY MinIsLeast
<1>2. Min(S) \in Nat /\ m \in Nat
  BY <1>1
<1> QED BY <1>1, <1>2

-----------------------------------------------------------------------------
(* Localization.                                                           *)

LEMMA HeaderIsSeq ==
    ASSUME NEW h \in Headers
    PROVE  DOMAIN h \subseteq Nat /\ \A i \in DOMAIN h : h[i] \in Tags
<1>1. PICK n \in 0..MaxParts : h \in [1..n -> Tags]
  BY DEF Headers, BoundedSeq, SeqOf
<1> QED BY <1>1

\* _best_locale_match returns an allowed locale or none.
LEMMA MatchIsAllowed ==
    ASSUME NEW h \in Headers, NEW allowed
    PROVE  \/ BestLocaleMatch(h, allowed) = "none"
           \/ BestLocaleMatch(h, allowed) \in allowed
<1>1. CASE Matches(h, allowed) = {}
  BY <1>1 DEF BestLocaleMatch
<1>2. CASE Matches(h, allowed) # {}
  <2>1. Matches(h, allowed) \subseteq Nat
    BY HeaderIsSeq DEF Matches
  <2>2. Min(Matches(h, allowed)) \in Matches(h, allowed)
    BY <1>2, <2>1, MinIsLeast
  <2>3. BestLocaleMatch(h, allowed) = Language(h[Min(Matches(h, allowed))])
    BY <1>2 DEF BestLocaleMatch
  <2> QED BY <2>2, <2>3 DEF Matches
<1> QED BY <1>1, <1>2

\* suggest_locale proposes a locale and a currency of the country.
LEMMA SuggestionIsValid ==
    ASSUME NEW h \in Headers
    PROVE  LET s == SuggestLocale(SeededCountry, h)
           IN ValidateLocaleAndCurrency(SeededCountry, s.locale, s.currency)
<1> DEFINE match == BestLocaleMatch(h, {"vi", "en"})
<1>1. match = "none" \/ match \in {"vi", "en"}
  BY MatchIsAllowed
<1>2. /\ SuggestLocale(SeededCountry, h).locale = IF match = "none" THEN "vi" ELSE match
      /\ SuggestLocale(SeededCountry, h).currency = "VND"
  BY DEF SuggestLocale, SeededCountry
<1>3. SuggestLocale(SeededCountry, h).locale \in {"vi", "en"}
  BY <1>1, <1>2
<1> QED BY <1>2, <1>3 DEF ValidateLocaleAndCurrency, SeededCountry

LEMMA SuggestionIsStored ==
    ASSUME NEW h \in Headers, NEW locale
    PROVE  LET s == SuggestLocale(SeededCountry, h)
           IN UpdateLocalePreference(
                  [preferred_locale |-> locale, preferred_currency |-> ""],
                  SeededCountry, s.locale, s.currency)
              = [preferred_locale |-> s.locale, preferred_currency |-> s.currency]
BY SuggestionIsValid DEF UpdateLocalePreference

\* In a header that is listed in order of preference no match is better than
\* the first.
LEMMA FirstIsPreferred ==
    ASSUME NEW h \in Headers, NEW allowed, Ordered(h)
    PROVE  BestLocaleMatch(h, allowed) = Preferred(h, allowed)
<1> DEFINE M == Matches(h, allowed)
           best == {i \in M : \A j \in M : h[j].quality <= h[i].quality}
<1>1. {i \in M : h[i].quality > 0} = M
  BY DEF Matches, Ordered
<1>2. Preferred(h, allowed) = IF M = {} THEN "none" ELSE Language(h[Min(best)])
  BY <1>1 DEF Preferred
<1>3. M \subseteq Nat /\ M \subseteq DOMAIN h
  BY HeaderIsSeq DEF Matches
<1>4. \A i \in M : h[i].quality \in Nat
  BY <1>3, HeaderIsSeq, FunctionChecksAssumption
<1>5. CASE M # {}
  <2>1. Min(M) \in M /\ \A n \in M : Min(M) <= n
    BY <1>3, <1>5, MinIsLeast
  <2>2. \A j \in M : h[j].quality <= h[Min(M)].quality
    <3> SUFFICES ASSUME NEW j \in M PROVE h[j].quality <= h[Min(M)].quality
      OBVIOUS
    <3>1. Min(M) = j \/ Min(M) < j
      BY <1>3, <2>1
    <3> QED BY <1>3, <1>4, <2>1, <3>1 DEF Ordered
  <2>3. Min(M) \in best /\ best \subseteq Nat /\ \A n \in best : Min(M) <= n
    BY <1>3, <2>1, <2>2
  <2>4. Min(best) = Min(M)
    <3> HIDE DEF best, M
    <3> QED BY <2>3, LeastIsMin
  <2> QED BY <1>2, <1>5, <2>4 DEF BestLocaleMatch
<1> QED BY <1>2, <1>5 DEF BestLocaleMatch

-----------------------------------------------------------------------------
(* Identifiers.                                                            *)

\* One division by 256 keeps the order of two numbers or ties them.
LEMMA DivisionOrder ==
    ASSUME NEW m \in Nat, NEW n \in Nat, m < n
    PROVE  /\ m \div 256 \in Nat /\ n \div 256 \in Nat
           /\ \/ m \div 256 < n \div 256
              \/ m \div 256 = n \div 256 /\ m % 256 < n % 256
OBVIOUS

LEMMA QuotientsAreNumbers ==
    ASSUME NEW m \in Nat
    PROVE  \A i \in 1..5 : Quotients(m)[i] \in Nat
BY DEF Quotients

\* to_bytes: the first byte that differs decides.
LEMMA BytesOrder ==
    ASSUME NEW m \in Nat, NEW n \in Nat, m < n,
           Quotients(m)[5] < 256, Quotients(n)[5] < 256
    PROVE  \E i \in 1..6 :
              /\ TimestampBytes(m)[i] < TimestampBytes(n)[i]
              /\ \A j \in 1..(i - 1) : TimestampBytes(m)[j] = TimestampBytes(n)[j]
<1> DEFINE q == Quotients(m)
           r == Quotients(n)
<1>1. /\ q[1] = m \div 256 /\ q[2] = q[1] \div 256 /\ q[3] = q[2] \div 256
      /\ q[4] = q[3] \div 256 /\ q[5] = q[4] \div 256
      /\ r[1] = n \div 256 /\ r[2] = r[1] \div 256 /\ r[3] = r[2] \div 256
      /\ r[4] = r[3] \div 256 /\ r[5] = r[4] \div 256
  BY DEF Quotients
<1>2. /\ q[1] \in Nat /\ q[2] \in Nat /\ q[3] \in Nat /\ q[4] \in Nat /\ q[5] \in Nat
      /\ r[1] \in Nat /\ r[2] \in Nat /\ r[3] \in Nat /\ r[4] \in Nat /\ r[5] \in Nat
  BY QuotientsAreNumbers
<1>3. /\ TimestampBytes(m) = <<q[5] % 256, q[4] % 256, q[3] % 256, q[2] % 256,
                               q[1] % 256, m % 256>>
      /\ TimestampBytes(n) = <<r[5] % 256, r[4] % 256, r[3] % 256, r[2] % 256,
                               r[1] % 256, n % 256>>
  BY DEF TimestampBytes
<1>4. q[5] % 256 = q[5] /\ r[5] % 256 = r[5]
  BY <1>2
<1> HIDE DEF q, r
<1>5. q[1] < r[1] \/ (q[1] = r[1] /\ m % 256 < n % 256)
  BY <1>1, DivisionOrder
<1>6. q[2] < r[2] \/ (q[2] = r[2] /\ (q[1] = r[1] \/ q[1] % 256 < r[1] % 256))
  BY <1>1, <1>2, <1>5, DivisionOrder
<1>7. q[3] < r[3] \/ (q[3] = r[3] /\ (q[2] = r[2] \/ q[2] % 256 < r[2] % 256))
  BY <1>1, <1>2, <1>6, DivisionOrder
<1>8. q[4] < r[4] \/ (q[4] = r[4] /\ (q[3] = r[3] \/ q[3] % 256 < r[3] % 256))
  BY <1>1, <1>2, <1>7, DivisionOrder
<1>9. q[5] < r[5] \/ (q[5] = r[5] /\ (q[4] = r[4] \/ q[4] % 256 < r[4] % 256))
  BY <1>1, <1>2, <1>8, DivisionOrder
<1>10. CASE q[5] < r[5]
  BY <1>3, <1>4, <1>10
<1>11. CASE q[5] = r[5] /\ q[4] % 256 < r[4] % 256
  BY <1>3, <1>11
<1>12. CASE q[5] = r[5] /\ q[4] = r[4] /\ q[3] % 256 < r[3] % 256
  BY <1>3, <1>12
<1>13. CASE q[5] = r[5] /\ q[4] = r[4] /\ q[3] = r[3] /\ q[2] % 256 < r[2] % 256
  BY <1>3, <1>13
<1>14. CASE /\ q[5] = r[5] /\ q[4] = r[4] /\ q[3] = r[3] /\ q[2] = r[2]
            /\ q[1] % 256 < r[1] % 256
  BY <1>3, <1>14
<1>15. CASE /\ q[5] = r[5] /\ q[4] = r[4] /\ q[3] = r[3] /\ q[2] = r[2]
            /\ q[1] = r[1] /\ m % 256 < n % 256
  BY <1>3, <1>15
<1>16. q[1] = r[1] => m % 256 < n % 256
  BY <1>2, <1>5
<1>17. q[2] = r[2] => q[1] = r[1] \/ q[1] % 256 < r[1] % 256
  BY <1>2, <1>6
<1>18. q[3] = r[3] => q[2] = r[2] \/ q[2] % 256 < r[2] % 256
  BY <1>2, <1>7
<1>19. q[4] = r[4] => q[3] = r[3] \/ q[3] % 256 < r[3] % 256
  BY <1>2, <1>8
<1> QED BY <1>9, <1>10, <1>11, <1>12, <1>13, <1>14, <1>15, <1>16, <1>17, <1>18, <1>19

LEMMA TimestampIsSeq ==
    ASSUME NEW m \in Nat
    PROVE  TimestampBytes(m) \in Seq(Nat) /\ Len(TimestampBytes(m)) = 6
<1> DEFINE q == Quotients(m)
<1>1. /\ q[5] % 256 \in Nat /\ q[4] % 256 \in Nat /\ q[3] % 256 \in Nat
      /\ q[2] % 256 \in Nat /\ q[1] % 256 \in Nat /\ m % 256 \in Nat
  BY QuotientsAreNumbers
<1> HIDE DEF q
<1> QED BY <1>1 DEF TimestampBytes, q

LEMMA RandIsSeq ==
    ASSUME NEW r \in [1..10 -> 0..255]
    PROVE  RandBytes(r) \in Seq(Nat) /\ Len(RandBytes(r)) = 10
<1>1. \A i \in 1..10 : r[i] \in Nat /\ r[i] % 16 \in Nat /\ r[i] % 64 \in Nat
  OBVIOUS
<1>2. RandBytes(r) \in [1..10 -> Nat]
  BY <1>1 DEF RandBytes
<1>3. RandBytes(r) \in UNION {[1..n -> Nat] : n \in Nat}
  <2>1. 10 \in Nat
    OBVIOUS
  <2> QED BY <1>2, <2>1, Zenon
<1>4. RandBytes(r) \in Seq(Nat)
  BY <1>3, SeqDef, Zenon
<1> QED BY <1>2, <1>4

\* The first six bytes of an identifier are the time's.
LEMMA IdentifierBytes ==
    ASSUME NEW m \in Nat, NEW r \in [1..10 -> 0..255]
    PROVE  \A i \in 1..6 : Uuid7(m, r)[i] = TimestampBytes(m)[i]
BY TimestampIsSeq, RandIsSeq, ConcatProperties DEF Uuid7

LEMMA IdentifiersInOrder ==
    ASSUME NEW m \in Times, NEW n \in Times, m < n, NEW r \in Randoms, NEW s \in Randoms
    PROVE  Precedes(Uuid7(m, r), Uuid7(n, s))
<1>1. /\ m \in Nat /\ n \in Nat /\ Quotients(m)[5] < 256 /\ Quotients(n)[5] < 256
      /\ r \in [1..10 -> 0..255] /\ s \in [1..10 -> 0..255]
  BY FunctionChecksAssumption
<1>2. PICK i \in 1..6 :
          /\ TimestampBytes(m)[i] < TimestampBytes(n)[i]
          /\ \A j \in 1..(i - 1) : TimestampBytes(m)[j] = TimestampBytes(n)[j]
  BY <1>1, BytesOrder
<1>3. /\ Uuid7(m, r)[i] < Uuid7(n, s)[i]
      /\ \A j \in 1..(i - 1) : Uuid7(m, r)[j] = Uuid7(n, s)[j]
  <2>1. \A j \in 1..6 : /\ Uuid7(m, r)[j] = TimestampBytes(m)[j]
                       /\ Uuid7(n, s)[j] = TimestampBytes(n)[j]
    BY <1>1, IdentifierBytes
  <2>2. \A j \in 1..(i - 1) : j \in 1..6
    OBVIOUS
  <2> QED BY <1>2, <2>1, <2>2
<1> QED BY <1>3 DEF Precedes

-----------------------------------------------------------------------------
(* Every step takes an input of one of the two kinds.                      *)

HeaderInput == input.kind = "header" => input.header \in Headers
IdentifierInput == input.kind = "identifiers" =>
    \E m, n \in Times, r, s \in Randoms :
        m < n /\ input.before = Uuid7(m, r) /\ input.after = Uuid7(n, s)

LEMMA InputIsReceived == Spec => [](HeaderInput /\ IdentifierInput)
<1>1. Init => HeaderInput /\ IdentifierInput
  BY DEF Init, None, HeaderInput, IdentifierInput
<1>2. HeaderInput /\ IdentifierInput /\ [Next]_input => HeaderInput' /\ IdentifierInput'
  <2> SUFFICES ASSUME HeaderInput, IdentifierInput, [Next]_input
               PROVE  HeaderInput' /\ IdentifierInput'
    OBVIOUS
  <2>1. CASE ReceiveHeader
    BY <2>1 DEF ReceiveHeader, HeaderInput, IdentifierInput
  <2>2. CASE MakeIdentifiers
    BY <2>2 DEF MakeIdentifiers, HeaderInput, IdentifierInput
  <2>3. CASE UNCHANGED input
    BY <2>3 DEF HeaderInput, IdentifierInput
  <2> QED BY <2>1, <2>2, <2>3 DEF Next
<1> QED BY <1>1, <1>2, PTL DEF Spec

\* Whatever header a visitor sends, they can choose what is suggested to them
\* (suggest_locale, update_locale_preference).
THEOREM SuggestionsAccepted == Spec => []SuggestionAccepted
<1>1. HeaderInput => SuggestionAccepted
  BY SuggestionIsStored DEF HeaderInput, SuggestionAccepted
<1> QED BY <1>1, InputIsReceived, PTL

\* For headers of every length that are listed in order of preference, stopping
\* at the first match loses nothing against reading the qualities
\* (_best_locale_match).
THEOREM FirstMatchSuffices == Spec => []FirstMatchIsBest
<1>1. HeaderInput => FirstMatchIsBest
  BY FirstIsPreferred DEF HeaderInput, FirstMatchIsBest
<1> QED BY <1>1, InputIsReceived, PTL

\* Identifiers made at different milliseconds sort by them, for all times that
\* fit into six bytes and all random bytes (uuid7).
THEOREM IdentifiersSortByTime == Spec => []LaterSortsLater
<1>1. IdentifierInput => LaterSortsLater
  BY IdentifiersInOrder DEF IdentifierInput, LaterSortsLater
<1> QED BY <1>1, InputIsReceived, PTL
=============================================================================
