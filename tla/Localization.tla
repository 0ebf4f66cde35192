---------------------------- MODULE Localization ----------------------------
(***************************************************************************)
(* Which language a visitor gets: suggest_locale and                       *)
(* validate_locale_and_currency of the localization module.  The           *)
(* storefront's own loop over the header is not translated.                *)
(*                                                                         *)
(* An Accept-Language header is the sequence of its comma-separated parts, *)
(* each a tag as it is spelt, the language in it in lower case and without *)
(* the region, and its quality in tenths.  There is one active country.    *)
(***************************************************************************)
EXTENDS Naturals, Sequences, FiniteSetsExt

\* The one row seed_supported_countries creates, and re-runs leave alone.
SeededCountry == [code |-> "VN", default_locale |-> "vi",
                  allowed_locales |-> {"vi", "en"},
                  allowed_currencies |-> <<"VND", "USD">>]

\* part.split(";")[0].strip().split("-")[0].lower()
Language(tag) == tag.language

\* The parts of a header whose language is allowed.
Matches(header, allowed) == {i \in DOMAIN header : Language(header[i]) \in allowed}

\* Slip: the loop does not stop at the first match.
LastMatch(header, allowed) ==
    IF Matches(header, allowed) = {} THEN "none"
    ELSE Language(header[Max(Matches(header, allowed))])

\* Slip: the part is returned as it is spelt.
MatchAsSpelt(header, allowed) ==
    IF Matches(header, allowed) = {} THEN "none"
    ELSE header[Min(Matches(header, allowed))].spelt

\* _best_locale_match: the first part that matches, whatever its quality.
BestLocaleMatch(header, allowed) ==
    IF Matches(header, allowed) = {} THEN "none"
    ELSE Language(header[Min(Matches(header, allowed))])

SuggestLocale(country, header) ==
    LET match == BestLocaleMatch(header, country.allowed_locales)
    IN [country_code |-> country.code,
        locale |-> IF match = "none" THEN country.default_locale ELSE match,
        currency |-> country.allowed_currencies[1]]

ValidateLocaleAndCurrency(country, locale, currency) ==
    /\ locale \in country.allowed_locales
    /\ \E i \in DOMAIN country.allowed_currencies :
          country.allowed_currencies[i] = currency

\* update_locale_preference: a choice that is not valid changes nothing.
UpdateLocalePreference(customer, country, locale, currency) ==
    IF ValidateLocaleAndCurrency(country, locale, currency)
    THEN [customer EXCEPT !.preferred_locale = locale, !.preferred_currency = currency]
    ELSE customer

-----------------------------------------------------------------------------
\* Reference: the allowed language with the highest quality, the first of
\* equals; quality 0 means "not acceptable" (RFC 9110, 12.5.4).
Preferred(header, allowed) ==
    LET usable == {i \in Matches(header, allowed) : header[i].quality > 0}
        best == {i \in usable : \A j \in usable : header[j].quality <= header[i].quality}
    IN IF usable = {} THEN "none" ELSE Language(header[Min(best)])

\* Parts in the order of preference, as browsers send them.
Ordered(header) ==
    /\ \A i \in DOMAIN header : header[i].quality > 0
    /\ \A i, j \in DOMAIN header : i < j => header[i].quality >= header[j].quality
=============================================================================
