--------------------------- MODULE MCRequestChecks ---------------------------
(* Instances of RequestChecks for TLC.                                     *)
EXTENDS RequestChecks, TLC

Tag(language, spelt, quality) ==
    [language |-> language, spelt |-> spelt, quality |-> quality]

\* With and without a region, in capitals, a language nobody speaks here, the
\* wildcard, what is left of an empty part, and qualities down to 0.
MCTags ==
    {Tag("vi", "vi", 10), Tag("vi", "vi-VN", 5), Tag("vi", "VI", 0),
     Tag("en", "en", 10), Tag("en", "en-US", 5), Tag("en", "EN-us", 1),
     Tag("fr", "fr-FR", 10), Tag("*", "*", 1), Tag("", "", 10)}

\* Around the carries of one, two and three bytes, and near TLC's largest number.
MCTimes == {0, 1, 255, 256, 257, 65535, 65536, 16777215, 16777216, 2147483647}

MCRandoms == {[i \in 1..10 |-> 0], [i \in 1..10 |-> 255], [i \in 1..10 |-> 25 * i]}
=============================================================================
