----------------------------- MODULE Identifiers -----------------------------
(***************************************************************************)
(* uuid7: 16 bytes, the first six the time in milliseconds, the others     *)
(* random but for the version and the variant.  Identifiers are compared   *)
(* as numbers, that is byte by byte from the first.                        *)
(***************************************************************************)
EXTENDS Naturals, Sequences

\* What is left of ms after one to five divisions by 256.
Quotients(ms) ==
    LET a == ms \div 256  b == a \div 256  c == b \div 256  d == c \div 256
    IN <<a, b, c, d, d \div 256>>

\* Slip: byteorder="little".
TimestampLittle(ms) ==
    LET q == Quotients(ms)
    IN <<ms % 256, q[1] % 256, q[2] % 256, q[3] % 256, q[4] % 256, q[5] % 256>>

\* unix_ms.to_bytes(6, byteorder="big"), for times below 2^48.
TimestampBytes(ms) ==
    LET q == Quotients(ms)
    IN <<q[5] % 256, q[4] % 256, q[3] % 256, q[2] % 256, q[1] % 256, ms % 256>>

\* The high nibble of byte 7 is 7, the two high bits of byte 9 are 10.
RandBytes(random) ==
    [i \in 1..10 |-> CASE i = 1 -> 112 + (random[i] % 16)
                       [] i = 3 -> 128 + (random[i] % 64)
                       [] OTHER -> random[i]]

Uuid7(ms, random) == TimestampBytes(ms) \o RandBytes(random)

Precedes(a, b) ==
    \E i \in 1..16 : a[i] < b[i] /\ \A j \in 1..(i - 1) : a[j] = b[j]
=============================================================================
