------------------------------- MODULE Words -------------------------------
(***************************************************************************)
(* The 32-bit words of the machine (notes/vm.c).  A word is its four bytes *)
(* in the order memory holds them, most significant first, so that storing *)
(* and fetching a word moves bytes and arithmetic is done byte by byte     *)
(* with a carry.  The width is the program's: nothing is scaled down.      *)
(***************************************************************************)
EXTENDS Integers

Byte == 0..255
Word == [1..4 -> Byte]

\* A word's three low bytes as a number.
Low24(w) == w[2] * 65536 + w[3] * 256 + w[4]

\* The comparison w <= n of the range checks, for a bound n below 2^24.
AtMost(w, n) == w[1] = 0 /\ Low24(w) <= n

\* The word of a number below 2^32.
WordOf(n) ==
    <<(n \div 16777216) % 256, (n \div 65536) % 256, (n \div 256) % 256, n % 256>>

\* a + b modulo 2^32, carrying into the next byte to the left.
Add(a, b) ==
    LET s4 == a[4] + b[4]
        s3 == a[3] + b[3] + (s4 \div 256)
        s2 == a[2] + b[2] + (s3 \div 256)
        s1 == a[1] + b[1] + (s2 \div 256)
    IN  <<s1 % 256, s2 % 256, s3 % 256, s4 % 256>>

\* a - b modulo 2^32: \div rounds down, so a negative difference borrows.
Sub(a, b) ==
    LET d4 == a[4] - b[4]
        d3 == a[3] - b[3] + (d4 \div 256)
        d2 == a[2] - b[2] + (d3 \div 256)
        d1 == a[1] - b[1] + (d2 \div 256)
    IN  <<d1 % 256, d2 % 256, d3 % 256, d4 % 256>>

\* The word at address a of memory m, and memory m after w is stored at a.
ReadU32(m, a) == [i \in 1..4 |-> m[a + i - 1]]
WriteU32(m, a, w) ==
    [x \in DOMAIN m |-> IF x \in a..(a + 3) THEN w[x - a + 1] ELSE m[x]]
=============================================================================
