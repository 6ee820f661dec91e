-------------------------- MODULE LineEditorProofs --------------------------
(***************************************************************************)
(* The line editor of programs/line-storage.asm, proved for every size of  *)
(* its buffers, every file and everything that can be typed: its types,    *)
(* that it stays in its buffers, that its line can always be saved, and    *)
(* that it implements AbstractEditor.                                      *)
(*                                                                         *)
(* The loops of the program are recursive functions.  What they compute is *)
(* shown by the least number of turns after which it would be wrong.       *)
(***************************************************************************)
EXTENDS LineEditor, SequenceTheorems, WellFoundedInduction, TLAPS

LEMMA Sizes ==
    /\ LineSize \in Nat /\ 1 <= LineSize
    /\ Input = 0 /\ Stored = 2 * LineSize /\ Top = 4 * LineSize - 1
    /\ Cells = 0..Top
BY LineSizeAssumption, SMT DEF Input, Stored, Top, Cells

LEMMA LeastElement ==
    ASSUME NEW S, S \subseteq Nat, S # {}
    PROVE  \E n \in S : \A k \in S : n <= k
<1> DEFINE R == OpToRel(<, Nat)
<1>1. \E x \in S : \A y \in S : ~(<<y, x>> \in R)
  <2>1. IsWellFoundedOn(R, Nat)
    BY NatLessThanWellFounded
  <2> HIDE DEF R
  <2> QED BY <2>1, WFMin
<1>2. PICK n \in S : \A y \in S : ~(<<y, n>> \in R)
  BY <1>1
<1>3. \A y \in S : ~(y < n)
  BY <1>2 DEF OpToRel
<1> QED BY <1>3

-----------------------------------------------------------------------------
(* read_loop.                                                              *)

\* The bytes of a line: its LF is left out.
Typeable == Byte \ {LF}

\* f is what read_loop has kept after each of its first n bytes.
KeptTo(bytes, n, f) ==
    f = [k \in 0..n |->
            IF k = 0 THEN <<>>
            ELSE IF bytes[k] = CR \/ Len(f[k - 1]) = LineSize - 1 THEN f[k - 1]
            ELSE Append(f[k - 1], bytes[k])]

LEMMA KeptExists ==
    ASSUME NEW bytes \in Seq(Typeable), NEW n \in 0..Len(bytes)
    PROVE  \E f : KeptTo(bytes, n, f)
<1> DEFINE Bad == {j \in Nat : j <= Len(bytes) /\ ~\E f : KeptTo(bytes, j, f)}
<1>1. Len(bytes) \in Nat
  BY LenProperties
<1>2. SUFFICES ASSUME Bad # {} PROVE FALSE
  BY <1>1
<1>3. PICK m \in Bad : \A k \in Bad : m <= k
  BY <1>2, LeastElement
<1>4. m # 0
  <2>1. KeptTo(bytes, 0, [k \in 0..0 |-> <<>>])
    BY DEF KeptTo
  <2> QED BY <2>1, <1>3
<1>5. m - 1 \in Nat /\ m - 1 <= Len(bytes) /\ m - 1 \notin Bad
  BY <1>1, <1>3, <1>4
<1>6. PICK f : KeptTo(bytes, m - 1, f)
  BY <1>5
<1> DEFINE g == [k \in 0..m |->
                    IF k = m
                    THEN IF bytes[k] = CR \/ Len(f[k - 1]) = LineSize - 1 THEN f[k - 1]
                         ELSE Append(f[k - 1], bytes[k])
                    ELSE f[k]]
<1>7. KeptTo(bytes, m, g)
  <2>1. \A k \in 0..m : k # 0 => k - 1 \in 0..m /\ k - 1 # m /\ g[k - 1] = f[k - 1]
    BY <1>3
  <2>2. \A k \in 0..m : k # m => k \in 0..(m - 1)
    BY <1>3
  <2>3. \A k \in 0..m : g[k] = IF k = 0 THEN <<>>
            ELSE IF bytes[k] = CR \/ Len(g[k - 1]) = LineSize - 1 THEN g[k - 1]
            ELSE Append(g[k - 1], bytes[k])
    <3> TAKE k \in 0..m
    <3>1. CASE k = m
      <4>1. g[k] = IF bytes[k] = CR \/ Len(f[k - 1]) = LineSize - 1 THEN f[k - 1]
                   ELSE Append(f[k - 1], bytes[k])
        BY <3>1
      <4>2. k # 0 /\ g[k - 1] = f[k - 1]
        BY <3>1, <2>1, <1>4
      <4> HIDE DEF g
      <4> QED BY <4>1, <4>2
    <3>2. CASE k # m
      <4>1. k \in 0..(m - 1) /\ g[k] = f[k]
        BY <3>2, <2>2
      <4>2. f[k] = IF k = 0 THEN <<>>
                ELSE IF bytes[k] = CR \/ Len(f[k - 1]) = LineSize - 1 THEN f[k - 1]
                ELSE Append(f[k - 1], bytes[k])
        BY <4>1, <1>6 DEF KeptTo
      <4>3. k # 0 => g[k - 1] = f[k - 1]
        BY <2>1
      <4> HIDE DEF g
      <4> QED BY <4>1, <4>2, <4>3
    <3> QED BY <3>1, <3>2
  <2>4. g = [k \in 0..m |-> g[k]]
    OBVIOUS
  <2> HIDE DEF g
  <2> QED BY <2>3, <2>4 DEF KeptTo
<1> QED BY <1>3, <1>7

\* What read_loop has kept after n bytes fits, and has no CR and no LF.
LEMMA KeptSoFar ==
    ASSUME NEW bytes \in Seq(Typeable), NEW f, KeptTo(bytes, Len(bytes), f),
           NEW n \in 0..Len(bytes)
    PROVE  f[n] \in Seq(Typeable \ {CR}) /\ Len(f[n]) < LineSize
<1> DEFINE Good(j) == f[j] \in Seq(Typeable \ {CR}) /\ Len(f[j]) < LineSize
           Bad == {j \in Nat : j <= Len(bytes) /\ ~Good(j)}
<1>1. Len(bytes) \in Nat
  BY LenProperties
<1>2. SUFFICES ASSUME Bad # {} PROVE FALSE
  BY <1>1
<1>3. PICK m \in Bad : \A k \in Bad : m <= k
  BY <1>2, LeastElement
<1>4. m # 0
  <2>1. f[0] = <<>>
    BY <1>1 DEF KeptTo
  <2>2. Good(0)
    BY <2>1, EmptySeq, Sizes
  <2> QED BY <2>2, <1>3
<1>5. m - 1 \in Nat /\ m - 1 <= Len(bytes) /\ m \in 0..Len(bytes) /\ m \in 1..Len(bytes)
  BY <1>1, <1>3, <1>4
<1>6. Good(m - 1)
  BY <1>3, <1>5
<1>7. f[m] = IF bytes[m] = CR \/ Len(f[m - 1]) = LineSize - 1 THEN f[m - 1]
             ELSE Append(f[m - 1], bytes[m])
  BY <1>4, <1>5 DEF KeptTo
<1>8. bytes[m] \in Typeable
  BY <1>5, ElementOfSeq
<1>9. Good(m)
  <2>1. CASE bytes[m] = CR \/ Len(f[m - 1]) = LineSize - 1
    BY <2>1, <1>6, <1>7
  <2>2. CASE ~(bytes[m] = CR \/ Len(f[m - 1]) = LineSize - 1)
    <3>1. bytes[m] \in Typeable \ {CR}
      BY <2>2, <1>8
    <3>2. Append(f[m - 1], bytes[m]) \in Seq(Typeable \ {CR})
          /\ Len(Append(f[m - 1], bytes[m])) = Len(f[m - 1]) + 1
      BY <3>1, <1>6, AppendProperties
    <3>3. Len(f[m - 1]) \in Nat /\ Len(f[m - 1]) < LineSize /\ Len(f[m - 1]) # LineSize - 1
      BY <2>2, <1>6, LenProperties
    <3>4. Len(f[m - 1]) + 1 < LineSize
      BY <3>3, Sizes
    <3> QED BY <2>2, <3>2, <3>4, <1>7
  <2> QED BY <2>1, <2>2
<1> QED BY <1>3, <1>9

\* The loop that Kept describes.
LEMMA KeptLoop ==
    ASSUME NEW bytes \in Seq(Typeable)
    PROVE  \E f : KeptTo(bytes, Len(bytes), f) /\ Kept(bytes) = f[Len(bytes)]
<1> DEFINE it == CHOOSE f : KeptTo(bytes, Len(bytes), f)
<1>1. Len(bytes) \in 0..Len(bytes)
  BY LenProperties
<1>2. \E f : KeptTo(bytes, Len(bytes), f)
  BY <1>1, KeptExists
<1>3. KeptTo(bytes, Len(bytes), it)
  BY <1>2
<1>4. Kept(bytes) = it[Len(bytes)]
  BY DEF Kept, KeptTo
<1> QED BY <1>3, <1>4

LEMMA KeptType ==
    ASSUME NEW bytes \in Seq(Typeable)
    PROVE  /\ Kept(bytes) \in Seq(Typeable \ {CR})
           /\ Len(Kept(bytes)) \in Nat /\ Len(Kept(bytes)) < LineSize
           /\ \A i \in 1..Len(Kept(bytes)) : Kept(bytes)[i] \in Typeable \ {CR}
<1>1. PICK f : KeptTo(bytes, Len(bytes), f) /\ Kept(bytes) = f[Len(bytes)]
  BY KeptLoop
<1>2. Len(bytes) \in 0..Len(bytes)
  BY LenProperties
<1>3. Kept(bytes) \in Seq(Typeable \ {CR}) /\ Len(Kept(bytes)) < LineSize
  BY <1>1, <1>2, KeptSoFar
<1> QED BY <1>3, LenProperties, ElementOfSeq

-----------------------------------------------------------------------------
(* Strings in memory.                                                      *)

\* The first byte of some bytes, where one is known.
LEMMA FirstInIs ==
    ASSUME NEW m, NEW a \in Nat, NEW bytes, NEW x \in a..Top,
           m[x] \in bytes, \A y \in a..(x - 1) : m[y] \notin bytes
    PROVE  FirstIn(m, a, bytes) = x
<1> DEFINE Is(z) == z \in a..Top /\ m[z] \in bytes /\ \A y \in a..(z - 1) : m[y] \notin bytes
<1>1. ASSUME NEW z, Is(z) PROVE z = x
  <2>1. ~(z < x)
    <3>1. z < x => z \in a..(x - 1)
      BY <1>1, Sizes
    <3> QED BY <3>1, <1>1
  <2>2. ~(x < z)
    <3>1. x < z => x \in a..(z - 1)
      BY <1>1, Sizes
    <3> QED BY <3>1, <1>1
  <2> QED BY <2>1, <2>2, <1>1, Sizes
<1>2. Is(x)
  OBVIOUS
<1>3. FirstIn(m, a, bytes) = CHOOSE z : Is(z)
  BY DEF FirstIn
<1> HIDE DEF Is
<1> QED BY <1>1, <1>2, <1>3

LEMMA FirstInBefore ==
    ASSUME NEW m, NEW a \in Nat, NEW bytes, NEW z \in a..Top, m[z] \in bytes
    PROVE  LET x == FirstIn(m, a, bytes)
           IN  x \in a..z /\ m[x] \in bytes /\ \A y \in a..(x - 1) : m[y] \notin bytes
<1> DEFINE Hits == {y \in a..z : m[y] \in bytes}
<1>1. Hits \subseteq Nat /\ z \in Hits
  BY Sizes
<1>2. PICK x \in Hits : \A y \in Hits : x <= y
  BY <1>1, LeastElement
<1>3. x \in a..Top /\ x \in a..z /\ m[x] \in bytes
  BY <1>2, Sizes
<1>4. \A y \in a..(x - 1) : m[y] \notin bytes
  <2>1. \A y \in a..(x - 1) : y \in a..z /\ ~(x <= y)
    BY <1>3, Sizes
  <2> QED BY <2>1, <1>2
<1>5. FirstIn(m, a, bytes) = x
  BY <1>3, <1>4, FirstInIs
<1> QED BY <1>3, <1>4, <1>5

\* The string of n bytes at address a.
Ends(m, a, n) == m[a + n] = 0 /\ \A i \in 0..(n - 1) : m[a + i] # 0

LEMMA StringIs ==
    ASSUME NEW m \in [Cells -> Byte], NEW a \in Nat, NEW n \in Nat, a + n <= Top, Ends(m, a, n)
    PROVE  /\ StringAt(m, a) = BytesAt(m, a, n)
           /\ StringAt(m, a) \in Seq(Byte \ {0}) /\ Len(StringAt(m, a)) = n
           /\ \A i \in 1..n : StringAt(m, a)[i] = m[a + i - 1]
<1>1. FirstIn(m, a, {0}) = a + n
  <2>1. a + n \in a..Top /\ m[a + n] \in {0}
    BY Sizes DEF Ends
  <2>2. ASSUME NEW y \in a..((a + n) - 1) PROVE m[y] \notin {0}
    <3>1. y - a \in 0..(n - 1) /\ a + (y - a) = y
      OBVIOUS
    <3> QED BY <3>1 DEF Ends
  <2> QED BY <2>1, <2>2, FirstInIs
<1>2. StringAt(m, a) = BytesAt(m, a, n)
  BY <1>1 DEF StringAt
<1>3. \A i \in 1..n : m[a + i - 1] \in Byte \ {0}
  <2> TAKE i \in 1..n
  <2>1. i - 1 \in 0..(n - 1) /\ a + i - 1 = a + (i - 1) /\ a + i - 1 \in Cells
    BY Sizes
  <2> QED BY <2>1 DEF Ends
<1>4. BytesAt(m, a, n) \in [1..n -> Byte \ {0}]
  BY <1>3 DEF BytesAt
<1>5. BytesAt(m, a, n) \in Seq(Byte \ {0}) /\ Len(BytesAt(m, a, n)) = n
  BY <1>4, SMT
<1> QED BY <1>2, <1>5 DEF BytesAt

-----------------------------------------------------------------------------
(* The two buffers.                                                        *)

\* Only the buffers are written to, and a string that can be saved is stored.
Tidy(m) ==
    \A a \in Cells :
        a \notin Input..(Input + LineSize - 1) \cup Stored..(Stored + LineSize - 1) => m[a] = 0
Fine(m) == m \in [Cells -> Byte] /\ Tidy(m) /\ SavableLengths(m, Stored) # {}

\* A line of l bytes has been read into the input buffer.
Holds(m, l) == l \in 0..(LineSize - 1) /\ m[l] = 0 /\ \A i \in 0..(l - 1) : m[i] \notin {CR, LF}

\* Outside of the input buffer, m is as old.
Behind(m, old) == \A a \in Cells : LineSize <= a => m[a] = old[a]

Line == Byte \ {0, CR, LF}

LEMMA StoredString ==
    ASSUME NEW m \in [Cells -> Byte], NEW n \in SavableLengths(m, Stored)
    PROVE  /\ Ends(m, Stored, n) /\ n \in Nat /\ n < LineSize
           /\ StringAt(m, Stored) = BytesAt(m, Stored, n)
           /\ StringAt(m, Stored) \in Seq(Line) /\ Len(StringAt(m, Stored)) = n
           /\ \A i \in 1..n : StringAt(m, Stored)[i] = m[Stored + i - 1]
<1>1. n \in Nat /\ n < LineSize /\ Stored \in Nat /\ Stored + n <= Top
  BY Sizes DEF SavableLengths
<1>2. m[Stored + n] = 0 /\ \A i \in 0..(n - 1) : m[Stored + i] \notin {0, CR, LF}
  BY DEF SavableLengths
<1>3. Ends(m, Stored, n)
  BY <1>2 DEF Ends
<1>4. /\ StringAt(m, Stored) = BytesAt(m, Stored, n)
      /\ StringAt(m, Stored) \in Seq(Byte \ {0}) /\ Len(StringAt(m, Stored)) = n
      /\ \A i \in 1..n : StringAt(m, Stored)[i] = m[Stored + i - 1]
  BY <1>1, <1>3, StringIs
<1>5. \A i \in 1..n : m[Stored + i - 1] \in Line
  <2> TAKE i \in 1..n
  <2>1. i - 1 \in 0..(n - 1) /\ Stored + i - 1 = Stored + (i - 1) /\ Stored + i - 1 \in Cells
    BY <1>1, Sizes
  <2> QED BY <2>1, <1>2 DEF Line
<1>6. BytesAt(m, Stored, n) \in [1..n -> Line]
  BY <1>5 DEF BytesAt
<1>7. BytesAt(m, Stored, n) \in Seq(Line)
  BY <1>6, <1>1, SMT
<1> QED BY <1>1, <1>3, <1>4, <1>7

\* Where the input buffer changes, the stored line does not.
LEMMA BehindIsFine ==
    ASSUME NEW old, Fine(old), NEW m \in [Cells -> Byte], Behind(m, old)
    PROVE  Fine(m) /\ StringAt(m, Stored) = StringAt(old, Stored)
<1>1. PICK n : n \in SavableLengths(old, Stored)
  BY DEF Fine
<1>2. n \in Nat /\ n < LineSize
  BY <1>1, Sizes DEF SavableLengths
<1>3. \A i \in 0..n : Stored + i \in Cells /\ LineSize <= Stored + i
  BY <1>2, Sizes
<1>4. \A i \in 0..n : m[Stored + i] = old[Stored + i]
  BY <1>3 DEF Behind
<1>5. n \in SavableLengths(m, Stored)
  <2>1. n \in 0..n /\ \A i \in 0..(n - 1) : i \in 0..n
    BY <1>2
  <2> QED BY <2>1, <1>1, <1>4 DEF SavableLengths
<1>6. Tidy(m)
  <2> SUFFICES ASSUME NEW a \in Cells,
                      a \notin Input..(Input + LineSize - 1) \cup Stored..(Stored + LineSize - 1)
               PROVE  m[a] = 0
    BY DEF Tidy
  <2>1. LineSize <= a
    BY Sizes
  <2> QED BY <2>1 DEF Behind, Fine, Tidy
<1>7. StringAt(m, Stored) = StringAt(old, Stored)
  <2>1. /\ StringAt(m, Stored) = BytesAt(m, Stored, n)
        /\ StringAt(old, Stored) = BytesAt(old, Stored, n)
    BY <1>1, <1>5, StoredString DEF Fine
  <2>2. \A i \in 1..n : m[Stored + i - 1] = old[Stored + i - 1]
    <3> TAKE i \in 1..n
    <3>1. i - 1 \in 0..n /\ Stored + i - 1 = Stored + (i - 1)
      BY <1>2, Sizes
    <3> QED BY <3>1, <1>4
  <2> QED BY <2>1, <2>2 DEF BytesAt
<1> QED BY <1>5, <1>6, <1>7 DEF Fine

LEMMA ReadPartIs ==
    ASSUME NEW m, Fine(m), NEW bytes \in Seq(Typeable)
    PROVE  /\ ReadPart(m, bytes) \in [Cells -> Byte]
           /\ Behind(ReadPart(m, bytes), m)
           /\ \A i \in 0..(Len(Kept(bytes)) - 1) : ReadPart(m, bytes)[i] = Kept(bytes)[i + 1]
<1> DEFINE l == Len(Kept(bytes))
<1>1. /\ l \in Nat /\ l < LineSize
      /\ \A i \in 1..l : Kept(bytes)[i] \in Byte
  BY KeptType DEF Typeable
<1>2. \A a \in Cells : a < l => a + 1 \in 1..l
  BY <1>1, Sizes
<1>3. ReadPart(m, bytes) = [a \in Cells |-> IF a < l THEN Kept(bytes)[a + 1] ELSE m[a]]
  BY DEF ReadPart
<1> HIDE DEF l
<1>4. ReadPart(m, bytes) \in [Cells -> Byte]
  BY <1>1, <1>2, <1>3 DEF Fine
<1>5. Behind(ReadPart(m, bytes), m)
  <2>1. \A a \in Cells : LineSize <= a => ~(a < l)
    BY <1>1, Sizes
  <2> QED BY <2>1, <1>3 DEF Behind
<1>6. \A i \in 0..(l - 1) : ReadPart(m, bytes)[i] = Kept(bytes)[i + 1]
  <2>1. \A i \in 0..(l - 1) : i \in Cells /\ i < l
    BY <1>1, Sizes
  <2> QED BY <2>1, <1>3
<1> QED BY <1>4, <1>5, <1>6 DEF l

LEMMA ReadLineIs ==
    ASSUME NEW m, Fine(m), NEW bytes \in Seq(Typeable)
    PROVE  /\ ReadLine(m, bytes) \in [Cells -> Byte]
           /\ Behind(ReadLine(m, bytes), m)
           /\ Holds(ReadLine(m, bytes), Len(Kept(bytes)))
           /\ \A i \in 0..(Len(Kept(bytes)) - 1) : ReadLine(m, bytes)[i] = Kept(bytes)[i + 1]
<1> DEFINE l == Len(Kept(bytes))
           p == ReadPart(m, bytes)
           r == ReadLine(m, bytes)
<1>1. /\ l \in Nat /\ l < LineSize /\ Input + l = l
      /\ \A i \in 1..l : Kept(bytes)[i] \in Typeable \ {CR}
  BY KeptType, Sizes
<1>2. /\ p \in [Cells -> Byte] /\ Behind(p, m)
      /\ \A i \in 0..(l - 1) : p[i] = Kept(bytes)[i + 1]
  BY ReadPartIs
<1>3. r = [p EXCEPT ![Input + l] = 0]
  BY DEF ReadLine
<1> HIDE DEF l, p, r
<1>4. l \in Cells /\ 0 \in Byte
  BY <1>1, Sizes DEF Byte
<1>5. r \in [Cells -> Byte] /\ r[l] = 0 /\ \A a \in Cells : a # l => r[a] = p[a]
  BY <1>1, <1>2, <1>3, <1>4
<1>6. Behind(r, m)
  <2>1. \A a \in Cells : LineSize <= a => a # l
    BY <1>1, Sizes
  <2> QED BY <2>1, <1>2, <1>5 DEF Behind
<1>7. \A i \in 0..(l - 1) : r[i] = Kept(bytes)[i + 1]
  <2>1. \A i \in 0..(l - 1) : i \in Cells /\ i # l
    BY <1>1, Sizes
  <2> QED BY <2>1, <1>2, <1>5
<1>8. Holds(r, l)
  <2>1. \A i \in 0..(l - 1) : i + 1 \in 1..l
    BY <1>1
  <2>2. \A i \in 0..(l - 1) : r[i] \notin {CR, LF}
    BY <2>1, <1>1, <1>7 DEF Typeable
  <2> QED BY <2>2, <1>1, <1>5, Sizes DEF Holds
<1> QED BY <1>5, <1>6, <1>7, <1>8 DEF l, r

\* A string in the line that has been read.
LEMMA StringInLine ==
    ASSUME NEW m \in [Cells -> Byte], NEW l, Holds(m, l), NEW x \in 0..l
    PROVE  \E n \in 0..(l - x) :
              /\ Ends(m, x, n)
              /\ StringAt(m, x) \in Seq(Line) /\ Len(StringAt(m, x)) = n
              /\ \A i \in 1..n : StringAt(m, x)[i] = m[x + i - 1]
<1> DEFINE end == FirstIn(m, x, {0})
<1>1. l \in Nat /\ l < LineSize /\ x \in Nat /\ x <= l /\ l \in x..Top
  BY Sizes DEF Holds
<1>2. end \in x..l /\ m[end] \in {0} /\ \A y \in x..(end - 1) : m[y] \notin {0}
  BY <1>1, FirstInBefore DEF Holds
<1> HIDE DEF end
<1> DEFINE n == end - x
<1>3. n \in 0..(l - x) /\ n \in Nat /\ x + n = end /\ x + n <= Top
  BY <1>1, <1>2, Sizes
<1>4. Ends(m, x, n)
  <2>1. \A i \in 0..(n - 1) : x + i \in x..(end - 1)
    BY <1>1, <1>3
  <2> QED BY <2>1, <1>2, <1>3 DEF Ends
<1> HIDE DEF n
<1>5. /\ StringAt(m, x) \in Seq(Byte \ {0}) /\ Len(StringAt(m, x)) = n
      /\ \A i \in 1..n : StringAt(m, x)[i] = m[x + i - 1]
  BY <1>1, <1>3, <1>4, StringIs
<1>6. \A i \in 1..n : StringAt(m, x)[i] \in Line
  <2> TAKE i \in 1..n
  <2>1. x + i - 1 \in 0..(l - 1)
    BY <1>1, <1>3
  <2>2. m[x + i - 1] \notin {CR, LF}
    BY <2>1 DEF Holds
  <2>3. StringAt(m, x)[i] \in Byte \ {0}
    BY <1>5, ElementOfSeq
  <2> QED BY <2>2, <2>3, <1>5 DEF Line
<1>7. StringAt(m, x) \in Seq(Line)
  BY <1>5, <1>6, SMT
<1> QED BY <1>3, <1>4, <1>5, <1>7

LEMMA PlaceIsFine ==
    ASSUME NEW m \in [Cells -> Byte], Tidy(m), NEW s \in Seq(Line), Len(s) < LineSize
    PROVE  Fine(PlaceLine(m, Stored, s)) /\ StringAt(PlaceLine(m, Stored, s), Stored) = s
<1> DEFINE n == Len(s)
           r == PlaceLine(m, Stored, s)
<1>1. n \in Nat /\ n < LineSize /\ \A i \in 1..n : s[i] \in Line
  BY LenProperties, ElementOfSeq
<1>2. r = [x \in Cells |-> IF x \in Stored..(Stored + n - 1) THEN s[x - Stored + 1]
                           ELSE IF x = Stored + n THEN 0
                           ELSE m[x]]
  BY DEF PlaceLine
<1> HIDE DEF n, r
<1>3. \A x \in Cells : x \in Stored..(Stored + n - 1) => x - Stored + 1 \in 1..n
  BY <1>1, Sizes
<1>4. r \in [Cells -> Byte]
  BY <1>1, <1>2, <1>3 DEF Line, Byte
<1>5. Tidy(r)
  <2> SUFFICES ASSUME NEW a \in Cells,
                      a \notin Input..(Input + LineSize - 1) \cup Stored..(Stored + LineSize - 1)
               PROVE  r[a] = 0
    BY DEF Tidy
  <2>1. a \notin Stored..(Stored + n - 1) /\ a # Stored + n
    BY <1>1, Sizes
  <2>2. m[a] = 0
    BY DEF Tidy
  <2> QED BY <2>1, <2>2, <1>2
<1>6. \A i \in 0..(n - 1) : r[Stored + i] = s[i + 1]
  <2> TAKE i \in 0..(n - 1)
  <2>1. Stored + i \in Cells /\ Stored + i \in Stored..(Stored + n - 1)
        /\ (Stored + i) - Stored + 1 = i + 1
    BY <1>1, Sizes
  <2> QED BY <2>1, <1>2
<1>7. r[Stored + n] = 0
  <2>1. Stored + n \in Cells /\ Stored + n \notin Stored..(Stored + n - 1)
    BY <1>1, Sizes
  <2> QED BY <2>1, <1>2
<1>8. n \in SavableLengths(r, Stored)
  <2>1. \A i \in 0..(n - 1) : i + 1 \in 1..n
    BY <1>1
  <2>2. \A i \in 0..(n - 1) : r[Stored + i] \notin {0, CR, LF}
    BY <2>1, <1>1, <1>6 DEF Line
  <2> QED BY <2>2, <1>1, <1>7, Sizes DEF SavableLengths
<1>9. StringAt(r, Stored) = s
  <2>1. /\ StringAt(r, Stored) \in Seq(Line) /\ Len(StringAt(r, Stored)) = n
        /\ \A i \in 1..n : StringAt(r, Stored)[i] = r[Stored + i - 1]
    BY <1>4, <1>8, StoredString
  <2>2. \A i \in 1..n : StringAt(r, Stored)[i] = s[i]
    <3> TAKE i \in 1..n
    <3>1. i - 1 \in 0..(n - 1) /\ Stored + i - 1 = Stored + (i - 1) /\ (i - 1) + 1 = i
      BY <1>1, Sizes
    <3> QED BY <3>1, <2>1, <1>6
  <2> QED BY <2>1, <2>2, SeqEqual DEF n
<1> QED BY <1>4, <1>5, <1>8, <1>9 DEF Fine, r

-----------------------------------------------------------------------------
(* split_line.                                                             *)

\* Where split_line finds the command and its end, in a line of l bytes.
LEMMA CommandIs ==
    ASSUME NEW m \in [Cells -> Byte], NEW l, Holds(m, l)
    PROVE  LET start == FirstIn(m, Input, Byte \ {SP})
               end == FirstIn(m, start, {0, SP})
           IN  /\ start \in 0..l /\ m[start] # SP /\ \A y \in 0..(start - 1) : m[y] = SP
               /\ end \in start..l /\ m[end] \in {0, SP}
               /\ \A y \in start..(end - 1) : m[y] \notin {0, SP}
<1> DEFINE start == FirstIn(m, Input, Byte \ {SP})
           end == FirstIn(m, start, {0, SP})
<1>1. l \in Nat /\ l < LineSize /\ m[l] = 0 /\ l \in Input..Top /\ Input = 0
  BY Sizes DEF Holds
<1>2. /\ start \in 0..l /\ m[start] \in Byte \ {SP}
      /\ \A y \in 0..(start - 1) : m[y] \notin Byte \ {SP}
  <2>1. m[l] \in Byte \ {SP}
    BY <1>1 DEF Byte, SP
  <2>2. Input \in Nat /\ l \in Input..Top
    BY <1>1
  <2>3. /\ start \in Input..l /\ m[start] \in Byte \ {SP}
        /\ \A y \in Input..(start - 1) : m[y] \notin Byte \ {SP}
    BY <2>1, <2>2, FirstInBefore
  <2> HIDE DEF start
  <2> QED BY <2>3, <1>1
<1> HIDE DEF start
<1>3. \A y \in 0..(start - 1) : m[y] = SP
  <2>1. \A y \in 0..(start - 1) : y \in Cells
    BY <1>1, <1>2, Sizes
  <2> QED BY <2>1, <1>2
<1>4. end \in start..l /\ m[end] \in {0, SP} /\ \A y \in start..(end - 1) : m[y] \notin {0, SP}
  <2>1. start \in Nat /\ l \in start..Top /\ m[l] \in {0, SP}
    BY <1>1, <1>2, Sizes
  <2> QED BY <2>1, FirstInBefore
<1> QED BY <1>2, <1>3, <1>4 DEF start

\* What split_line does then: there is no separator, or one that it cuts off.
LEMMA SplitIs ==
    ASSUME NEW m \in [Cells -> Byte], NEW l, Holds(m, l)
    PROVE  LET end == FirstIn(m, FirstIn(m, Input, Byte \ {SP}), {0, SP})
               s == SplitLine(m)
           IN  \/ m[end] = 0 /\ s = [mem |-> m, R6 |-> end, R7 |-> FALSE]
               \/ /\ m[end] = SP /\ end < l
                  /\ s = [mem |-> [m EXCEPT ![end] = 0], R6 |-> s.R6, R7 |-> TRUE]
                  /\ s.R6 \in (end + 1)..l /\ m[s.R6] # SP
                  /\ \A y \in (end + 1)..(s.R6 - 1) : m[y] = SP
<1> DEFINE end == FirstIn(m, FirstIn(m, Input, Byte \ {SP}), {0, SP})
           next == FirstIn(m, end + 1, Byte \ {SP})
<1>1. l \in Nat /\ l < LineSize /\ m[l] = 0
  BY Sizes DEF Holds
<1>2. end \in 0..l /\ m[end] \in {0, SP}
  <2>1. /\ FirstIn(m, Input, Byte \ {SP}) \in 0..l
        /\ end \in FirstIn(m, Input, Byte \ {SP})..l /\ m[end] \in {0, SP}
    BY CommandIs
  <2> HIDE DEF end
  <2> QED BY <2>1, <1>1
<1>3. SplitLine(m) = IF m[end] = 0
                     THEN [mem |-> m, R6 |-> end, R7 |-> FALSE]
                     ELSE [mem |-> [m EXCEPT ![end] = 0], R6 |-> next, R7 |-> TRUE]
  BY DEF SplitLine
<1> HIDE DEF end
<1>4. CASE m[end] = 0
  BY <1>4, <1>3 DEF end
<1>5. CASE m[end] # 0
  <2>1. m[end] = SP /\ end # l /\ end < l
    BY <1>1, <1>2, <1>5
  <2>2. end + 1 \in Nat /\ l \in (end + 1)..Top /\ m[l] \in Byte \ {SP}
    BY <1>1, <1>2, <2>1, Sizes DEF Byte, SP
  <2>3. /\ next \in (end + 1)..l /\ m[next] \in Byte \ {SP}
        /\ \A y \in (end + 1)..(next - 1) : m[y] \notin Byte \ {SP}
    BY <2>2, FirstInBefore
  <2> HIDE DEF next
  <2>4. \A y \in (end + 1)..(next - 1) : m[y] = SP
    <3>1. \A y \in (end + 1)..(next - 1) : y \in Cells
      BY <1>1, <1>2, <2>3, Sizes
    <3> QED BY <3>1, <2>3
  <2>5. SplitLine(m) = [mem |-> [m EXCEPT ![end] = 0], R6 |-> next, R7 |-> TRUE]
    BY <1>3, <1>5
  <2>6. SplitLine(m).R6 = next
    BY <2>5
  <2> QED BY <2>1, <2>3, <2>4, <2>5, <2>6 DEF end
<1> QED BY <1>4, <1>5

LEMMA SplitIsFine ==
    ASSUME NEW m, Fine(m), NEW l, Holds(m, l)
    PROVE  /\ Fine(SplitLine(m).mem) /\ Holds(SplitLine(m).mem, l) /\ Behind(SplitLine(m).mem, m)
           /\ SplitLine(m).R6 \in 0..l
           /\ StringAt(SplitLine(m).mem, Stored) = StringAt(m, Stored)
<1> DEFINE end == FirstIn(m, FirstIn(m, Input, Byte \ {SP}), {0, SP})
           s == SplitLine(m)
<1>0. m \in [Cells -> Byte]
  BY DEF Fine
<1>1. l \in Nat /\ l < LineSize /\ m[l] = 0 /\ \A i \in 0..(l - 1) : m[i] \notin {CR, LF}
  BY Sizes DEF Holds
<1>2. end \in 0..l
  <2>1. FirstIn(m, Input, Byte \ {SP}) \in 0..l /\ end \in FirstIn(m, Input, Byte \ {SP})..l
    BY <1>0, CommandIs
  <2> HIDE DEF end
  <2> QED BY <2>1, <1>1
<1>3. \/ s.mem = m /\ s.R6 = end
      \/ end < l /\ s.mem = [m EXCEPT ![end] = 0] /\ s.R6 \in (end + 1)..l
  <2>1. \/ s = [mem |-> m, R6 |-> end, R7 |-> FALSE]
        \/ /\ end < l /\ s.R6 \in (end + 1)..l
           /\ s = [mem |-> [m EXCEPT ![end] = 0], R6 |-> s.R6, R7 |-> TRUE]
    BY <1>0, SplitIs
  <2> HIDE DEF s, end
  <2> QED BY <2>1
<1> HIDE DEF end, s
<1>4. s.R6 \in 0..l
  BY <1>1, <1>2, <1>3
<1>5. s.mem \in [Cells -> Byte] /\ Holds(s.mem, l) /\ Behind(s.mem, m)
  <2>1. CASE s.mem = m
    BY <2>1, <1>0 DEF Behind
  <2>2. CASE end < l /\ s.mem = [m EXCEPT ![end] = 0]
    <3>1. end \in Cells /\ 0 \in Byte
      BY <1>1, <1>2, Sizes DEF Byte
    <3>2. s.mem \in [Cells -> Byte] /\ s.mem[end] = 0 /\ \A a \in Cells : a # end => s.mem[a] = m[a]
      BY <2>2, <3>1, <1>0
    <3>3. Behind(s.mem, m)
      <4>1. \A a \in Cells : LineSize <= a => a # end
        BY <1>1, <1>2, Sizes
      <4> QED BY <4>1, <3>2 DEF Behind
    <3>4. l \in Cells /\ l # end /\ \A i \in 0..(l - 1) : i \in Cells
      BY <1>1, <1>2, <2>2, Sizes
    <3>5. \A i \in 0..(l - 1) : s.mem[i] \in {0, m[i]}
      BY <3>2, <3>4
    <3>6. \A i \in 0..(l - 1) : s.mem[i] \notin {CR, LF}
      BY <3>5, <1>1 DEF CR, LF
    <3> QED BY <3>2, <3>3, <3>4, <3>6, <1>1, Sizes DEF Holds
  <2> QED BY <1>3, <2>1, <2>2
<1>6. Fine(s.mem) /\ StringAt(s.mem, Stored) = StringAt(m, Stored)
  BY <1>5, BehindIsFine
<1> QED BY <1>4, <1>5, <1>6 DEF s

-----------------------------------------------------------------------------
(* The invariants.                                                         *)

\* The three invariants are inductive together: a command copies, or shows, a
\* string of the line just read or the stored one, and needs to know that it
\* ends within its buffer.
IInv == TypeOK /\ StaysInBuffers /\ LineIsSavable

LEMMA InvIsFine ==
    ASSUME IInv
    PROVE  Fine(mem)
BY DEF IInv, TypeOK, StaysInBuffers, LineIsSavable, Fine, Tidy

\* What the program says is no longer than a line.
Said(r) == r.text \in Seq(Byte) /\ Len(r.text) < LineSize

LEMMA NoticeIsSaid ==
    ASSUME NEW name
    PROVE  Said(Notice(name)) /\ Said(Silence)
BY EmptySeq, Sizes DEF Said, Notice, Silence

LEMMA ShownIsSaid ==
    ASSUME NEW s \in Seq(Line), Len(s) < LineSize
    PROVE  Said(Shown(s))
<1>1. s \in Seq(Byte)
  BY ElementOfSeq, LenProperties, SMT DEF Line
<1> QED BY <1>1 DEF Said, Shown

\* What a step has to leave.
Kind == {"command", "set", "echo", "halted", "eof"}
Good == Fine(mem) /\ file \in File /\ phase \in Kind /\ Said(reply)

LEMMA GoodIsInv ==
    ASSUME typed \in Seq(Byte), Good
    PROVE  IInv
BY DEF Good, Kind, Said, IInv, TypeOK, StaysInBuffers, LineIsSavable, Fine, Tidy

LEMMA FreshIsFine ==
    /\ Fine([a \in Cells |-> 0])
    /\ StringAt([a \in Cells |-> 0], Stored) = <<>>
<1> DEFINE m == [a \in Cells |-> 0]
<1>1. m \in [Cells -> Byte] /\ Tidy(m)
  BY DEF Byte, Tidy
<1>2. <<>> \in Seq(Line) /\ Len(<<>>) < LineSize
  BY EmptySeq, Sizes
<1>3. PlaceLine(m, Stored, <<>>) = m
  <2>1. DOMAIN m = Cells /\ \A x \in Cells : m[x] = 0 /\ x \notin Stored..(Stored + Len(<<>>) - 1)
    BY Sizes
  <2> QED BY <2>1, Sizes DEF PlaceLine
<1> QED BY <1>1, <1>2, <1>3, PlaceIsFine

\* What the file may hold after a save.
LEMMA SaveIsFile ==
    ASSUME NEW m, Fine(m), NEW f \in File, NEW o \in SaveOutcomes(m, TRUE, Stored, f)
    PROVE  /\ o.result = 0 => o.file = StringAt(m, Stored)
           /\ o.result # 0 =>
                \/ o.file = f
                \/ \E k \in 0..Len(StringAt(m, Stored)) : o.file = SubSeq(StringAt(m, Stored), 1, k)
           /\ o.file \in File
<1> DEFINE n == CHOOSE n \in SavableLengths(m, Stored) : TRUE
           line == StringAt(m, Stored)
<1>1. n \in SavableLengths(m, Stored)
  BY DEF Fine
<1> HIDE DEF n
<1>2. line = BytesAt(m, Stored, n) /\ line \in Seq(Line)
  BY <1>1, StoredString DEF Fine
<1>3. SaveOutcomes(m, TRUE, Stored, f) =
        {[result |-> 0, file |-> line], [result |-> 1, file |-> f]}
        \cup {[result |-> 1, file |-> SubSeq(line, 1, k)] : k \in 0..Len(line)}
  BY <1>2 DEF SaveOutcomes, Fine, n
<1> HIDE DEF line
<1>4. line \in Seq(Byte) /\ \A k \in 0..Len(line) : SubSeq(line, 1, k) \in Seq(Byte)
  <2>1. Len(line) \in Nat /\ \A i \in 1..Len(line) : line[i] \in Byte
    BY <1>2, ElementOfSeq, LenProperties DEF Line
  <2>2. line \in Seq(Byte)
    BY <2>1, <1>2, SMT
  <2>3. \A k \in 0..Len(line) : SubSeq(line, 1, k) \in Seq(Byte)
    BY <2>1, <2>2, SMT
  <2> QED BY <2>2, <2>3
<1>5. \/ o = [result |-> 0, file |-> line]
      \/ o = [result |-> 1, file |-> f]
      \/ \E k \in 0..Len(line) : o = [result |-> 1, file |-> SubSeq(line, 1, k)]
  BY <1>3
<1>6. CASE o = [result |-> 0, file |-> line]
  BY <1>6, <1>4 DEF File, line
<1>7. CASE o = [result |-> 1, file |-> f]
  BY <1>7 DEF File
<1>8. CASE \E k \in 0..Len(line) : o = [result |-> 1, file |-> SubSeq(line, 1, k)]
  <2>1. PICK k \in 0..Len(line) : o = [result |-> 1, file |-> SubSeq(line, 1, k)]
    BY <1>8
  <2> QED BY <2>1, <1>4 DEF File, line
<1> QED BY <1>5, <1>6, <1>7, <1>8

\* What memory may hold after a load.
LEMMA LoadIsFine ==
    ASSUME NEW m, Fine(m), NEW f \in File, NEW o \in LoadOutcomes(m, TRUE, Stored, f)
    PROVE  /\ Fine(o.mem)
           /\ o.result = 0 => f # NoFile /\ Loadable(f) /\ StringAt(o.mem, Stored) = f
           /\ o.result # 0 => StringAt(o.mem, Stored) = StringAt(m, Stored)
<1>1. \/ o = [result |-> 1, mem |-> m]
      \/ /\ f # NoFile /\ Loadable(f)
         /\ o = [result |-> 0, mem |-> PlaceLine(m, Stored, f)]
  BY DEF LoadOutcomes
<1>2. CASE o = [result |-> 1, mem |-> m]
  BY <1>2
<1>3. CASE /\ f # NoFile /\ Loadable(f)
           /\ o = [result |-> 0, mem |-> PlaceLine(m, Stored, f)]
  <2>1. f \in Seq(Byte) /\ Len(f) \in Nat /\ Len(f) < LineSize
    BY <1>3, LenProperties DEF File, Loadable
  <2>2. \A i \in 1..Len(f) : f[i] \in Line
    BY <2>1, <1>3, ElementOfSeq DEF Loadable, Line
  <2>3. f \in Seq(Line)
    BY <2>1, <2>2, SMT
  <2>4. /\ Fine(PlaceLine(m, Stored, f))
        /\ StringAt(PlaceLine(m, Stored, f), Stored) = f
    BY <2>1, <2>3, PlaceIsFine DEF Fine
  <2> QED BY <2>4, <1>3
<1> QED BY <1>1, <1>2, <1>3

LEMMA LoadedIs ==
    ASSUME NEW m, Fine(m), NEW f \in File, NEW o \in LoadOutcomes(m, TRUE, Stored, f),
           o.result = 0
    PROVE  f # NoFile /\ Loadable(f) /\ StringAt(o.mem, Stored) = f
BY LoadIsFine

\* A string of a line fits a line.
LEMMA StringFits ==
    ASSUME NEW m \in [Cells -> Byte], NEW l, Holds(m, l), NEW x \in 0..l
    PROVE  StringAt(m, x) \in Seq(Line) /\ Len(StringAt(m, x)) < LineSize
<1>1. PICK n \in 0..(l - x) : StringAt(m, x) \in Seq(Line) /\ Len(StringAt(m, x)) = n
  BY StringInLine
<1>2. l \in 0..(LineSize - 1)
  BY DEF Holds
<1> QED BY <1>1, <1>2, Sizes

LEMMA StoredFits ==
    ASSUME NEW m, Fine(m)
    PROVE  StringAt(m, Stored) \in Seq(Line) /\ Len(StringAt(m, Stored)) < LineSize
<1>1. PICK n : n \in SavableLengths(m, Stored)
  BY DEF Fine
<1> QED BY <1>1, StoredString DEF Fine

\* copy_line.
LEMMA CopyIsFine ==
    ASSUME NEW m, Fine(m), NEW l, Holds(m, l), NEW x \in 0..l
    PROVE  Fine(CopyLine(m, x)) /\ StringAt(CopyLine(m, x), Stored) = StringAt(m, x)
<1>1. StringAt(m, x) \in Seq(Line) /\ Len(StringAt(m, x)) < LineSize
  BY StringFits DEF Fine
<1> QED BY <1>1, PlaceIsFine DEF CopyLine, Fine

\* A command, on the memory that split_line has left.
LEMMA CommandIsGood ==
    ASSUME NEW m, Fine(m), NEW l, Holds(m, l), NEW R6 \in 0..l, NEW R7, file \in File,
           \/ DoEcho(m, R6, R7) \/ DoSet(m, R6, R7)
           \/ DoSave(m, R6) \/ DoLoad(m, R6) \/ DoShow(m, R6)
           \/ DoHelp(m, R6) \/ DoQuit(m, R6) \/ DoUnknown(m, R6)
    PROVE  Good'
<1>0. m \in [Cells -> Byte]
  BY DEF Fine
<1>1. CASE DoEcho(m, R6, R7)
  <2>1. Said(Shown(StringAt(m, R6))) /\ Said(Silence)
    BY <1>0, StringFits, ShownIsSaid, NoticeIsSaid
  <2>2. mem' = m /\ file' = file /\ phase' \in {"command", "echo"}
        /\ reply' \in {Shown(StringAt(m, R6)), Silence}
    BY <1>1 DEF DoEcho, Answer
  <2> QED BY <2>1, <2>2 DEF Good, Kind
<1>2. CASE DoSet(m, R6, R7)
  <2>1. mem' \in {m, CopyLine(m, R6)} /\ file' = file /\ phase' \in {"command", "set"}
        /\ reply' = Silence
    BY <1>2 DEF DoSet, Answer
  <2>2. Fine(CopyLine(m, R6))
    BY CopyIsFine
  <2> QED BY <2>1, <2>2, NoticeIsSaid DEF Good, Kind
<1>3. CASE DoSave(m, R6)
  <2>1. PICK o \in SaveOutcomes(m, TRUE, Stored, file) :
            /\ file' = o.file
            /\ Answer(Notice(IF o.result = 0 THEN "saved" ELSE "not saved"), "command")
    BY <1>3 DEF DoSave
  <2>2. mem' = m
    BY <1>3 DEF DoSave
  <2>3. file' \in File
    BY <2>1, SaveIsFile
  <2> QED BY <2>1, <2>2, <2>3, NoticeIsSaid DEF Good, Kind, Answer
<1>4. CASE DoLoad(m, R6)
  <2>1. PICK o \in LoadOutcomes(m, TRUE, Stored, file) :
            /\ mem' = o.mem
            /\ Answer(Notice(IF o.result = 0 THEN "loaded" ELSE "not loaded"), "command")
    BY <1>4 DEF DoLoad
  <2>2. file' = file
    BY <1>4 DEF DoLoad
  <2>3. Fine(mem')
    BY <2>1, LoadIsFine
  <2> QED BY <2>1, <2>2, <2>3, NoticeIsSaid DEF Good, Kind, Answer
<1>5. CASE DoShow(m, R6)
  <2>1. Said(Shown(StringAt(m, Stored)))
    BY StoredFits, ShownIsSaid
  <2> QED BY <2>1, <1>5 DEF DoShow, Answer, Good, Kind
<1>6. CASE DoHelp(m, R6)
  BY <1>6, NoticeIsSaid DEF DoHelp, Answer, Good, Kind
<1>7. CASE DoQuit(m, R6)
  BY <1>7, NoticeIsSaid DEF DoQuit, Answer, Good, Kind
<1>8. CASE DoUnknown(m, R6)
  BY <1>8, NoticeIsSaid DEF DoUnknown, Answer, Good, Kind
<1> QED BY <1>1, <1>2, <1>3, <1>4, <1>5, <1>6, <1>7, <1>8

\* What is typed has no LF.
LEMMA TypedIs ==
    ASSUME NEW bytes \in Typed \cup Texts \cup Unfinished
    PROVE  bytes \in Seq(Typeable) /\ bytes \in Seq(Byte)
<1>1. bytes \in Seq(Typeable)
  BY TypedAssumption DEF Typeable
<1> QED BY <1>1, ElementOfSeq, LenProperties, SMT DEF Typeable

LEMMA InitInv == Init => IInv
<1> SUFFICES ASSUME Init PROVE IInv
  OBVIOUS
<1>1. mem = [a \in Cells |-> 0] /\ file \in File /\ phase = "command" /\ typed = <<>>
      /\ reply = Silence
  BY FilesAssumption DEF Init
<1>2. Good /\ typed \in Seq(Byte)
  BY <1>1, FreshIsFine, NoticeIsSaid, EmptySeq DEF Good, Kind
<1> QED BY <1>2, GoodIsInv

LEMMA NextInv == IInv /\ [Next]_vars => IInv'
<1> SUFFICES ASSUME IInv, [Next]_vars PROVE IInv'
  OBVIOUS
<1>0. Fine(mem) /\ file \in File /\ typed \in Seq(Byte)
  BY InvIsFine DEF IInv, TypeOK
<1>1. SUFFICES ASSUME Next PROVE typed' \in Seq(Byte) /\ Good'
  <2>1. CASE UNCHANGED vars
    BY <2>1 DEF vars, IInv, TypeOK, StaysInBuffers, LineIsSavable
  <2>2. CASE Next
    <3>1. typed' \in Seq(Byte) /\ Good'
      BY <1>1, <2>2
    <3> QED BY <3>1, GoodIsInv DEF IInv, TypeOK, StaysInBuffers, LineIsSavable, Good, Fine, Tidy, Kind, Said
  <2> QED BY <2>1, <2>2
<1>2. ASSUME NEW bytes \in Typed, Command(bytes) PROVE typed' \in Seq(Byte) /\ Good'
  <2>1. bytes \in Seq(Typeable) /\ bytes \in Seq(Byte)
    BY TypedIs
  <2> DEFINE r == ReadLine(mem, bytes)
             l == Len(Kept(bytes))
  <2>2. Fine(r) /\ Holds(r, l)
    BY <1>0, <2>1, ReadLineIs, BehindIsFine
  <2>3. Fine(SplitLine(r).mem) /\ Holds(SplitLine(r).mem, l) /\ SplitLine(r).R6 \in 0..l
    BY <2>2, SplitIsFine
  <2>4. PICK s \in {SplitLine(r)} :
            \/ DoEcho(s.mem, s.R6, s.R7) \/ DoSet(s.mem, s.R6, s.R7)
            \/ DoSave(s.mem, s.R6) \/ DoLoad(s.mem, s.R6) \/ DoShow(s.mem, s.R6)
            \/ DoHelp(s.mem, s.R6) \/ DoQuit(s.mem, s.R6) \/ DoUnknown(s.mem, s.R6)
    BY <1>2 DEF Command
  <2> HIDE DEF r, l
  <2>5. Fine(s.mem) /\ Holds(s.mem, l) /\ s.R6 \in 0..l
    BY <2>3, <2>4
  <2>6. Good'
    BY <1>0, <2>4, <2>5, CommandIsGood
  <2> QED BY <2>1, <2>6, <1>2 DEF Command
<1>3. ASSUME NEW bytes \in Texts, SetText(bytes) PROVE typed' \in Seq(Byte) /\ Good'
  <2>1. bytes \in Seq(Typeable) /\ bytes \in Seq(Byte)
    BY TypedIs
  <2> DEFINE r == ReadLine(mem, bytes)
             l == Len(Kept(bytes))
  <2>2. Fine(r) /\ Holds(r, l) /\ Input \in 0..l
    BY <1>0, <2>1, ReadLineIs, BehindIsFine, KeptType, Sizes
  <2>3. mem' = CopyLine(r, Input) /\ phase' = "command" /\ reply' = Silence /\ file' = file
        /\ typed' = bytes
    BY <1>3 DEF SetText, Answer
  <2> HIDE DEF r, l
  <2>4. Fine(mem')
    BY <2>2, <2>3, CopyIsFine
  <2> QED BY <2>1, <2>3, <2>4, <1>0, NoticeIsSaid DEF Good, Kind
<1>4. ASSUME NEW bytes \in Texts, EchoText(bytes) PROVE typed' \in Seq(Byte) /\ Good'
  <2>1. bytes \in Seq(Typeable) /\ bytes \in Seq(Byte)
    BY TypedIs
  <2> DEFINE r == ReadLine(mem, bytes)
             l == Len(Kept(bytes))
  <2>2. Fine(r) /\ Holds(r, l) /\ Input \in 0..l
    BY <1>0, <2>1, ReadLineIs, BehindIsFine, KeptType, Sizes
  <2>3. mem' = r /\ phase' = "command" /\ reply' = Shown(StringAt(r, Input)) /\ file' = file
        /\ typed' = bytes
    BY <1>4 DEF EchoText, Answer
  <2> HIDE DEF r, l
  <2>4. Said(Shown(StringAt(r, Input)))
    BY <2>2, StringFits, ShownIsSaid DEF Fine
  <2> QED BY <2>1, <2>2, <2>3, <2>4, <1>0 DEF Good, Kind
<1>5. ASSUME NEW bytes \in Unfinished, EndOfInput(bytes) PROVE typed' \in Seq(Byte) /\ Good'
  <2>1. bytes \in Seq(Typeable)
    BY TypedIs
  <2>2. Fine(ReadPart(mem, bytes))
    BY <1>0, <2>1, ReadPartIs, BehindIsFine
  <2> QED BY <2>2, <1>0, <1>5, NoticeIsSaid DEF EndOfInput, Answer, Good, Kind
<1>6. ASSUME Restart PROVE typed' \in Seq(Byte) /\ Good'
  BY <1>0, <1>6, FreshIsFine, NoticeIsSaid, EmptySeq DEF Restart, Answer, Good, Kind
<1> QED BY <1>1, <1>2, <1>3, <1>4, <1>5, <1>6 DEF Next

LEMMA Invariant == Spec => []IInv
<1>1. Init => IInv
  BY InitInv
<1>2. IInv /\ [Next]_vars => IInv'
  BY NextInv
<1> QED BY <1>1, <1>2, PTL DEF Spec

\* The types of the editor's state, and the length of what it prints.
THEOREM EditorTypes == Spec => []TypeOK
<1>1. IInv => TypeOK
  BY DEF IInv
<1> QED BY <1>1, Invariant, PTL

\* No line, however long, writes behind a buffer.
THEOREM BuffersCorrect == Spec => []StaysInBuffers
<1>1. IInv => StaysInBuffers
  BY DEF IInv
<1> QED BY <1>1, Invariant, PTL

\* The stored line is always one that SYSCALL 4 accepts.
THEOREM SavableCorrect == Spec => []LineIsSavable
<1>1. IInv => LineIsSavable
  BY DEF IInv
<1> QED BY <1>1, Invariant, PTL

-----------------------------------------------------------------------------
(* What is typed, as the abstract editor sees it.                          *)

\* v is what is visible of each of the first n bytes.
VisibleTo(bytes, n, v) ==
    v = [k \in 0..n |->
            IF k = 0 THEN <<>>
            ELSE IF bytes[k] = CR THEN v[k - 1] ELSE Append(v[k - 1], bytes[k])]

LEMMA VisibleExists ==
    ASSUME NEW bytes \in Seq(Typeable), NEW n \in 0..Len(bytes)
    PROVE  \E v : VisibleTo(bytes, n, v)
<1> DEFINE Bad == {j \in Nat : j <= Len(bytes) /\ ~\E v : VisibleTo(bytes, j, v)}
<1>1. Len(bytes) \in Nat
  BY LenProperties
<1>2. SUFFICES ASSUME Bad # {} PROVE FALSE
  BY <1>1
<1>3. PICK m \in Bad : \A k \in Bad : m <= k
  BY <1>2, LeastElement
<1>4. m # 0
  <2>1. VisibleTo(bytes, 0, [k \in 0..0 |-> <<>>])
    BY DEF VisibleTo
  <2> QED BY <2>1, <1>3
<1>5. m - 1 \in Nat /\ m - 1 <= Len(bytes) /\ m - 1 \notin Bad
  BY <1>1, <1>3, <1>4
<1>6. PICK v : VisibleTo(bytes, m - 1, v)
  BY <1>5
<1> DEFINE w == [k \in 0..m |->
                    IF k = m
                    THEN IF bytes[k] = CR THEN v[k - 1] ELSE Append(v[k - 1], bytes[k])
                    ELSE v[k]]
<1>7. VisibleTo(bytes, m, w)
  <2>1. \A k \in 0..m : k # 0 => k - 1 \in 0..m /\ k - 1 # m /\ w[k - 1] = v[k - 1]
    BY <1>3
  <2>2. \A k \in 0..m : w[k] = IF k = 0 THEN <<>>
            ELSE IF bytes[k] = CR THEN w[k - 1] ELSE Append(w[k - 1], bytes[k])
    <3> TAKE k \in 0..m
    <3>1. CASE k = m
      <4>1. w[k] = IF bytes[k] = CR THEN v[k - 1] ELSE Append(v[k - 1], bytes[k])
        BY <3>1
      <4>2. k # 0 /\ w[k - 1] = v[k - 1]
        BY <3>1, <2>1, <1>4
      <4> HIDE DEF w
      <4> QED BY <4>1, <4>2
    <3>2. CASE k # m
      <4>1. k \in 0..(m - 1) /\ w[k] = v[k]
        BY <3>2, <1>3
      <4>2. v[k] = IF k = 0 THEN <<>>
                ELSE IF bytes[k] = CR THEN v[k - 1] ELSE Append(v[k - 1], bytes[k])
        BY <4>1, <1>6 DEF VisibleTo
      <4>3. k # 0 => w[k - 1] = v[k - 1]
        BY <2>1
      <4> HIDE DEF w
      <4> QED BY <4>1, <4>2, <4>3
    <3> QED BY <3>1, <3>2
  <2>3. w = [k \in 0..m |-> w[k]]
    OBVIOUS
  <2> HIDE DEF w
  <2> QED BY <2>2, <2>3 DEF VisibleTo
<1> QED BY <1>3, <1>7

LEMMA VisibleLoop ==
    ASSUME NEW bytes \in Seq(Typeable)
    PROVE  \E v : VisibleTo(bytes, Len(bytes), v) /\ Abstract!Visible(bytes) = v[Len(bytes)]
<1> DEFINE it == CHOOSE v : VisibleTo(bytes, Len(bytes), v)
<1>1. Len(bytes) \in 0..Len(bytes)
  BY LenProperties
<1>2. \E v : VisibleTo(bytes, Len(bytes), v)
  BY <1>1, VisibleExists
<1>3. VisibleTo(bytes, Len(bytes), it)
  BY <1>2
<1>4. Abstract!Visible(bytes) = it[Len(bytes)]
  BY DEF Abstract!Visible, VisibleTo, Abstract!CR, CR
<1> QED BY <1>3, <1>4

\* k is what fits of v.
Fitting(k, v) ==
    /\ Len(k) = IF Len(v) < LineSize THEN Len(v) ELSE LineSize - 1
    /\ \A i \in 1..Len(k) : k[i] = v[i]

LEMMA FittingSoFar ==
    ASSUME NEW bytes \in Seq(Typeable),
           NEW f, KeptTo(bytes, Len(bytes), f), NEW v, VisibleTo(bytes, Len(bytes), v),
           NEW n \in 0..Len(bytes)
    PROVE  v[n] \in Seq(Typeable) /\ Fitting(f[n], v[n])
<1> DEFINE Well(j) == v[j] \in Seq(Typeable) /\ Fitting(f[j], v[j])
           Bad == {j \in Nat : j <= Len(bytes) /\ ~Well(j)}
<1>1. Len(bytes) \in Nat
  BY LenProperties
<1>2. SUFFICES ASSUME Bad # {} PROVE FALSE
  BY <1>1
<1>3. PICK m \in Bad : \A k \in Bad : m <= k
  BY <1>2, LeastElement
<1>4. m # 0
  <2>1. f[0] = <<>> /\ v[0] = <<>>
    BY <1>1 DEF KeptTo, VisibleTo
  <2>2. Well(0)
    BY <2>1, EmptySeq, Sizes DEF Fitting
  <2> QED BY <2>2, <1>3
<1>5. m - 1 \in Nat /\ m - 1 <= Len(bytes) /\ m \in 0..Len(bytes) /\ m \in 1..Len(bytes)
      /\ m - 1 \in 0..Len(bytes)
  BY <1>1, <1>3, <1>4
<1>6. Well(m - 1)
  BY <1>3, <1>5
<1>7. /\ f[m] = IF bytes[m] = CR \/ Len(f[m - 1]) = LineSize - 1 THEN f[m - 1]
                ELSE Append(f[m - 1], bytes[m])
      /\ v[m] = IF bytes[m] = CR THEN v[m - 1] ELSE Append(v[m - 1], bytes[m])
  BY <1>4, <1>5 DEF KeptTo, VisibleTo
<1>8. bytes[m] \in Typeable
  BY <1>5, ElementOfSeq
<1> DEFINE g == f[m - 1]
           w == v[m - 1]
           b == bytes[m]
<1>9. g \in Seq(Typeable) /\ Len(g) \in Nat /\ w \in Seq(Typeable) /\ Len(w) \in Nat
  <2>1. g \in Seq(Typeable \ {CR})
    BY <1>5, KeptSoFar
  <2> HIDE DEF g
  <2>2. g \in Seq(Typeable)
    BY <2>1, ElementOfSeq, LenProperties, SMT
  <2> QED BY <2>2, <1>6, LenProperties
<1>10. Fitting(g, w)
  BY <1>6
<1> HIDE DEF g, w, b
<1>11. /\ Append(g, b) \in Seq(Typeable) /\ Len(Append(g, b)) = Len(g) + 1
       /\ \A i \in 1..Len(g) : Append(g, b)[i] = g[i]
       /\ Append(g, b)[Len(g) + 1] = b
       /\ Append(w, b) \in Seq(Typeable) /\ Len(Append(w, b)) = Len(w) + 1
       /\ \A i \in 1..Len(w) : Append(w, b)[i] = w[i]
       /\ Append(w, b)[Len(w) + 1] = b
  BY <1>8, <1>9, AppendProperties DEF b
<1>12. /\ b = CR => f[m] = g /\ v[m] = w
       /\ b # CR /\ Len(g) = LineSize - 1 => f[m] = g /\ v[m] = Append(w, b)
       /\ b # CR /\ Len(g) # LineSize - 1 => f[m] = Append(g, b) /\ v[m] = Append(w, b)
  BY <1>7 DEF g, w, b
<1>13. Well(m)
  <2>1. CASE b = CR
    BY <2>1, <1>9, <1>10, <1>12
  <2>2. CASE b # CR /\ Len(g) = LineSize - 1
    <3>1. LineSize - 1 <= Len(w)
      BY <2>2, <1>9, <1>10, Sizes DEF Fitting
    <3>2. Len(Append(w, b)) >= LineSize /\ Len(Append(w, b)) \in Nat
      BY <3>1, <1>9, <1>11, Sizes
    <3>3. \A i \in 1..Len(g) : g[i] = Append(w, b)[i]
      <4>1. \A i \in 1..Len(g) : i \in 1..Len(w)
        BY <3>1, <2>2, <1>9
      <4> QED BY <4>1, <1>10, <1>11 DEF Fitting
    <3>4. Len(g) = IF Len(Append(w, b)) < LineSize THEN Len(Append(w, b)) ELSE LineSize - 1
      BY <2>2, <3>2, Sizes
    <3>5. Fitting(g, Append(w, b))
      BY <3>3, <3>4 DEF Fitting
    <3> QED BY <2>2, <3>5, <1>11, <1>12
  <2>3. CASE b # CR /\ Len(g) # LineSize - 1
    <3>1. Len(g) = Len(w) /\ Len(w) < LineSize - 1
      BY <2>3, <1>9, <1>10, Sizes DEF Fitting
    <3>2. \A i \in 1..Len(Append(g, b)) : Append(g, b)[i] = Append(w, b)[i]
      <4> TAKE i \in 1..Len(Append(g, b))
      <4>1. i \in 1..Len(g) \/ i = Len(g) + 1
        BY <1>9, <1>11
      <4>2. CASE i \in 1..Len(g)
        BY <4>2, <3>1, <1>10, <1>11 DEF Fitting
      <4>3. CASE i = Len(g) + 1
        BY <4>3, <3>1, <1>11
      <4> QED BY <4>1, <4>2, <4>3
    <3>3. Len(Append(g, b)) = Len(Append(w, b)) /\ Len(Append(w, b)) < LineSize
      BY <3>1, <1>9, <1>11, Sizes
    <3> QED BY <2>3, <3>2, <3>3, <1>11, <1>12 DEF Fitting
  <2> QED BY <2>1, <2>2, <2>3
<1> QED BY <1>3, <1>13

\* The program keeps what is visible and fits.
LEMMA KeptFits ==
    ASSUME NEW bytes \in Seq(Typeable)
    PROVE  Abstract!Visible(bytes) \in Seq(Typeable) /\ Fitting(Kept(bytes), Abstract!Visible(bytes))
<1>1. PICK f : KeptTo(bytes, Len(bytes), f) /\ Kept(bytes) = f[Len(bytes)]
  BY KeptLoop
<1>2. PICK v : VisibleTo(bytes, Len(bytes), v) /\ Abstract!Visible(bytes) = v[Len(bytes)]
  BY VisibleLoop
<1>3. Len(bytes) \in 0..Len(bytes)
  BY LenProperties
<1> QED BY <1>1, <1>2, <1>3, FittingSoFar

\* What is read is the text that the abstract editor sees.
LEMMA TextIs ==
    ASSUME NEW m, Fine(m), NEW bytes \in Seq(Typeable)
    PROVE  LET r == ReadLine(m, bytes)
               t == Abstract!TextOf(bytes)
           IN  /\ t = StringAt(r, Input) /\ t \in Seq(Line)
               /\ Holds(r, Len(t)) /\ \A i \in 1..Len(t) : t[i] = r[i - 1]
<1> DEFINE r == ReadLine(m, bytes)
           v == Abstract!Visible(bytes)
           l == Len(Kept(bytes))
           Is(n) == n \in 0..l /\ (n = l \/ v[n + 1] = 0) /\ \A i \in 1..n : v[i] # 0
<1>1. /\ r \in [Cells -> Byte] /\ Holds(r, l) /\ l \in Nat
      /\ \A i \in 0..(l - 1) : r[i] = Kept(bytes)[i + 1]
  BY ReadLineIs, KeptType
<1>2. v \in Seq(Typeable) /\ Fitting(Kept(bytes), v)
  BY KeptFits
<1>3. /\ l = IF Len(v) < LineSize THEN Len(v) ELSE LineSize - 1
      /\ \A i \in 1..l : Kept(bytes)[i] = v[i]
  BY <1>2 DEF Fitting
<1>4. Abstract!TextOf(bytes) = SubSeq(v, 1, CHOOSE n : Is(n))
  <2>1. Abstract!TextOf(bytes) =
            SubSeq(v, 1, CHOOSE n \in 0..l :
                /\ n = l \/ v[n + 1] = 0
                /\ \A i \in 1..n : v[i] # 0)
    BY <1>3, Zenon DEF Abstract!TextOf
  <2> QED BY <2>1
<1> HIDE DEF r, v, l
<1>5. Len(v) \in Nat /\ l <= Len(v) /\ l \in 0..(LineSize - 1)
  BY <1>1, <1>2, <1>3, LenProperties, Sizes DEF Holds
<1>6. \A i \in 0..(l - 1) : r[i] = v[i + 1]
  <2>1. \A i \in 0..(l - 1) : i + 1 \in 1..l
    BY <1>1
  <2> QED BY <2>1, <1>1, <1>3 DEF l
<1>7. PICK n \in 0..(l - 0) :
          /\ Ends(r, 0, n)
          /\ StringAt(r, 0) \in Seq(Line) /\ Len(StringAt(r, 0)) = n
          /\ \A i \in 1..n : StringAt(r, 0)[i] = r[0 + i - 1]
  <2>1. 0 \in 0..l
    BY <1>1
  <2>2. r \in [Cells -> Byte] /\ Holds(r, l)
    BY <1>1
  <2>3. \A x \in 0..l : \E n \in 0..(l - x) :
            /\ Ends(r, x, n)
            /\ StringAt(r, x) \in Seq(Line) /\ Len(StringAt(r, x)) = n
            /\ \A i \in 1..n : StringAt(r, x)[i] = r[x + i - 1]
    BY <2>2, StringInLine, Zenon
  <2> QED BY <2>1, <2>3
<1>8. n \in 0..l /\ r[n] = 0 /\ \A i \in 0..(n - 1) : r[i] # 0
  <2>1. n \in 0..l /\ 0 + n = n /\ \A i \in 0..(n - 1) : 0 + i = i
    BY <1>1
  <2> QED BY <2>1, <1>7 DEF Ends
<1>9. \A i \in 1..n : r[i - 1] = v[i] /\ v[i] # 0
  <2> TAKE i \in 1..n
  <2>1. i - 1 \in 0..(l - 1) /\ i - 1 \in 0..(n - 1) /\ (i - 1) + 1 = i
    BY <1>1, <1>8
  <2> QED BY <2>1, <1>6, <1>8
<1>10. Is(n)
  <2>1. n # l => n \in 0..(l - 1)
    BY <1>1, <1>8
  <2> QED BY <2>1, <1>6, <1>8, <1>9
<1>11. ASSUME NEW k, Is(k) PROVE k = n
  <2>1. ~(k < n)
    <3>1. k < n => k + 1 \in 1..n /\ k # l
      BY <1>1, <1>8, <1>11
    <3> QED BY <3>1, <1>9, <1>11
  <2>2. ~(n < k)
    <3>1. n < k => n + 1 \in 1..k /\ n # l
      BY <1>1, <1>8, <1>11
    <3> QED BY <3>1, <1>10, <1>11
  <2> QED BY <2>1, <2>2, <1>1, <1>8, <1>11
<1>12. (CHOOSE k : Is(k)) = n
  <2> HIDE DEF Is
  <2> QED BY <1>10, <1>11
<1>13. StringAt(r, 0) = SubSeq(v, 1, n)
  <2>1. n \in 0..Len(v)
    BY <1>1, <1>5, <1>8
  <2>2. /\ SubSeq(v, 1, n) \in Seq(Typeable) /\ Len(SubSeq(v, 1, n)) = n
        /\ \A i \in 1..n : SubSeq(v, 1, n)[i] = v[i]
    <3>1. SubSeq(v, 1, n) = [i \in 1..n |-> v[i]]
      BY <2>1, <1>2, <1>5, SMT
    <3>2. \A i \in 1..n : v[i] \in Typeable
      BY <2>1, <1>2, <1>5, ElementOfSeq
    <3>3. [i \in 1..n |-> v[i]] \in [1..n -> Typeable]
      BY <3>2
    <3> QED BY <3>1, <3>3, <2>1, <1>5, SMT
  <2>3. StringAt(r, 0) \in Seq(Typeable)
    BY <1>7, ElementOfSeq, LenProperties, SMT DEF Line, Typeable
  <2>4. \A i \in 1..n : StringAt(r, 0)[i] = SubSeq(v, 1, n)[i]
    <3> TAKE i \in 1..n
    <3>1. 0 + i - 1 = i - 1
      BY <1>8
    <3> QED BY <3>1, <2>2, <1>7, <1>9
  <2> QED BY <2>2, <2>3, <2>4, <1>7, SeqEqual
<1>14. Abstract!TextOf(bytes) = StringAt(r, 0)
  BY <1>4, <1>12, <1>13
<1>15. Holds(r, n)
  <2>1. n \in 0..(LineSize - 1) /\ \A i \in 0..(n - 1) : i \in 0..(l - 1)
    BY <1>5, <1>8, Sizes
  <2> QED BY <2>1, <1>1, <1>8 DEF Holds, l
<1>16. \A i \in 1..n : StringAt(r, 0)[i] = r[i - 1]
  <2>1. \A i \in 1..n : 0 + i - 1 = i - 1
    BY <1>8
  <2> QED BY <2>1, <1>7
<1> QED BY <1>7, <1>14, <1>15, <1>16, Sizes DEF r

-----------------------------------------------------------------------------
(* The parts of a command: split_line and Parsed find the same.            *)

\* A string of a line as a part of the text.
LEMMA PartIs ==
    ASSUME NEW t \in Seq(Line), NEW a \in 0..Len(t), NEW b \in a..Len(t),
           NEW m \in [Cells -> Byte], Len(t) <= Top, Ends(m, a, b - a),
           \A i \in 1..(b - a) : m[a + i - 1] = t[a + i]
    PROVE  StringAt(m, a) = SubSeq(t, a + 1, b) /\ Len(SubSeq(t, a + 1, b)) = b - a
<1>1. Len(t) \in Nat /\ a \in Nat /\ b \in Nat /\ b - a \in Nat /\ a + (b - a) <= Top
  BY LenProperties, Sizes
<1>2. StringAt(m, a) = [i \in 1..(b - a) |-> m[a + i - 1]]
  BY <1>1, StringIs DEF BytesAt
<1>3. SubSeq(t, a + 1, b) = [i \in 1..(b - a) |-> t[a + i]]
  BY <1>1, SMT
<1>4. StringAt(m, a) = SubSeq(t, a + 1, b)
  BY <1>2, <1>3
<1>5. Len(StringAt(m, a)) = b - a
  BY <1>1, StringIs
<1> QED BY <1>4, <1>5

\* The parts of a record like those of Parsed.
LEMMA PartsOf ==
    ASSUME NEW c, NEW b, NEW g, NEW p, p = [command |-> c, separated |-> b, argument |-> g]
    PROVE  p.command = c /\ p.argument = g /\ p.separated = b
<1>1. p.command = c
  OBVIOUS
<1>2. p.argument = g
  OBVIOUS
<1>3. p.separated = b
  BY Zenon
<1> QED BY <1>1, <1>2, <1>3, Zenon

LEMMA ParsedIs ==
    ASSUME NEW m \in [Cells -> Byte], NEW t \in Seq(Line), Holds(m, Len(t)),
           \A i \in 1..Len(t) : t[i] = m[i - 1]
    PROVE  LET s == SplitLine(m)
               p == Abstract!Parsed(t)
           IN  /\ p.separated <=> s.R7
               /\ p.argument = StringAt(s.mem, s.R6)
               /\ (s.mem[s.R6] = 0) <=> (p.argument = <<>>)
               /\ p.command = StringAt(s.mem, FirstIn(s.mem, Input, Byte \ {SP}))
<1> DEFINE k == Len(t)
           start == FirstIn(m, Input, Byte \ {SP})
           end == FirstIn(m, start, {0, SP})
           s == SplitLine(m)
           R6 == s.R6
<1>1. k \in Nat /\ k < LineSize /\ m[k] = 0 /\ \A i \in 1..k : t[i] \in Line
  BY LenProperties, ElementOfSeq, Sizes DEF Holds
<1>2. /\ start \in 0..k /\ m[start] # SP /\ \A y \in 0..(start - 1) : m[y] = SP
      /\ end \in start..k /\ m[end] \in {0, SP}
      /\ \A y \in start..(end - 1) : m[y] \notin {0, SP}
  BY CommandIs
<1>3. \/ m[end] = 0 /\ s = [mem |-> m, R6 |-> end, R7 |-> FALSE]
      \/ /\ m[end] = SP /\ end < k
         /\ s = [mem |-> [m EXCEPT ![end] = 0], R6 |-> R6, R7 |-> TRUE]
         /\ R6 \in (end + 1)..k /\ m[R6] # SP
         /\ \A y \in (end + 1)..(R6 - 1) : m[y] = SP
  BY SplitIs
<1> HIDE DEF start, end, s
\* The text and memory, from one to the other.
<1>4. \A y \in 0..(k - 1) : m[y] = t[y + 1] /\ m[y] \in Line /\ m[y] # 0
  <2> TAKE y \in 0..(k - 1)
  <2>1. y + 1 \in 1..k /\ (y + 1) - 1 = y
    BY <1>1
  <2> QED BY <2>1, <1>1 DEF Line
<1>5. \A i \in 1..k : t[i] = m[i - 1]
  OBVIOUS
<1>6. m[end] = 0 <=> end = k
  <2>1. end # k => end \in 0..(k - 1)
    BY <1>1, <1>2
  <2> QED BY <2>1, <1>1, <1>4
<1> DEFINE Lead(n) == n \in 0..k /\ (\A x \in 1..n : t[x] = SP) /\ (n < k => t[n + 1] # SP)
           Ends1(n) == n \in start..k /\ (\A x \in (start + 1)..n : t[x] # SP) /\ (n < k => t[n + 1] = SP)
           Gap(n) == n \in end..k /\ (\A x \in (end + 1)..n : t[x] = SP) /\ (n < k => t[n + 1] # SP)
<1> HIDE DEF k
<1>7. Lead(start)
  <2>1. \A x \in 1..start : x \in 1..k /\ x - 1 \in 0..(start - 1)
    BY <1>1, <1>2
  <2>2. \A x \in 1..start : t[x] = SP
    BY <2>1, <1>2, <1>5
  <2>3. start < k => start \in 0..(k - 1)
    BY <1>1, <1>2
  <2> QED BY <2>2, <2>3, <1>2, <1>4
<1>8. ASSUME NEW n, Lead(n) PROVE n = start
  <2>1. ~(n < start)
    <3>1. n < start => n + 1 \in 1..start /\ n < k
      BY <1>1, <1>2, <1>8
    <3> QED BY <3>1, <1>7, <1>8
  <2>2. ~(start < n)
    <3>1. start < n => start + 1 \in 1..n /\ start < k
      BY <1>1, <1>2, <1>8
    <3> QED BY <3>1, <1>7, <1>8
  <2> QED BY <2>1, <2>2, <1>1, <1>2, <1>8
<1>9. Ends1(end)
  <2>1. \A x \in (start + 1)..end : x \in 1..k /\ x - 1 \in start..(end - 1)
    BY <1>1, <1>2
  <2>2. \A x \in (start + 1)..end : t[x] # SP
    BY <2>1, <1>2, <1>5
  <2>3. end < k => end \in 0..(k - 1)
    BY <1>1, <1>2
  <2>4. end < k => m[end] = SP
    BY <1>1, <1>2, <1>6
  <2> QED BY <2>2, <2>3, <2>4, <1>2, <1>4
<1>10. ASSUME NEW n, Ends1(n) PROVE n = end
  <2>1. ~(n < end)
    <3>1. n < end => n + 1 \in (start + 1)..end /\ n < k
      BY <1>1, <1>2, <1>10
    <3> QED BY <3>1, <1>9, <1>10
  <2>2. ~(end < n)
    <3>1. end < n => end + 1 \in (start + 1)..n /\ end < k
      BY <1>1, <1>2, <1>10
    <3> QED BY <3>1, <1>9, <1>10
  <2> QED BY <2>1, <2>2, <1>1, <1>2, <1>10
<1>11. /\ R6 \in end..k /\ (R6 = end => end = k) /\ (R6 # end => R6 > end)
       /\ end = k => s.mem = m
       /\ end # k => s.mem = [m EXCEPT ![end] = 0]
  <2>1. CASE end = k
    <3>1. s = [mem |-> m, R6 |-> end, R7 |-> FALSE]
      BY <2>1, <1>1, <1>2, <1>3
    <3>2. R6 = end /\ s.mem = m
      BY <3>1
    <3> HIDE DEF R6
    <3> QED BY <2>1, <3>2, <1>1
  <2>2. CASE end # k
    <3>1. /\ s = [mem |-> [m EXCEPT ![end] = 0], R6 |-> R6, R7 |-> TRUE]
          /\ R6 \in (end + 1)..k
      BY <2>2, <1>3, <1>6
    <3>2. s.mem = [m EXCEPT ![end] = 0]
      BY <3>1
    <3> HIDE DEF R6
    <3>3. R6 \in (end + 1)..k
      BY <3>1
    <3> QED BY <2>2, <3>2, <3>3, <1>1, <1>2
  <2> QED BY <2>1, <2>2
<1>12. Gap(R6)
  <2>1. CASE end = k
    <3>1. R6 = k /\ \A x \in (end + 1)..R6 : FALSE
      BY <2>1, <1>1, <1>11
    <3> HIDE DEF R6
    <3> QED BY <3>1, <2>1, <1>1
  <2>2. CASE end # k
    <3>1. /\ m[end] = SP /\ m[R6] # SP
          /\ R6 \in (end + 1)..k
          /\ \A y \in (end + 1)..(R6 - 1) : m[y] = SP
      BY <2>2, <1>3, <1>6
    <3> HIDE DEF R6
    <3>2. \A x \in (end + 1)..R6 : x \in 1..k /\ (x - 1 = end \/ x - 1 \in (end + 1)..(R6 - 1))
      BY <3>1, <1>1, <1>2
    <3>3. \A x \in (end + 1)..R6 : t[x] = SP
      BY <3>1, <3>2, <1>5
    <3>4. R6 < k => R6 \in 0..(k - 1)
      BY <3>1, <1>1, <1>2
    <3>5. R6 \in end..k
      BY <3>1, <1>1, <1>2
    <3> QED BY <3>1, <3>3, <3>4, <3>5, <1>4
  <2> QED BY <2>1, <2>2
<1> HIDE DEF R6
<1>13. ASSUME NEW n, Gap(n) PROVE n = R6
  <2>1. ~(n < R6)
    <3>1. n < R6 => n + 1 \in (end + 1)..R6 /\ n < k
      BY <1>1, <1>2, <1>11, <1>13
    <3> QED BY <3>1, <1>12, <1>13
  <2>2. ~(R6 < n)
    <3>1. R6 < n => R6 + 1 \in (end + 1)..n /\ R6 < k
      BY <1>1, <1>2, <1>11, <1>13
    <3> QED BY <3>1, <1>12, <1>13
  <2> QED BY <2>1, <2>2, <1>1, <1>2, <1>11, <1>13
<1>14. Abstract!Parsed(t) = [command |-> SubSeq(t, start + 1, end),
                             separated |-> end < k,
                             argument |-> SubSeq(t, R6 + 1, k)]
  <2> DEFINE lead == CHOOSE n : Lead(n)
             cut == CHOOSE n : Ends1(n)
             gap == CHOOSE n : Gap(n)
  <2>1. lead = start /\ cut = end /\ gap = R6
    <3> HIDE DEF Lead, Ends1, Gap
    <3> QED BY <1>7, <1>8, <1>9, <1>10, <1>12, <1>13
  <2>2. Abstract!SP = SP
    BY DEF Abstract!SP, SP
  <2> DEFINE L == CHOOSE n \in 0..k :
                      (\A x \in 1..n : t[x] = SP) /\ (n < k => ~(t[n + 1] = SP))
             C(q) == CHOOSE n \in q..k :
                      (\A x \in (q + 1)..n : ~(t[x] = SP)) /\ (n < k => t[n + 1] = SP)
             G(q) == CHOOSE n \in q..k :
                      (\A x \in (q + 1)..n : t[x] = SP) /\ (n < k => ~(t[n + 1] = SP))
  <2>3. Abstract!Parsed(t) = [command |-> SubSeq(t, L + 1, C(L)),
                              separated |-> C(L) < k,
                              argument |-> SubSeq(t, G(C(L)) + 1, k)]
    BY <2>2 DEF Abstract!Parsed, k
  <2>4. L = lead
    OBVIOUS
  <2>5. C(start) = cut
    OBVIOUS
  <2>6. G(end) = gap
    OBVIOUS
  <2> HIDE DEF L, C, G, lead, cut, gap
  <2> QED BY <2>1, <2>3, <2>4, <2>5, <2>6
<1> HIDE DEF Lead, Ends1, Gap
<1>15. s.mem \in [Cells -> Byte] /\ \A y \in 0..k : y # end => s.mem[y] = m[y]
  <2>1. end \in Cells /\ 0 \in Byte /\ \A y \in 0..k : y \in Cells
    BY <1>1, <1>2, Sizes DEF Byte
  <2> QED BY <2>1, <1>11
<1>16. s.mem[end] = 0
  <2>1. end \in Cells
    BY <1>1, <1>2, Sizes
  <2> QED BY <2>1, <1>1, <1>11
<1>17. s.mem[k] = 0
  BY <1>1, <1>15, <1>16
<1>18. StringAt(s.mem, R6) = SubSeq(t, R6 + 1, k) /\ Len(SubSeq(t, R6 + 1, k)) = k - R6
  <2>1. \A i \in 0..((k - R6) - 1) : R6 + i \in 0..(k - 1) /\ R6 + i \in 0..k /\ R6 + i # end
    BY <1>1, <1>2, <1>11
  <2>2. \A i \in 0..((k - R6) - 1) : s.mem[R6 + i] # 0
    BY <2>1, <1>4, <1>15
  <2>3. R6 + (k - R6) = k
    BY <1>1, <1>2, <1>11
  <2>4. Ends(s.mem, R6, k - R6)
    BY <2>2, <2>3, <1>17 DEF Ends
  <2>5. \A i \in 1..(k - R6) : s.mem[R6 + i - 1] = t[R6 + i]
    <3> TAKE i \in 1..(k - R6)
    <3>1. R6 + i - 1 \in 0..(k - 1) /\ R6 + i - 1 \in 0..k /\ R6 + i - 1 # end /\ (R6 + i - 1) + 1 = R6 + i
      BY <1>1, <1>2, <1>11
    <3> QED BY <3>1, <1>4, <1>15
  <2>6. R6 \in 0..Len(t) /\ k \in R6..Len(t) /\ Len(t) <= Top
    BY <1>1, <1>2, <1>11, Sizes DEF k
  <2> QED BY <2>4, <2>5, <2>6, <1>15, PartIs
<1>19. (s.mem[R6] = 0) <=> (SubSeq(t, R6 + 1, k) = <<>>)
  <2>1. CASE R6 = k
    <3>1. SubSeq(t, R6 + 1, k) = <<>>
      BY <2>1, <1>1, SMT
    <3> QED BY <2>1, <3>1, <1>17
  <2>2. CASE R6 # k
    <3>1. R6 \in 0..(k - 1) /\ R6 \in 0..k /\ R6 # end /\ k - R6 # 0
      BY <2>2, <1>1, <1>2, <1>11
    <3>2. s.mem[R6] # 0
      BY <3>1, <1>4, <1>15
    <3>3. SubSeq(t, R6 + 1, k) # <<>>
      BY <3>1, <1>18, EmptySeq
    <3> QED BY <3>2, <3>3
  <2> QED BY <2>1, <2>2
<1>20. FirstIn(s.mem, Input, Byte \ {SP}) = start
  <2>1. start \in Input..Top /\ Input \in Nat /\ Input = 0
    BY <1>1, <1>2, Sizes
  <2>2. s.mem[start] \in Byte \ {SP}
    <3>1. CASE start = end
      BY <3>1, <1>16 DEF Byte, SP
    <3>2. CASE start # end
      <4>1. start \in 0..k /\ start \in Cells
        BY <1>1, <1>2, Sizes
      <4> QED BY <4>1, <3>2, <1>2, <1>15
    <3> QED BY <3>1, <3>2
  <2>3. \A y \in Input..(start - 1) : s.mem[y] \notin Byte \ {SP}
    <3>1. \A y \in Input..(start - 1) : y \in 0..k /\ y # end /\ y \in 0..(start - 1)
      BY <2>1, <1>1, <1>2
    <3> QED BY <3>1, <1>2, <1>15
  <2> QED BY <2>1, <2>2, <2>3, FirstInIs
<1>21. StringAt(s.mem, start) = SubSeq(t, start + 1, end)
  <2>1. \A i \in 0..((end - start) - 1) : start + i \in 0..(k - 1) /\ start + i \in 0..k /\ start + i # end
    BY <1>1, <1>2
  <2>2. \A i \in 0..((end - start) - 1) : s.mem[start + i] # 0
    BY <2>1, <1>4, <1>15
  <2>3. start + (end - start) = end
    BY <1>1, <1>2
  <2>4. Ends(s.mem, start, end - start)
    BY <2>2, <2>3, <1>16 DEF Ends
  <2>5. \A i \in 1..(end - start) : s.mem[start + i - 1] = t[start + i]
    <3> TAKE i \in 1..(end - start)
    <3>1. start + i - 1 \in 0..(k - 1) /\ start + i - 1 \in 0..k /\ start + i - 1 # end
          /\ (start + i - 1) + 1 = start + i
      BY <1>1, <1>2
    <3> QED BY <3>1, <1>4, <1>15
  <2>6. start \in 0..Len(t) /\ end \in start..Len(t) /\ Len(t) <= Top
    BY <1>1, <1>2, Sizes DEF k
  <2> QED BY <2>4, <2>5, <2>6, <1>15, PartIs
<1>22. /\ Abstract!Parsed(t).command = SubSeq(t, start + 1, end)
       /\ Abstract!Parsed(t).argument = SubSeq(t, R6 + 1, k)
       /\ Abstract!Parsed(t).separated = (end < k)
  <2> DEFINE c == SubSeq(t, start + 1, end)
             b == end < k
             g == SubSeq(t, R6 + 1, k)
             p == Abstract!Parsed(t)
  <2>1. p = [command |-> c, separated |-> b, argument |-> g]
    BY <1>14, Zenon
  <2> HIDE DEF c, b, g, p
  <2>2. p.command = c /\ p.argument = g /\ p.separated = b
    BY <2>1, PartsOf
  <2> QED BY <2>2, Zenon DEF c, b, g, p
<1>23. Abstract!Parsed(t).separated <=> end < k
  BY <1>22, Zenon
<1>24. s.R7 <=> end < k
  <2>1. CASE end = k
    <3>1. s = [mem |-> m, R6 |-> end, R7 |-> FALSE]
      BY <2>1, <1>1, <1>2, <1>3
    <3>2. ~s.R7
      BY <3>1
    <3>3. ~(end < k)
      BY <2>1, <1>1
    <3> QED BY <3>2, <3>3, Zenon
  <2>2. CASE end # k
    <3>1. s = [mem |-> [m EXCEPT ![end] = 0], R6 |-> R6, R7 |-> TRUE]
      BY <2>2, <1>3, <1>6
    <3>2. s.R7
      BY <3>1
    <3>3. end < k
      BY <2>2, <1>1, <1>2
    <3> QED BY <3>2, <3>3, Zenon
  <2> QED BY <2>1, <2>2
<1>25. Abstract!Parsed(t).separated <=> s.R7
  BY <1>23, <1>24, Zenon
<1>26. /\ Abstract!Parsed(t).command = SubSeq(t, start + 1, end)
       /\ Abstract!Parsed(t).argument = SubSeq(t, R6 + 1, k)
  BY <1>22, Zenon
<1>27. /\ Abstract!Parsed(t).argument = StringAt(s.mem, R6)
       /\ (s.mem[R6] = 0) <=> (Abstract!Parsed(t).argument = <<>>)
       /\ Abstract!Parsed(t).command = StringAt(s.mem, FirstIn(s.mem, Input, Byte \ {SP}))
  BY <1>18, <1>19, <1>20, <1>21, <1>26
<1> QED BY <1>25, <1>27, Zenon DEF s, R6

\* Both modules spell the commands and the answers alike.
LEMMA SameWords ==
    /\ Abstract!EchoWord = EchoWord /\ Abstract!SetWord = SetWord /\ Abstract!SaveWord = SaveWord
    /\ Abstract!LoadWord = LoadWord /\ Abstract!ShowWord = ShowWord /\ Abstract!HelpWord = HelpWord
    /\ Abstract!QuitWord = QuitWord /\ Abstract!Silence = Silence
    /\ \A name : Abstract!Notice(name) = Notice(name)
    /\ \A bytes : Abstract!Shown(bytes) = Shown(bytes)
    /\ \A f : Abstract!Loadable(f) <=> Loadable(f)
    /\ \A r, next : Abstract!Answer(r, next) <=> Answer(r, next)
BY DEF Abstract!EchoWord, EchoWord, Abstract!SetWord, SetWord, Abstract!SaveWord, SaveWord,
       Abstract!LoadWord, LoadWord, Abstract!ShowWord, ShowWord, Abstract!HelpWord, HelpWord,
       Abstract!QuitWord, QuitWord, Abstract!Silence, Silence, Abstract!Notice, Notice,
       Abstract!Shown, Shown, Abstract!Loadable, Loadable, Abstract!Answer, Answer,
       Abstract!CR, CR, Abstract!LF, LF

-----------------------------------------------------------------------------
(* The program implements the editor without buffers.                      *)

\* What command_loop does, in the memory m that split_line has left.
Done(m, R6, R7) ==
    \/ DoEcho(m, R6, R7) \/ DoSet(m, R6, R7)
    \/ DoSave(m, R6) \/ DoLoad(m, R6) \/ DoShow(m, R6)
    \/ DoHelp(m, R6) \/ DoQuit(m, R6) \/ DoUnknown(m, R6)

\* A command does to the string stored what the editor does to its text.
LEMMA CommandObeys ==
    ASSUME NEW m, Fine(m), NEW l, Holds(m, l), NEW R6 \in 0..l, NEW R7, NEW p, file \in File,
           StringAt(m, Stored) = StringAt(mem, Stored),
           p.separated <=> R7,
           p.argument = StringAt(m, R6),
           (m[R6] = 0) <=> (p.argument = <<>>),
           p.command = StringAt(m, FirstIn(m, Input, Byte \ {SP})),
           Done(m, R6, R7)
    PROVE  Abstract!Heed(p)
<1> DEFINE text == StringAt(mem, Stored)
<1>0. p.command \in Commands /\ Abstract!Obey(p) => Abstract!Heed(p)
  BY Zenon DEF Abstract!Heed
<1>1. \A word : Matches(m, word) <=> word \in Commands /\ p.command = word
  BY DEF Matches, CompareCommand
<1>2. \A word : Alone(m, R6, word) <=> word \in Commands /\ p.command = word /\ p.argument = <<>>
  BY <1>1 DEF Alone
<1>3. mem' = m => text' = text
  OBVIOUS
<1>4. CASE DoEcho(m, R6, R7)
  <2>1. /\ Matches(m, EchoWord) /\ mem' = m /\ file' = file
        /\ R7 => Answer(Shown(StringAt(m, R6)), "command")
        /\ ~R7 => Answer(Silence, "echo")
    BY <1>4, Zenon DEF DoEcho
  <2>2. p.command = EchoWord /\ p.command \in Commands /\ text' = text
    BY <2>1, <1>1, <1>3
  <2>3. /\ p.separated => Answer(Shown(p.argument), "command")
        /\ ~p.separated => Answer(Silence, "echo")
    BY <2>1, Zenon
  <2>9. Abstract!Obey(p)
    BY <2>1, <2>2, <2>3, SameWords, Zenon DEF Abstract!Obey
  <2> QED BY <2>2, <2>9, <1>0
<1>5. CASE DoSet(m, R6, R7)
  <2>1. /\ Matches(m, SetWord) /\ file' = file
        /\ R7 => mem' = CopyLine(m, R6) /\ Answer(Silence, "command")
        /\ ~R7 => mem' = m /\ Answer(Silence, "set")
    BY <1>5, Zenon DEF DoSet
  <2>2. p.command = SetWord /\ p.command \in Commands
    BY <2>1, <1>1
  <2>3. StringAt(CopyLine(m, R6), Stored) = StringAt(m, R6)
    BY CopyIsFine
  <2>4. mem' = CopyLine(m, R6) => text' = p.argument
    BY <2>3
  <2>5. CASE p.separated
    <3>1. text' = p.argument /\ Answer(Silence, "command")
      BY <2>1, <2>4, <2>5, Zenon
    <3>2. Abstract!Obey(p)
      BY <2>1, <2>2, <2>5, <3>1, SameWords, Zenon DEF Abstract!Obey
    <3> QED BY <2>2, <3>2, <1>0
  <2>6. CASE ~p.separated
    <3>1. text' = text /\ Answer(Silence, "set")
      BY <2>1, <1>3, <2>6, Zenon
    <3>2. Abstract!Obey(p)
      BY <2>1, <2>2, <2>6, <3>1, SameWords, Zenon DEF Abstract!Obey
    <3> QED BY <2>2, <3>2, <1>0
  <2> QED BY <2>5, <2>6
<1>6. CASE DoSave(m, R6)
  <2>1. p.command = SaveWord /\ p.command \in Commands /\ p.argument = <<>> /\ mem' = m
    BY <1>6, <1>2 DEF DoSave
  <2>2. PICK o \in SaveOutcomes(m, TRUE, Stored, file) :
            /\ file' = o.file
            /\ Answer(Notice(IF o.result = 0 THEN "saved" ELSE "not saved"), "command")
    BY <1>6 DEF DoSave
  <2>3. \/ file' = text /\ Answer(Notice("saved"), "command")
        \/ /\ file' = file \/ \E k \in 0..Len(text) : file' = SubSeq(text, 1, k)
           /\ Answer(Notice("not saved"), "command")
    <3>1. /\ o.result = 0 => o.file = text
          /\ o.result # 0 => o.file = file \/ \E k \in 0..Len(text) : o.file = SubSeq(text, 1, k)
      BY SaveIsFile
    <3> HIDE DEF text
    <3>2. CASE o.result = 0
      BY <3>1, <3>2, <2>2
    <3>3. CASE o.result # 0
      BY <3>1, <3>3, <2>2
    <3> QED BY <3>2, <3>3
  <2>9. Abstract!Obey(p)
    BY <2>1, <2>3, <1>3, SameWords, Zenon DEF Abstract!Obey
  <2> QED BY <2>1, <2>9, <1>0
<1>7. CASE DoLoad(m, R6)
  <2>1. p.command = LoadWord /\ p.command \in Commands /\ p.argument = <<>> /\ file' = file
    BY <1>7, <1>2 DEF DoLoad
  <2>2. PICK o \in LoadOutcomes(m, TRUE, Stored, file) :
            /\ mem' = o.mem
            /\ Answer(Notice(IF o.result = 0 THEN "loaded" ELSE "not loaded"), "command")
    BY <1>7 DEF DoLoad
  <2>3. \/ /\ file # NoFile /\ Loadable(file)
           /\ text' = file /\ Answer(Notice("loaded"), "command")
        \/ text' = text /\ Answer(Notice("not loaded"), "command")
    <3>1. /\ o.result = 0 => file # NoFile /\ Loadable(file) /\ StringAt(o.mem, Stored) = file
          /\ o.result # 0 => StringAt(o.mem, Stored) = text
      <4>1. ASSUME o.result = 0 PROVE file # NoFile /\ Loadable(file) /\ StringAt(o.mem, Stored) = file
        BY <4>1, LoadedIs
      <4>2. o.result # 0 => StringAt(o.mem, Stored) = StringAt(m, Stored)
        BY LoadIsFine
      <4> QED BY <4>1, <4>2
    <3>2. text' = StringAt(o.mem, Stored)
      BY <2>2
    <3> HIDE DEF text
    <3>3. CASE o.result = 0
      BY <3>1, <3>2, <3>3, <2>2
    <3>4. CASE o.result # 0
      BY <3>1, <3>2, <3>4, <2>2
    <3> QED BY <3>3, <3>4
  <2>9. Abstract!Obey(p)
    BY <2>1, <2>3, SameWords, Zenon DEF Abstract!Obey
  <2> QED BY <2>1, <2>9, <1>0
<1>8. CASE DoShow(m, R6)
  <2>1. /\ p.command = ShowWord /\ p.command \in Commands /\ p.argument = <<>> /\ mem' = m
        /\ file' = file /\ Answer(Shown(text), "command")
    BY <1>8, <1>2 DEF DoShow
  <2>9. Abstract!Obey(p)
    BY <2>1, <1>3, SameWords, Zenon DEF Abstract!Obey
  <2> QED BY <2>1, <2>9, <1>0
<1>9. CASE DoHelp(m, R6)
  <2>1. /\ p.command = HelpWord /\ p.command \in Commands /\ p.argument = <<>> /\ mem' = m
        /\ file' = file /\ Answer(Notice("help"), "command")
    BY <1>9, <1>2 DEF DoHelp
  <2>9. Abstract!Obey(p)
    BY <2>1, <1>3, SameWords, Zenon DEF Abstract!Obey
  <2> QED BY <2>1, <2>9, <1>0
<1>10. CASE DoQuit(m, R6)
  <2>1. /\ p.command = QuitWord /\ p.command \in Commands /\ p.argument = <<>> /\ mem' = m
        /\ file' = file /\ Answer(Notice("goodbye"), "halted")
    BY <1>10, <1>2 DEF DoQuit
  <2>9. Abstract!Obey(p)
    BY <2>1, <1>3, SameWords, Zenon DEF Abstract!Obey
  <2> QED BY <2>1, <2>9, <1>0
<1>11. CASE DoUnknown(m, R6)
  <2>1. mem' = m /\ file' = file /\ Answer(Notice("unknown"), "command")
    BY <1>11, Zenon DEF DoUnknown
  <2>2. /\ p.command \in Commands => p.command \notin {EchoWord, SetWord}
        /\ p.command \in Commands \cap {ShowWord, HelpWord, QuitWord, SaveWord, LoadWord}
              => p.argument # <<>>
    BY <1>11, <1>1, <1>2 DEF DoUnknown
  <2>3. p.command \in Commands => p.command \notin {EchoWord, SetWord} /\ p.argument # <<>>
    BY <2>2, CommandsAssumption DEF EditorCommands
  <2>4. Abstract!Refuse
    BY <2>1, <1>3, SameWords, Zenon DEF Abstract!Refuse
  <2>5. p.command \in Commands => Abstract!Obey(p)
    BY <2>3, <2>4, SameWords, Zenon DEF Abstract!Obey
  <2> QED BY <2>4, <2>5, Zenon DEF Abstract!Heed
<1> QED BY <1>4, <1>5, <1>6, <1>7, <1>8, <1>9, <1>10, <1>11 DEF Done

\* What a line read leaves of the text, and where it stands.
LEMMA LineIsText ==
    ASSUME NEW bytes \in Seq(Typeable), Fine(mem)
    PROVE  LET r == ReadLine(mem, bytes)
               t == Abstract!TextOf(bytes)
           IN  /\ Fine(r) /\ StringAt(r, Stored) = StringAt(mem, Stored)
               /\ t = StringAt(r, Input) /\ t \in Seq(Line)
               /\ Holds(r, Len(t)) /\ \A i \in 1..Len(t) : t[i] = r[i - 1]
<1>1. Fine(ReadLine(mem, bytes)) /\ StringAt(ReadLine(mem, bytes), Stored) = StringAt(mem, Stored)
  BY ReadLineIs, BehindIsFine
<1> QED BY <1>1, TextIs

LEMMA InitImplements == Init => Abstract!Init
<1> SUFFICES ASSUME Init PROVE Abstract!Init
  OBVIOUS
<1>1. StringAt(mem, Stored) = <<>>
  BY FreshIsFine DEF Init
<1> QED BY <1>1, SameWords DEF Init, Abstract!Init

LEMMA NextImplements == IInv /\ [Next]_vars => [Abstract!Next]_(Abstract!vars)
<1> SUFFICES ASSUME IInv, [Next]_vars PROVE [Abstract!Next]_(Abstract!vars)
  OBVIOUS
<1>0. Fine(mem) /\ file \in File
  BY InvIsFine DEF IInv, TypeOK
<1>1. ASSUME NEW bytes \in Typed, Command(bytes) PROVE Abstract!Command(bytes)
  <2> DEFINE r == ReadLine(mem, bytes)
             t == Abstract!TextOf(bytes)
             p == Abstract!Parsed(t)
             s == SplitLine(r)
  <2>1. bytes \in Seq(Typeable)
    BY TypedIs
  <2>2. /\ Fine(r) /\ StringAt(r, Stored) = StringAt(mem, Stored)
        /\ t \in Seq(Line) /\ Holds(r, Len(t)) /\ \A i \in 1..Len(t) : t[i] = r[i - 1]
    BY <1>0, <2>1, LineIsText
  <2>3. phase = "command" /\ typed' = bytes
    BY <1>1 DEF Command
  <2>4. \/ DoEcho(s.mem, s.R6, s.R7) \/ DoSet(s.mem, s.R6, s.R7)
        \/ DoSave(s.mem, s.R6) \/ DoLoad(s.mem, s.R6) \/ DoShow(s.mem, s.R6)
        \/ DoHelp(s.mem, s.R6) \/ DoQuit(s.mem, s.R6) \/ DoUnknown(s.mem, s.R6)
    BY <1>1 DEF Command
  <2> HIDE DEF r, t
  <2>5. /\ Fine(s.mem) /\ Holds(s.mem, Len(t)) /\ s.R6 \in 0..Len(t)
        /\ StringAt(s.mem, Stored) = StringAt(mem, Stored)
    BY <2>2, SplitIsFine
  <2>6. r \in [Cells -> Byte]
    BY <2>2 DEF Fine
  <2>7. /\ p.separated <=> s.R7
        /\ p.argument = StringAt(s.mem, s.R6)
        /\ (s.mem[s.R6] = 0) <=> (p.argument = <<>>)
        /\ p.command = StringAt(s.mem, FirstIn(s.mem, Input, Byte \ {SP}))
    BY <2>2, <2>6, ParsedIs, Zenon
  <2> DEFINE m == s.mem
             R6 == s.R6
             R7 == s.R7
             l == Len(t)
  <2> HIDE DEF s, p, m, R6, R7, l
  <2>8. Abstract!Heed(p)
    <3>1. Fine(m) /\ Holds(m, l) /\ R6 \in 0..l /\ StringAt(m, Stored) = StringAt(mem, Stored)
      BY <2>5 DEF m, R6, l
    <3>2. /\ p.separated <=> R7
          /\ p.argument = StringAt(m, R6)
          /\ (m[R6] = 0) <=> (p.argument = <<>>)
          /\ p.command = StringAt(m, FirstIn(m, Input, Byte \ {SP}))
      BY <2>7, Zenon DEF m, R6, R7
    <3>3. Done(m, R6, R7)
      BY <2>4, Zenon DEF m, R6, R7, Done
    <3> QED BY <1>0, <3>1, <3>2, <3>3, CommandObeys, Zenon
  <2> QED BY <2>3, <2>8, Zenon DEF Abstract!Command, p, t
<1>2. ASSUME NEW bytes \in Texts, SetText(bytes) PROVE Abstract!SetText(bytes)
  <2> DEFINE r == ReadLine(mem, bytes)
             t == Abstract!TextOf(bytes)
  <2>1. bytes \in Seq(Typeable)
    BY TypedIs
  <2>2. Fine(r) /\ t = StringAt(r, Input) /\ t \in Seq(Line) /\ Holds(r, Len(t))
    BY <1>0, <2>1, LineIsText
  <2>3. /\ phase = "set" /\ typed' = bytes /\ file' = file /\ Answer(Silence, "command")
        /\ mem' = CopyLine(r, Input)
    BY <1>2 DEF SetText
  <2> HIDE DEF r, t
  <2>4. Input \in 0..Len(t)
    BY <2>2, LenProperties, Sizes
  <2>5. StringAt(mem', Stored) = t
    BY <2>2, <2>3, <2>4, CopyIsFine
  <2> QED BY <2>3, <2>5, SameWords DEF Abstract!SetText, t
<1>3. ASSUME NEW bytes \in Texts, EchoText(bytes) PROVE Abstract!EchoText(bytes)
  <2> DEFINE r == ReadLine(mem, bytes)
             t == Abstract!TextOf(bytes)
  <2>1. bytes \in Seq(Typeable)
    BY TypedIs
  <2>2. StringAt(r, Stored) = StringAt(mem, Stored) /\ t = StringAt(r, Input)
    BY <1>0, <2>1, LineIsText
  <2>3. /\ phase = "echo" /\ typed' = bytes /\ file' = file
        /\ Answer(Shown(StringAt(r, Input)), "command") /\ mem' = r
    BY <1>3 DEF EchoText
  <2> HIDE DEF r, t
  <2> QED BY <2>2, <2>3, SameWords DEF Abstract!EchoText, t
<1>4. ASSUME NEW bytes \in Unfinished, EndOfInput(bytes) PROVE Abstract!EndOfInput
  <2>1. bytes \in Seq(Typeable)
    BY TypedIs
  <2>2. StringAt(ReadPart(mem, bytes), Stored) = StringAt(mem, Stored)
    BY <1>0, <2>1, ReadPartIs, BehindIsFine
  <2> QED BY <2>2, <1>4, SameWords DEF EndOfInput, Abstract!EndOfInput
<1>5. ASSUME Restart PROVE Abstract!Restart
  <2>1. StringAt(mem', Stored) = <<>>
    BY <1>5, FreshIsFine DEF Restart
  <2> QED BY <2>1, <1>5, SameWords DEF Restart, Abstract!Restart
<1>6. CASE UNCHANGED vars
  BY <1>6 DEF vars, Abstract!vars
<1>7. CASE Next
  <2>1. Abstract!Next
    BY <1>1, <1>2, <1>3, <1>4, <1>5, <1>7, Zenon DEF Next, Abstract!Next
  <2> QED BY <2>1
<1> QED BY <1>6, <1>7

\* The program on its two buffers does, for every size of them and whatever is
\* typed, what the editor does that has none.
THEOREM EditorImplements == Spec => IsAnEditor
<1>1. Init => Abstract!Init
  BY InitImplements
<1>2. IInv /\ [Next]_vars => [Abstract!Next]_(Abstract!vars)
  BY NextImplements
<1> QED BY <1>1, <1>2, Invariant, PTL DEF Spec, IsAnEditor, Abstract!Spec
=============================================================================
