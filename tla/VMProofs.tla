------------------------------ MODULE VMProofs ------------------------------
(***************************************************************************)
(* Facts about the operators of Words, for every word.  The types of the   *)
(* machine of VM, proved for every size of memory, every program file and  *)
(* every input, and the lemmas on types that the proofs about its stack    *)
(* use.  And that a program with a certificate, as defined in Confinement, *)
(* keeps to it, and stops where it should.                                 *)
(***************************************************************************)
EXTENDS Confinement, TLAPS, SequenceTheorems

-----------------------------------------------------------------------------
(* Words.                                                                  *)

\* A literal range is unrolled by the provers; they are given bounds instead.
LEMMA ByteBounds == \A b : b \in Byte <=> b \in Int /\ 0 <= b /\ b <= 255
BY SMT DEF Byte

\* The number a word stands for.
Value(w) == w[1] * 16777216 + w[2] * 65536 + w[3] * 256 + w[4]

\* The four bytes of a word.
LEMMA BytesOfWord ==
    ASSUME NEW w \in Word
    PROVE  /\ w[1] \in Int /\ 0 <= w[1] /\ w[1] <= 255
           /\ w[2] \in Int /\ 0 <= w[2] /\ w[2] <= 255
           /\ w[3] \in Int /\ 0 <= w[3] /\ w[3] <= 255
           /\ w[4] \in Int /\ 0 <= w[4] /\ w[4] <= 255
BY ByteBounds, SMT DEF Word

\* Four bytes make a word.
LEMMA WordOfBytes ==
    ASSUME NEW b1 \in Byte, NEW b2 \in Byte, NEW b3 \in Byte, NEW b4 \in Byte
    PROVE  <<b1, b2, b3, b4>> \in Word
BY SMT DEF Word

\* The three low bytes of a word are a number below 2^24.
LEMMA Low24Type ==
    ASSUME NEW w \in Word
    PROVE  Low24(w) \in Nat /\ Low24(w) <= 16777215
BY BytesOfWord, SMT DEF Low24

\* A remainder is a byte, and one column of an addition or a subtraction is the
\* quotient, its carry or borrow, and the remainder, its byte.
LEMMA Column ==
    ASSUME NEW s \in Int
    PROVE  /\ s \div 256 \in Int
           /\ s % 256 \in Byte /\ s % 256 \in Int
           /\ s = (s \div 256) * 256 + (s % 256)
BY ByteBounds, SMT

LEMMA WordOfType == ASSUME NEW n \in Nat PROVE WordOf(n) \in Word
<1>1. /\ n \div 16777216 \in Int /\ n \div 65536 \in Int /\ n \div 256 \in Int /\ n \in Int
  BY SMT
<1>2. /\ (n \div 16777216) % 256 \in Byte /\ (n \div 65536) % 256 \in Byte
      /\ (n \div 256) % 256 \in Byte /\ n % 256 \in Byte
  BY <1>1, Column
<1> QED BY <1>2, WordOfBytes DEF WordOf

\* ADD and INC (notes/vm.c) add modulo 2^32: the carry out of the top byte is
\* all that is lost.
THEOREM AddIsModular ==
    ASSUME NEW a \in Word, NEW b \in Word
    PROVE  /\ Add(a, b) \in Word
           /\ \E carry \in {0, 1} :
                 Value(a) + Value(b) = Value(Add(a, b)) + carry * 4294967296
<1> DEFINE s4 == a[4] + b[4]
           s3 == a[3] + b[3] + (s4 \div 256)
           s2 == a[2] + b[2] + (s3 \div 256)
           s1 == a[1] + b[1] + (s2 \div 256)
<1>1. Add(a, b) = <<s1 % 256, s2 % 256, s3 % 256, s4 % 256>>
  BY DEF Add
<1>2. /\ a[1] \in Int /\ a[2] \in Int /\ a[3] \in Int /\ a[4] \in Int
      /\ b[1] \in Int /\ b[2] \in Int /\ b[3] \in Int /\ b[4] \in Int
  BY BytesOfWord
<1>3. s4 \in Int
  BY <1>2, SMT
<1>4. a[4] + b[4] = s4
  OBVIOUS
<1>5. s3 = a[3] + b[3] + (s4 \div 256)
  OBVIOUS
<1>6. s2 = a[2] + b[2] + (s3 \div 256)
  OBVIOUS
<1>7. s1 = a[1] + b[1] + (s2 \div 256)
  OBVIOUS
<1> HIDE DEF s1, s2, s3, s4
<1>8. s3 \in Int
  BY <1>2, <1>3, <1>5, Column, SMT
<1>9. s2 \in Int
  BY <1>2, <1>6, <1>8, Column, SMT
<1>10. s1 \in Int
  BY <1>2, <1>7, <1>9, Column, SMT
<1>11. Add(a, b) \in Word
  BY <1>1, <1>3, <1>8, <1>9, <1>10, Column, WordOfBytes
<1>12. /\ Add(a, b)[1] = s1 % 256 /\ Add(a, b)[2] = s2 % 256
       /\ Add(a, b)[3] = s3 % 256 /\ Add(a, b)[4] = s4 % 256
  BY <1>1
<1>13. /\ s4 = (s4 \div 256) * 256 + Add(a, b)[4] /\ s4 \div 256 \in Int
       /\ s3 = (s3 \div 256) * 256 + Add(a, b)[3] /\ s3 \div 256 \in Int
       /\ s2 = (s2 \div 256) * 256 + Add(a, b)[2] /\ s2 \div 256 \in Int
       /\ s1 = (s1 \div 256) * 256 + Add(a, b)[1] /\ s1 \div 256 \in Int
  BY <1>3, <1>8, <1>9, <1>10, <1>12, Column
<1> DEFINE q4 == s4 \div 256
           q3 == s3 \div 256
           q2 == s2 \div 256
           q1 == s1 \div 256
<1>14. /\ a[4] + b[4] = q4 * 256 + Add(a, b)[4]
       /\ a[3] + b[3] + q4 = q3 * 256 + Add(a, b)[3]
       /\ a[2] + b[2] + q3 = q2 * 256 + Add(a, b)[2]
       /\ a[1] + b[1] + q2 = q1 * 256 + Add(a, b)[1]
       /\ q1 \in Int /\ q2 \in Int /\ q3 \in Int /\ q4 \in Int
  BY <1>4, <1>5, <1>6, <1>7, <1>13
<1> HIDE DEF q1, q2, q3, q4
<1> DEFINE r == Add(a, b)
<1>15. /\ r[1] \in Int /\ 0 <= r[1] /\ r[1] <= 255
       /\ r[2] \in Int /\ 0 <= r[2] /\ r[2] <= 255
       /\ r[3] \in Int /\ 0 <= r[3] /\ r[3] <= 255
       /\ r[4] \in Int /\ 0 <= r[4] /\ r[4] <= 255
  BY <1>11, BytesOfWord
<1>16. /\ a[4] + b[4] = q4 * 256 + r[4]
       /\ a[3] + b[3] + q4 = q3 * 256 + r[3]
       /\ a[2] + b[2] + q3 = q2 * 256 + r[2]
       /\ a[1] + b[1] + q2 = q1 * 256 + r[1]
  BY <1>14
<1>17. Value(r) = r[1] * 16777216 + r[2] * 65536 + r[3] * 256 + r[4]
  BY DEF Value
<1> HIDE DEF r
<1>18. Value(a) + Value(b) = Value(r) + q1 * 4294967296
  <2> DEFINE a1 == a[1] a2 == a[2] a3 == a[3] a4 == a[4]
             b1 == b[1] b2 == b[2] b3 == b[3] b4 == b[4]
             r1 == r[1] r2 == r[2] r3 == r[3] r4 == r[4]
  <2>1. q1 \in Int /\ q2 \in Int /\ q3 \in Int /\ q4 \in Int
    BY <1>14
  <2>2. /\ a1 \in Int /\ a2 \in Int /\ a3 \in Int /\ a4 \in Int
        /\ b1 \in Int /\ b2 \in Int /\ b3 \in Int /\ b4 \in Int
        /\ r1 \in Int /\ r2 \in Int /\ r3 \in Int /\ r4 \in Int
    BY <1>2, <1>15
  <2>3. /\ a4 + b4 = q4 * 256 + r4 /\ a3 + b3 + q4 = q3 * 256 + r3
        /\ a2 + b2 + q3 = q2 * 256 + r2 /\ a1 + b1 + q2 = q1 * 256 + r1
    BY <1>16
  <2>4. /\ Value(a) = a1 * 16777216 + a2 * 65536 + a3 * 256 + a4
        /\ Value(b) = b1 * 16777216 + b2 * 65536 + b3 * 256 + b4
        /\ Value(r) = r1 * 16777216 + r2 * 65536 + r3 * 256 + r4
    BY DEF Value
  <2> HIDE DEF a1, a2, a3, a4, b1, b2, b3, b4, r1, r2, r3, r4
  <2>5. (a1 * 16777216 + a2 * 65536 + a3 * 256 + a4)
           + (b1 * 16777216 + b2 * 65536 + b3 * 256 + b4)
         = (r1 * 16777216 + r2 * 65536 + r3 * 256 + r4) + q1 * 4294967296
    BY <2>1, <2>2, <2>3, SMT
  <2> QED BY <2>4, <2>5
<1>19. 0 <= q1 /\ q1 <= 1
  BY <1>14, <1>15, <1>16, BytesOfWord, SMT
<1>20. Value(r) \in Int
  BY <1>15, <1>17, SMT
<1>21. q1 \in {0, 1}
  BY <1>14, <1>19, SMT
<1>22. Value(a) + Value(b) = Value(Add(a, b)) + q1 * 4294967296
  BY <1>18 DEF r
<1> QED BY <1>11, <1>21, <1>22

\* SUB and DEC subtract modulo 2^32: 0 - 1 is the largest word.
THEOREM SubIsModular ==
    ASSUME NEW a \in Word, NEW b \in Word
    PROVE  /\ Sub(a, b) \in Word
           /\ \E borrow \in {0, 1} :
                 Value(a) - Value(b) = Value(Sub(a, b)) - borrow * 4294967296
<1> DEFINE d4 == a[4] - b[4]
           d3 == a[3] - b[3] + (d4 \div 256)
           d2 == a[2] - b[2] + (d3 \div 256)
           d1 == a[1] - b[1] + (d2 \div 256)
<1>1. Sub(a, b) = <<d1 % 256, d2 % 256, d3 % 256, d4 % 256>>
  BY DEF Sub
<1>2. /\ a[1] \in Int /\ a[2] \in Int /\ a[3] \in Int /\ a[4] \in Int
      /\ b[1] \in Int /\ b[2] \in Int /\ b[3] \in Int /\ b[4] \in Int
  BY BytesOfWord
<1>3. d4 \in Int
  BY <1>2, SMT
<1>4. a[4] - b[4] = d4
  OBVIOUS
<1>5. d3 = a[3] - b[3] + (d4 \div 256)
  OBVIOUS
<1>6. d2 = a[2] - b[2] + (d3 \div 256)
  OBVIOUS
<1>7. d1 = a[1] - b[1] + (d2 \div 256)
  OBVIOUS
<1> HIDE DEF d1, d2, d3, d4
<1>8. d3 \in Int
  BY <1>2, <1>3, <1>5, Column, SMT
<1>9. d2 \in Int
  BY <1>2, <1>6, <1>8, Column, SMT
<1>10. d1 \in Int
  BY <1>2, <1>7, <1>9, Column, SMT
<1>11. Sub(a, b) \in Word
  BY <1>1, <1>3, <1>8, <1>9, <1>10, Column, WordOfBytes
<1>12. /\ Sub(a, b)[1] = d1 % 256 /\ Sub(a, b)[2] = d2 % 256
       /\ Sub(a, b)[3] = d3 % 256 /\ Sub(a, b)[4] = d4 % 256
  BY <1>1
<1>13. /\ d4 = (d4 \div 256) * 256 + Sub(a, b)[4] /\ d4 \div 256 \in Int
       /\ d3 = (d3 \div 256) * 256 + Sub(a, b)[3] /\ d3 \div 256 \in Int
       /\ d2 = (d2 \div 256) * 256 + Sub(a, b)[2] /\ d2 \div 256 \in Int
       /\ d1 = (d1 \div 256) * 256 + Sub(a, b)[1] /\ d1 \div 256 \in Int
  BY <1>3, <1>8, <1>9, <1>10, <1>12, Column
<1> DEFINE q4 == d4 \div 256
           q3 == d3 \div 256
           q2 == d2 \div 256
           q1 == d1 \div 256
<1>14. /\ a[4] - b[4] = q4 * 256 + Sub(a, b)[4]
       /\ a[3] - b[3] + q4 = q3 * 256 + Sub(a, b)[3]
       /\ a[2] - b[2] + q3 = q2 * 256 + Sub(a, b)[2]
       /\ a[1] - b[1] + q2 = q1 * 256 + Sub(a, b)[1]
       /\ q1 \in Int /\ q2 \in Int /\ q3 \in Int /\ q4 \in Int
  BY <1>4, <1>5, <1>6, <1>7, <1>13
<1> HIDE DEF q1, q2, q3, q4
<1> DEFINE r == Sub(a, b)
<1>15. /\ r[1] \in Int /\ 0 <= r[1] /\ r[1] <= 255
       /\ r[2] \in Int /\ 0 <= r[2] /\ r[2] <= 255
       /\ r[3] \in Int /\ 0 <= r[3] /\ r[3] <= 255
       /\ r[4] \in Int /\ 0 <= r[4] /\ r[4] <= 255
  BY <1>11, BytesOfWord
<1>16. /\ a[4] - b[4] = q4 * 256 + r[4]
       /\ a[3] - b[3] + q4 = q3 * 256 + r[3]
       /\ a[2] - b[2] + q3 = q2 * 256 + r[2]
       /\ a[1] - b[1] + q2 = q1 * 256 + r[1]
  BY <1>14
<1>17. Value(r) = r[1] * 16777216 + r[2] * 65536 + r[3] * 256 + r[4]
  BY DEF Value
<1> HIDE DEF r
<1>18. Value(a) - Value(b) = Value(r) + q1 * 4294967296
  <2> DEFINE a1 == a[1] a2 == a[2] a3 == a[3] a4 == a[4]
             b1 == b[1] b2 == b[2] b3 == b[3] b4 == b[4]
             r1 == r[1] r2 == r[2] r3 == r[3] r4 == r[4]
  <2>1. q1 \in Int /\ q2 \in Int /\ q3 \in Int /\ q4 \in Int
    BY <1>14
  <2>2. /\ a1 \in Int /\ a2 \in Int /\ a3 \in Int /\ a4 \in Int
        /\ b1 \in Int /\ b2 \in Int /\ b3 \in Int /\ b4 \in Int
        /\ r1 \in Int /\ r2 \in Int /\ r3 \in Int /\ r4 \in Int
    BY <1>2, <1>15
  <2>3. /\ a4 - b4 = q4 * 256 + r4 /\ a3 - b3 + q4 = q3 * 256 + r3
        /\ a2 - b2 + q3 = q2 * 256 + r2 /\ a1 - b1 + q2 = q1 * 256 + r1
    BY <1>16
  <2>4. /\ Value(a) = a1 * 16777216 + a2 * 65536 + a3 * 256 + a4
        /\ Value(b) = b1 * 16777216 + b2 * 65536 + b3 * 256 + b4
        /\ Value(r) = r1 * 16777216 + r2 * 65536 + r3 * 256 + r4
    BY DEF Value
  <2> HIDE DEF a1, a2, a3, a4, b1, b2, b3, b4, r1, r2, r3, r4
  <2>5. (a1 * 16777216 + a2 * 65536 + a3 * 256 + a4)
           - (b1 * 16777216 + b2 * 65536 + b3 * 256 + b4)
         = (r1 * 16777216 + r2 * 65536 + r3 * 256 + r4) + q1 * 4294967296
    BY <2>1, <2>2, <2>3, SMT
  <2> QED BY <2>4, <2>5
<1>19. -1 <= q1 /\ q1 <= 0
  BY <1>14, <1>15, <1>16, BytesOfWord, SMT
<1>20. Value(r) \in Int
  BY <1>15, <1>17, SMT
<1>21. -q1 \in {0, 1}
  BY <1>14, <1>19, SMT
<1>22. Value(a) - Value(b) = Value(r) - (-q1) * 4294967296
  BY <1>14, <1>18, <1>20, SMT
<1>23. Value(a) - Value(b) = Value(Sub(a, b)) - (-q1) * 4294967296
  BY <1>22 DEF r
<1> QED BY <1>11, <1>21, <1>23

LEMMA ReadU32Type ==
    ASSUME NEW size \in Nat, NEW m \in [0..(size - 1) -> Byte],
           NEW a \in 0..(size - 4)
    PROVE  ReadU32(m, a) \in Word
BY DEF ReadU32, Word

LEMMA WriteU32Type ==
    ASSUME NEW size \in Nat, NEW m \in [0..(size - 1) -> Byte],
           NEW a \in 0..(size - 4), NEW w \in Word
    PROVE  WriteU32(m, a, w) \in [0..(size - 1) -> Byte]
<1>1. \A x \in a..(a + 3) : w[x - a + 1] \in Byte
  BY DEF Word
<1> QED BY <1>1 DEF WriteU32

\* A word that was stored reads back: write_u32_be and read_u32_be agree on the
\* byte order.
THEOREM ReadsBack ==
    ASSUME NEW size \in Nat, NEW m \in [0..(size - 1) -> Byte],
           NEW a \in 0..(size - 4), NEW w \in Word
    PROVE  ReadU32(WriteU32(m, a, w), a) = w
<1>1. \A i \in 1..4 : /\ a + i - 1 \in DOMAIN m
                      /\ a + i - 1 \in a..(a + 3)
                      /\ (a + i - 1) - a + 1 = i
  OBVIOUS
<1>2. ReadU32(WriteU32(m, a, w), a) = [i \in 1..4 |-> w[i]]
  BY <1>1 DEF ReadU32, WriteU32
<1>3. w = [i \in 1..4 |-> w[i]]
  BY DEF Word
<1> QED BY <1>2, <1>3

\* Storing a word leaves the words that do not overlap it as they were.
LEMMA ReadsOther ==
    ASSUME NEW size \in Nat, NEW m \in [0..(size - 1) -> Byte],
           NEW a \in 0..(size - 4), NEW w \in Word,
           NEW b \in 0..(size - 4), b >= a + 4 \/ a >= b + 4
    PROVE  ReadU32(WriteU32(m, a, w), b) = ReadU32(m, b)
<1>1. \A i \in 1..4 : b + i - 1 \in DOMAIN m /\ b + i - 1 \notin a..(a + 3)
  OBVIOUS
<1> QED BY <1>1 DEF ReadU32, WriteU32

\* The word of an address below 2^24 gives the address back.
THEOREM AddressReadsBack ==
    ASSUME NEW n \in Nat, n <= 16777215
    PROVE  Low24(WordOf(n)) = n
<1> DEFINE h == n \div 65536
           m == n \div 256
<1>1. Low24(WordOf(n)) = (h % 256) * 65536 + (m % 256) * 256 + (n % 256)
  BY DEF Low24, WordOf
<1>2. h \in Int /\ 0 <= h /\ h <= 255
  BY SMT
<1>3. n = m * 256 + (n % 256) /\ m = h * 256 + (m % 256)
  BY SMT
<1>4. h % 256 = h
  <2> HIDE DEF h
  <2> QED BY <1>2, SMT
<1>5. m \in Int /\ n % 256 \in Int /\ m % 256 \in Int
  BY SMT
<1> HIDE DEF h, m
<1> QED BY <1>1, <1>2, <1>3, <1>4, <1>5, SMT

-----------------------------------------------------------------------------
(* The machine.                                                            *)

\* What most proofs need of the constants.
LEMMA Sizes ==
    /\ MemSize \in Nat /\ 4 <= MemSize
    /\ LineSize \in Nat /\ 1 <= LineSize /\ LineSize <= MemSize
BY MemSizeAssumption, LineSizeAssumption, SMT

USE Sizes

-----------------------------------------------------------------------------
(* The fetched instruction.                                                *)

LEMMA DecodeFields ==
    ASSUME NEW w \in Word
    PROVE  /\ Decode(w).raw = w
           /\ Decode(w).imm \in Nat
           /\ w \in {<<1, 0, 0, 0>>, <<2, 0, 0, 0>>} => Decode(w).type = 0
<1>1. /\ w[2] % 16 \in Int /\ 0 <= w[2] % 16 /\ w[2] % 16 <= 15
  BY BytesOfWord, SMT
<1>2. (w[2] % 16) * 65536 + w[3] * 256 + w[4] \in Nat
  BY <1>1, BytesOfWord, SMT
<1>3. w \in {<<1, 0, 0, 0>>, <<2, 0, 0, 0>>} => w[1] \div 16 = 0
  BY SMT
<1>5. Decode(w).imm = (w[2] % 16) * 65536 + w[3] * 256 + w[4]
  BY SMT DEF Decode
<1>6. Decode(w).raw = w /\ Decode(w).type = w[1] \div 16
  BY SMT DEF Decode
<1> QED BY <1>2, <1>3, <1>5, <1>6, SMT

LEMMA FetchedFields ==
    ASSUME TypeOK, CanFetch
    PROVE  /\ Fetched.raw = ReadU32(mem, pc)
           /\ Fetched.raw \in Word
           /\ Fetched.imm \in Nat
           /\ Fetched.raw \in {<<1, 0, 0, 0>>, <<2, 0, 0, 0>>} => Fetched.type = 0
<1>1. pc \in 0..(MemSize - 4)
  BY DEF TypeOK, CanFetch, LastWord
<1>2. ReadU32(mem, pc) \in Word
  BY <1>1, ReadU32Type DEF TypeOK, Address
<1> QED BY <1>2, DecodeFields DEF Fetched

-----------------------------------------------------------------------------
(* Type correctness.                                                       *)

LEMMA SetRegType ==
    ASSUME TypeOK, NEW STATE r, r \in Reg, NEW STATE w, w \in Word, SetReg(r, w)
    PROVE  regs' \in [Reg -> Word]
BY DEF TypeOK, SetReg

LEMMA EmitType ==
    ASSUME TypeOK, NEW STATE bytes, bytes \in Seq(Byte), Emit(bytes)
    PROVE  stdout' \in Seq(Byte)
<1> DEFINE all == stdout \o bytes
<1>1. all \in Seq(Byte)
  BY ConcatProperties DEF TypeOK
<1>2. \A k \in 1..Len(all) : all[k] \in Byte
  BY <1>1, ElementOfSeq
<1>3. Len(all) \in Nat
  BY <1>1, LenProperties
<1> HIDE DEF all
<1>4. ASSUME Len(all) > MaxOutput
      PROVE  SubSeq(all, Len(all) - MaxOutput + 1, Len(all)) \in Seq(Byte)
  <2>1. \A k \in (Len(all) - MaxOutput + 1)..Len(all) : k \in 1..Len(all)
    BY <1>3, <1>4, MaxOutputAssumption, SMT
  <2>2. \A k \in (Len(all) - MaxOutput + 1)..Len(all) : all[k] \in Byte
    BY <1>2, <2>1
  <2>3. Len(all) - MaxOutput + 1 \in Int /\ Len(all) \in Int
    BY <1>3, MaxOutputAssumption, SMT
  <2> QED BY <2>2, <2>3, SubSeqProperties
<1>5. stdout' = IF Len(all) <= MaxOutput THEN all
                ELSE SubSeq(all, Len(all) - MaxOutput + 1, Len(all))
  BY DEF Emit, all
<1> QED BY <1>1, <1>3, <1>4, <1>5, MaxOutputAssumption, SMT

LEMMA StopType ==
    ASSUME TypeOK, CanFetch, Stop
    PROVE  TypeOK'
<1>1. pc' \in 0..MemSize
  BY SMT DEF TypeOK, CanFetch, LastWord, Stop
<1> QED BY <1>1 DEF TypeOK, Stop

LEMMA NextPcType ==
    ASSUME TypeOK, CanFetch, Continue
    PROVE  pc' \in 0..MemSize /\ running' \in BOOLEAN
BY DEF TypeOK, CanFetch, LastWord, Continue

LEMMA OnlyRegsType ==
    ASSUME TypeOK, CanFetch, Continue, OnlyRegs, regs' \in [Reg -> Word]
    PROVE  TypeOK'
BY NextPcType DEF TypeOK, OnlyRegs

LEMMA TransferType ==
    ASSUME TypeOK, CanFetch, NEW STATE target, target \in Nat, Transfer(target)
    PROVE  TypeOK'
<1>1. CASE target <= LastWord /\ JumpTo(target) /\ UnchangedByJump
  <2>1. pc' \in 0..MemSize
    BY <1>1, SMT DEF LastWord, JumpTo
  <2> QED BY <1>1, <2>1 DEF TypeOK, JumpTo, UnchangedByJump
<1>2. CASE target > LastWord /\ Stop
  BY <1>2, StopType
<1> QED BY <1>1, <1>2 DEF Transfer

LEMMA ByteZero == 0 \in Byte
BY ByteBounds, SMT

LEMMA ByteWord == ASSUME NEW b \in Byte PROVE <<0, 0, 0, b>> \in Word
BY ByteZero, WordOfBytes

LEMMA OneType == One \in Word
<1>1. 1 \in Byte
  BY ByteBounds, SMT
<1> QED BY <1>1, ByteWord DEF One

LEMMA RegZero == 0 \in Reg /\ (TypeOK => regs[0] \in Word)
<1>1. 0 \in Reg
  BY RegCountAssumption, SMT DEF Reg
<1> QED BY <1>1 DEF TypeOK

LEMMA RegZeroByte == ASSUME TypeOK PROVE regs[0][4] \in Byte
BY RegZero DEF Word

LEMMA InMemoryAddress ==
    ASSUME NEW w \in Word, InMemory(w)
    PROVE  Low24(w) \in Address
BY Low24Type, SMT DEF InMemory, AtMost, Address

LEMMA ImmAddress ==
    ASSUME NEW n \in Nat, n <= LastWord
    PROVE  n \in 0..(MemSize - 4)
BY SMT DEF LastWord

\* A buffer that fits lies in memory with every byte of it.
LEMMA BufferAddress ==
    ASSUME NEW w \in Word, BufferFits(w)
    PROVE  /\ Low24(w) \in Nat
           /\ Low24(w) + LineSize <= MemSize
BY Low24Type, SMT DEF BufferFits, AtMost

LEMMA BytesAtType ==
    ASSUME NEW m \in [Address -> Byte], NEW a \in Nat, NEW n \in Nat, a + n <= MemSize
    PROVE  BytesAt(m, a, n) \in Seq(Byte) /\ Len(BytesAt(m, a, n)) = n
<1>1. \A k \in 1..n : a + k - 1 \in Address
  BY SMT DEF Address
<1>2. BytesAt(m, a, n) \in [1..n -> Byte]
  BY <1>1 DEF BytesAt
<1> QED BY <1>2, SeqDef

LEMMA SaveOutcomesType ==
    ASSUME TypeOK,
           NEW STATE o, o \in SaveOutcomes(mem, BufferFits(regs[0]), Low24(regs[0]), line)
    PROVE  o.result \in {0, 1} /\ o.file \in File
<1> DEFINE a == Low24(regs[0])
           n == CHOOSE n \in SavableLengths(mem, a) : TRUE
           content == BytesAt(mem, a, n)
<1>1. CASE ~BufferFits(regs[0]) \/ SavableLengths(mem, a) = {}
  <2>1. o = [result |-> 1, file |-> line]
    BY <1>1 DEF SaveOutcomes
  <2> QED BY <2>1 DEF TypeOK
<1>2. CASE ~(~BufferFits(regs[0]) \/ SavableLengths(mem, a) = {})
  <2>1. n \in SavableLengths(mem, a)
    BY <1>2
  <2>2. n \in 0..(LineSize - 1)
    BY <2>1 DEF SavableLengths
  <2>3. content \in Seq(Byte) /\ Len(content) = n
    <3>1. a \in Nat /\ a + LineSize <= MemSize
      BY <1>2, RegZero, BufferAddress
    <3> HIDE DEF a, n
    <3>2. n \in Nat /\ a + n <= MemSize
      BY <2>2, <3>1, SMT
    <3> QED BY <3>1, <3>2, BytesAtType DEF TypeOK
  <2>4. \/ o = [result |-> 0, file |-> content]
        \/ o = [result |-> 1, file |-> line]
        \/ \E k \in 0..Len(content) : o = [result |-> 1, file |-> SubSeq(content, 1, k)]
    BY <1>2 DEF SaveOutcomes
  <2> HIDE DEF content
  <2>5. \A k \in 0..Len(content) : SubSeq(content, 1, k) \in Seq(Byte)
    <3>1. \A k \in 0..Len(content) : \A j \in 1..k : j \in 1..Len(content)
      BY <2>2, <2>3, SMT
    <3>2. \A k \in 0..Len(content) : \A j \in 1..k : content[j] \in Byte
      BY <2>3, <3>1, ElementOfSeq
    <3>3. \A k \in 0..Len(content) : k \in Int /\ 1 \in Int
      BY SMT
    <3> QED BY <3>2, <3>3, SubSeqProperties
  <2>6. line \in File /\ Seq(Byte) \subseteq File
    BY DEF TypeOK, File
  <2>7. CASE o = [result |-> 0, file |-> content]
    BY <2>3, <2>6, <2>7
  <2>8. CASE o = [result |-> 1, file |-> line]
    BY <2>6, <2>8
  <2>9. CASE \E k \in 0..Len(content) : o = [result |-> 1, file |-> SubSeq(content, 1, k)]
    <3>1. PICK k \in 0..Len(content) : o = [result |-> 1, file |-> SubSeq(content, 1, k)]
      BY <2>9
    <3>2. SubSeq(content, 1, k) \in File
      BY <2>5, <2>6
    <3> QED BY <3>1, <3>2
  <2> QED BY <2>4, <2>7, <2>8, <2>9
<1> QED BY <1>1, <1>2

LEMMA PlaceLineType ==
    ASSUME NEW m \in [Address -> Byte], NEW a \in Nat, NEW content \in Seq(Byte)
    PROVE  PlaceLine(m, a, content) \in [Address -> Byte]
<1>1. Len(content) \in Nat
  BY LenProperties
<1>2. ASSUME NEW x \in Address, x \in a..(a + Len(content) - 1)
      PROVE  content[x - a + 1] \in Byte
  <2>1. x - a + 1 \in 1..Len(content)
    BY <1>1, <1>2, SMT DEF Address
  <2> QED BY <2>1, ElementOfSeq
<1> QED BY <1>2, ByteZero DEF PlaceLine

LEMMA LoadOutcomesType ==
    ASSUME TypeOK,
           NEW STATE o, o \in LoadOutcomes(mem, BufferFits(regs[0]), Low24(regs[0]), line)
    PROVE  o.result \in {0, 1} /\ o.mem \in [Address -> Byte]
<1>1. CASE o = [result |-> 1, mem |-> mem]
  BY <1>1 DEF TypeOK
<1>2. CASE /\ BufferFits(regs[0]) /\ line # NoFile /\ Loadable(line)
           /\ o = [result |-> 0, mem |-> PlaceLine(mem, Low24(regs[0]), line)]
  <2>1. line \in Seq(Byte)
    BY <1>2 DEF TypeOK, File
  <2>2. Low24(regs[0]) \in Nat
    BY RegZero, Low24Type
  <2> QED BY <1>2, <2>1, <2>2, PlaceLineType DEF TypeOK
<1> QED BY <1>1, <1>2 DEF LoadOutcomes

LEMMA TypeStep ==
    ASSUME TypeOK, Next
    PROVE  TypeOK'
<1>1. CASE FetchFault
  BY <1>1 DEF FetchFault, TypeOK
<1>2. CASE CanFetch /\ Execute(Fetched)
  <2> DEFINE i == Fetched
  <2>0. i.imm \in Nat /\ i.raw \in Word /\ CanFetch
    BY <1>2, FetchedFields
  <2> HIDE DEF i
  <2> USE <2>0
  <2>1. CASE Halt(i)
    BY <2>1, StopType DEF Halt
  <2>2. CASE Ret(i)
    <3>1. CASE sp > LastWord /\ Stop
      BY <3>1, StopType
    <3>2. CASE /\ sp <= LastWord
               /\ sp' = sp + 4
               /\ LET target == ReadU32(mem, sp)
                  IN  \/ AtMost(target, LastWord) /\ JumpTo(Low24(target))
                      \/ ~AtMost(target, LastWord) /\ pc' = pc + 4 /\ running' = FALSE
               /\ UNCHANGED <<mem, regs, zero>> /\ NoIO
      <4>1. sp' \in 0..MemSize /\ sp \in 0..(MemSize - 4)
        BY <3>2, SMT DEF TypeOK, LastWord
      <4>2. ReadU32(mem, sp) \in Word
        BY <4>1, ReadU32Type DEF TypeOK, Address
      <4>3. Low24(ReadU32(mem, sp)) \in Nat
        BY <4>2, Low24Type
      <4>4. pc' \in 0..MemSize /\ running' \in BOOLEAN
        <5>1. CASE AtMost(ReadU32(mem, sp), LastWord) /\ JumpTo(Low24(ReadU32(mem, sp)))
          <6>1. pc' \in 0..MemSize
            BY <4>3, <5>1, SMT DEF AtMost, LastWord, JumpTo
          <6> QED BY <5>1, <6>1 DEF JumpTo, TypeOK
        <5>2. CASE pc' = pc + 4 /\ running' = FALSE
          <6>1. pc' \in 0..MemSize
            BY <5>2, SMT DEF TypeOK, CanFetch, LastWord
          <6> QED BY <5>2, <6>1
        <5> QED BY <3>2, <5>1, <5>2
      <4> QED BY <3>2, <4>1, <4>4 DEF TypeOK, NoIO
    <3> QED BY <2>2, <3>1, <3>2 DEF Ret
  <2>3. CASE Mov(i)
    <3>1. CASE {i.rd, i.rs} \subseteq Reg /\ SetReg(i.rd, regs[i.rs]) /\ Continue /\ OnlyRegs
      <4>1. i.rd \in Reg /\ regs[i.rs] \in Word
        BY <3>1 DEF TypeOK
      <4>2. regs' \in [Reg -> Word]
        BY <3>1, <4>1, SetRegType
      <4> QED BY <3>1, <4>2, OnlyRegsType
    <3> QED BY <2>3, <3>1, StopType DEF Mov
  <2>4. CASE Inc(i)
    <3>1. CASE i.rd \in Reg /\ SetReg(i.rd, Add(regs[i.rd], One)) /\ Continue /\ OnlyRegs
      <4>1. Add(regs[i.rd], One) \in Word
        BY <3>1, OneType, AddIsModular DEF TypeOK
      <4>2. regs' \in [Reg -> Word]
        BY <3>1, <4>1, SetRegType
      <4> QED BY <3>1, <4>2, OnlyRegsType
    <3> QED BY <2>4, <3>1, StopType DEF Inc
  <2>5. CASE Dec(i)
    <3>1. CASE i.rd \in Reg /\ SetReg(i.rd, Sub(regs[i.rd], One)) /\ Continue /\ OnlyRegs
      <4>1. Sub(regs[i.rd], One) \in Word
        BY <3>1, OneType, SubIsModular DEF TypeOK
      <4>2. regs' \in [Reg -> Word]
        BY <3>1, <4>1, SetRegType
      <4> QED BY <3>1, <4>2, OnlyRegsType
    <3> QED BY <2>5, <3>1, StopType DEF Dec
  <2>6. CASE AddRegs(i)
    <3>1. CASE /\ {i.rd, i.rs} \subseteq Reg
               /\ SetReg(i.rd, Add(regs[i.rd], regs[i.rs]))
               /\ Continue /\ OnlyRegs
      <4>1. i.rd \in Reg /\ Add(regs[i.rd], regs[i.rs]) \in Word
        BY <3>1, AddIsModular DEF TypeOK
      <4>2. regs' \in [Reg -> Word]
        BY <3>1, <4>1, SetRegType
      <4> QED BY <3>1, <4>2, OnlyRegsType
    <3> QED BY <2>6, <3>1, StopType DEF AddRegs
  <2>7. CASE SubRegs(i)
    <3>1. CASE /\ {i.rd, i.rs} \subseteq Reg
               /\ SetReg(i.rd, Sub(regs[i.rd], regs[i.rs]))
               /\ Continue /\ OnlyRegs
      <4>1. i.rd \in Reg /\ Sub(regs[i.rd], regs[i.rs]) \in Word
        BY <3>1, SubIsModular DEF TypeOK
      <4>2. regs' \in [Reg -> Word]
        BY <3>1, <4>1, SetRegType
      <4> QED BY <3>1, <4>2, OnlyRegsType
    <3> QED BY <2>7, <3>1, StopType DEF SubRegs
  <2>8. CASE Cmp(i)
    <3>1. CASE /\ {i.rd, i.rs} \subseteq Reg
               /\ zero' = (regs[i.rd] = regs[i.rs])
               /\ Continue /\ UNCHANGED <<mem, sp, regs>> /\ NoIO
      <4>1. zero' \in BOOLEAN
        BY <3>1
      <4> QED BY <3>1, <4>1, NextPcType DEF TypeOK, NoIO
    <3> QED BY <2>8, <3>1, StopType DEF Cmp
  <2>9. CASE Ldb(i)
    <3>1. CASE /\ {i.rd, i.rs} \subseteq Reg /\ InMemory(regs[i.rs])
               /\ SetReg(i.rd, <<0, 0, 0, mem[Low24(regs[i.rs])]>>)
               /\ Continue /\ OnlyRegs
      <4>1. mem[Low24(regs[i.rs])] \in Byte
        BY <3>1, InMemoryAddress DEF TypeOK
      <4>2. <<0, 0, 0, mem[Low24(regs[i.rs])]>> \in Word
        BY <4>1, ByteWord
      <4>3. regs' \in [Reg -> Word]
        BY <3>1, <4>2, SetRegType
      <4> QED BY <3>1, <4>3, OnlyRegsType
    <3> QED BY <2>9, <3>1, StopType DEF Ldb
  <2>10. CASE Stb(i)
    <3>1. CASE /\ {i.rd, i.rs} \subseteq Reg /\ InMemory(regs[i.rd])
               /\ mem' = [mem EXCEPT ![Low24(regs[i.rd])] = regs[i.rs][4]]
               /\ Continue /\ UNCHANGED <<sp, regs, zero>> /\ NoIO
      <4>1. regs[i.rs][4] \in Byte
        BY <3>1 DEF TypeOK, Word
      <4>2. mem' \in [Address -> Byte]
        BY <3>1, <4>1 DEF TypeOK
      <4> QED BY <3>1, <4>2, NextPcType DEF TypeOK, NoIO
    <3> QED BY <2>10, <3>1, StopType DEF Stb
  <2>11. CASE Movi(i)
    <3>1. CASE i.rd \in Reg /\ SetReg(i.rd, WordOf(i.imm)) /\ Continue /\ OnlyRegs
      <4>1. regs' \in [Reg -> Word]
        BY <3>1, WordOfType, SetRegType
      <4> QED BY <3>1, <4>1, OnlyRegsType
    <3> QED BY <2>11, <3>1, StopType DEF Movi
  <2>12. CASE Lddi(i)
    <3>1. CASE /\ i.rd \in Reg /\ i.imm <= LastWord
               /\ SetReg(i.rd, ReadU32(mem, i.imm)) /\ Continue /\ OnlyRegs
      <4>1. ReadU32(mem, i.imm) \in Word
        BY <3>1, ImmAddress, ReadU32Type DEF TypeOK, Address
      <4>2. regs' \in [Reg -> Word]
        BY <3>1, <4>1, SetRegType
      <4> QED BY <3>1, <4>2, OnlyRegsType
    <3> QED BY <2>12, <3>1, StopType DEF Lddi
  <2>13. CASE Stdi(i)
    <3>1. CASE /\ i.rd \in Reg /\ i.imm <= LastWord
               /\ mem' = WriteU32(mem, i.imm, regs[i.rd])
               /\ Continue /\ UNCHANGED <<sp, regs, zero>> /\ NoIO
      <4>1. mem' \in [Address -> Byte]
        BY <3>1, ImmAddress, WriteU32Type DEF TypeOK, Address
      <4> QED BY <3>1, <4>1, NextPcType DEF TypeOK, NoIO
    <3> QED BY <2>13, <3>1, StopType DEF Stdi
  <2>14. CASE Push(i)
    <3>1. CASE /\ i.rd \in Reg /\ sp >= 4
               /\ sp' = sp - 4
               /\ mem' = WriteU32(mem, sp - 4, regs[i.rd])
               /\ Continue /\ UNCHANGED <<regs, zero>> /\ NoIO
      <4>1. sp - 4 \in 0..(MemSize - 4) /\ sp' \in 0..MemSize
        BY <3>1, SMT DEF TypeOK
      <4>2. mem' \in [Address -> Byte]
        BY <3>1, <4>1, WriteU32Type DEF TypeOK, Address
      <4> QED BY <3>1, <4>1, <4>2, NextPcType DEF TypeOK, NoIO
    <3> QED BY <2>14, <3>1, StopType DEF Push
  <2>15. CASE Pop(i)
    <3>1. CASE /\ i.rd \in Reg /\ sp <= LastWord
               /\ SetReg(i.rd, ReadU32(mem, sp))
               /\ sp' = sp + 4
               /\ Continue /\ UNCHANGED <<mem, zero>> /\ NoIO
      <4>1. sp \in 0..(MemSize - 4) /\ sp' \in 0..MemSize
        BY <3>1, SMT DEF TypeOK, LastWord
      <4>2. ReadU32(mem, sp) \in Word
        BY <4>1, ReadU32Type DEF TypeOK, Address
      <4>3. regs' \in [Reg -> Word]
        BY <3>1, <4>2, SetRegType
      <4> QED BY <3>1, <4>1, <4>3, NextPcType DEF TypeOK, NoIO
    <3> QED BY <2>15, <3>1, StopType DEF Pop
  <2>16. CASE Jump(i)
    BY <2>16, TransferType DEF Jump
  <2>17. CASE Calli(i)
    <3>1. CASE /\ i.imm <= LastWord /\ sp >= 4
               /\ sp' = sp - 4
               /\ mem' = WriteU32(mem, sp - 4, WordOf(pc + 4))
               /\ JumpTo(i.imm) /\ UNCHANGED <<regs, zero>> /\ NoIO
      <4>1. sp - 4 \in 0..(MemSize - 4) /\ sp' \in 0..MemSize /\ pc + 4 \in Nat
        BY <3>1, SMT DEF TypeOK
      <4>2. mem' \in [Address -> Byte]
        BY <3>1, <4>1, WordOfType, WriteU32Type DEF TypeOK, Address
      <4>3. pc' \in 0..MemSize
        BY <3>1, SMT DEF JumpTo, LastWord
      <4> QED BY <3>1, <4>1, <4>2, <4>3 DEF TypeOK, NoIO, JumpTo
    <3> QED BY <2>17, <3>1, StopType DEF Calli
  <2>18. CASE Jz(i)
    <3>1. CASE Continue /\ UnchangedByJump
      BY <3>1, NextPcType DEF TypeOK, UnchangedByJump
    <3> QED BY <2>18, <3>1, TransferType DEF Jz
  <2>19. CASE Jnz(i)
    <3>1. CASE Continue /\ UnchangedByJump
      BY <3>1, NextPcType DEF TypeOK, UnchangedByJump
    <3> QED BY <2>19, <3>1, TransferType DEF Jnz
  <2>20. CASE PrintChar(i)
    <3>1. <<regs[0][4], LF>> \in Seq(Byte)
      BY RegZeroByte, ByteBounds, SMT DEF LF
    <3>2. stdout' \in Seq(Byte)
      BY <2>20, <3>1, EmitType DEF PrintChar
    <3> QED BY <2>20, <3>2, NextPcType DEF PrintChar, TypeOK
  <2>21. CASE PrintString(i)
    <3>1. stdout' \in Seq(Byte)
      <4>1. CASE UNCHANGED stdout
        BY <4>1 DEF TypeOK
      <4>2. CASE /\ InMemory(regs[0])
                 /\ \E e \in Low24(regs[0])..MemSize :
                      Emit(BytesAt(mem, Low24(regs[0]), e - Low24(regs[0])))
        <5>1. PICK e \in Low24(regs[0])..MemSize :
                      Emit(BytesAt(mem, Low24(regs[0]), e - Low24(regs[0])))
          BY <4>2
        <5>2. Low24(regs[0]) \in Address
          BY <4>2, RegZero, InMemoryAddress
        <5>3. BytesAt(mem, Low24(regs[0]), e - Low24(regs[0])) \in Seq(Byte)
          <6>1. /\ Low24(regs[0]) \in Nat
                /\ e - Low24(regs[0]) \in Nat
                /\ Low24(regs[0]) + (e - Low24(regs[0])) <= MemSize
            BY <5>2, SMT DEF Address
          <6> QED BY <5>2, <6>1, BytesAtType DEF TypeOK
        <5> QED BY <5>1, <5>3, EmitType
      <4> QED BY <2>21, <4>1, <4>2 DEF PrintString
    <3> QED BY <2>21, <3>1, NextPcType DEF PrintString, TypeOK
  <2>22. CASE ReadChar(i)
    <3>1. CASE stdin = <<>> /\ Stop
      BY <3>1, StopType
    <3>2. CASE /\ stdin # <<>>
               /\ SetReg(0, <<0, 0, 0, Head(stdin)>>)
               /\ stdin' = Tail(stdin)
               /\ Continue /\ UNCHANGED <<mem, sp, zero, stdout, line>>
      <4>1. Head(stdin) \in Byte /\ Tail(stdin) \in Seq(Byte)
        BY <3>2, HeadTailProperties DEF TypeOK
      <4>2. <<0, 0, 0, Head(stdin)>> \in Word
        BY <4>1, ByteWord
      <4>3. regs' \in [Reg -> Word]
        BY <3>2, <4>2, RegZero, SetRegType
      <4> QED BY <3>2, <4>1, <4>3, NextPcType DEF TypeOK
    <3> QED BY <2>22, <3>1, <3>2 DEF ReadChar
  <2>23. CASE PutChar(i)
    <3>1. <<regs[0][4]>> \in Seq(Byte)
      BY RegZeroByte, SMT
    <3>2. stdout' \in Seq(Byte)
      BY <2>23, <3>1, EmitType DEF PutChar
    <3> QED BY <2>23, <3>2, NextPcType DEF PutChar, TypeOK
  <2>24. CASE SaveLine(i)
    <3>1. PICK o \in SaveOutcomes(mem, BufferFits(regs[0]), Low24(regs[0]), line) :
             SetReg(0, WordOf(o.result)) /\ line' = o.file
      BY <2>24 DEF SaveLine
    <3>2. o.result \in Nat /\ o.file \in File
      BY <3>1, SaveOutcomesType
    <3>3. regs' \in [Reg -> Word]
      BY <3>1, <3>2, WordOfType, RegZero, SetRegType
    <3> QED BY <2>24, <3>1, <3>2, <3>3, NextPcType DEF SaveLine, TypeOK
  <2>25. CASE LoadLine(i)
    <3>1. PICK o \in LoadOutcomes(mem, BufferFits(regs[0]), Low24(regs[0]), line) :
             SetReg(0, WordOf(o.result)) /\ mem' = o.mem
      BY <2>25 DEF LoadLine
    <3>2. o.result \in Nat /\ o.mem \in [Address -> Byte]
      BY <3>1, LoadOutcomesType
    <3>3. regs' \in [Reg -> Word]
      BY <3>1, <3>2, WordOfType, RegZero, SetRegType
    <3> QED BY <2>25, <3>1, <3>2, <3>3, NextPcType DEF LoadLine, TypeOK
  <2>26. CASE Unknown(i)
    BY <2>26, StopType DEF Unknown
  <2> QED BY <1>2, <2>1, <2>2, <2>3, <2>4, <2>5, <2>6, <2>7, <2>8, <2>9, <2>10, <2>11,
             <2>12, <2>13, <2>14, <2>15, <2>16, <2>17, <2>18, <2>19, <2>20, <2>21,
             <2>22, <2>23, <2>24, <2>25, <2>26 DEF Execute, i
<1> QED BY <1>1, <1>2 DEF Next

LEMMA TypeStutter == ASSUME TypeOK, UNCHANGED vars PROVE TypeOK'
BY DEF TypeOK, vars

LEMMA TypeInit == ASSUME Init PROVE TypeOK
<1>1. PICK image \in Images :
         mem = [a \in Address |-> IF a < Len(image) THEN image[a + 1] ELSE 0]
  BY DEF Init
<1>2. image \in Seq(Byte)
  BY ImagesAssumption
<1>3. \A a \in Address : a < Len(image) => image[a + 1] \in Byte
  <2>1. Len(image) \in Nat
    BY <1>2, LenProperties
  <2>2. \A a \in Address : a < Len(image) => a + 1 \in 1..Len(image)
    BY <2>1, SMT DEF Address
  <2> QED BY <1>2, <2>2, ElementOfSeq
<1>4. mem \in [Address -> Byte]
  BY <1>1, <1>3, ByteZero
<1>5. pc \in 0..MemSize /\ sp \in 0..MemSize
  BY SMT DEF Init
<1>6. regs \in [Reg -> Word]
  BY ByteZero, WordOfBytes DEF Init
<1>7. stdin \in Seq(Byte) /\ stdout \in Seq(Byte)
  BY InputsAssumption, EmptySeq DEF Init
<1>8. line \in File
  BY FilesAssumption DEF Init
<1> QED BY <1>4, <1>5, <1>6, <1>7, <1>8 DEF Init, TypeOK

\* The registers, flags, addresses and files of a machine always have their
\* types: in particular pc and sp never leave memory, however a program jumps,
\* pushes and returns, so every fetch, push and pop is inside the array.
THEOREM TypeCorrect == Spec => []TypeOK
BY TypeInit, TypeStep, TypeStutter, PTL DEF Spec

-----------------------------------------------------------------------------
(* Certificates: a program that has one keeps to it.  The lemmas about     *)
(* Leads say what an instruction needs and which states it adds; then each *)
(* instruction is shown to go where its lemma says.                        *)

LEMMA LeadsIs ==
    ASSUME NEW plan, NEW s, NEW i, NEW S, Leads(plan, s, i) \subseteq S
    PROVE  /\ RegisterLeads(plan, s, i) \subseteq S
           /\ MemoryLeads(plan, s, i) \subseteq S
           /\ TransferLeads(plan, s, i) \subseteq S
           /\ SystemCallLeads(plan, s, i) \subseteq S
           /\ Uncertified(i) => Lost \in S
BY Zenon DEF Leads, When

LEMMA RegisterLeadsIs ==
    ASSUME NEW plan, NEW s, NEW i, NEW S, RegisterLeads(plan, s, i) \subseteq S
    PROVE  /\ i.type = 4 /\ i.op = 0 =>
                If(i.rd \in Reg, Sets(s, i.rd, Exactly(WordOf(i.imm)))) \subseteq S
           /\ i.type = 2 /\ i.op = 0 =>
                If(i.rd \in Reg, Sets(s, i.rd, Incremented(plan, s.regs[i.rd]))) \subseteq S
           /\ i.type = 2 /\ i.op = 4 =>
                (IF {i.rd, i.rs} \subseteq Reg THEN Compares(s, i.rd, i.rs) ELSE {Lost}) \subseteq S
BY Zenon DEF RegisterLeads, When, Is

LEMMA MemoryLeadsIs ==
    ASSUME NEW plan, NEW s, NEW i, NEW S, MemoryLeads(plan, s, i) \subseteq S
    PROVE  /\ i.type = 3 /\ i.op = 0 =>
                If({i.rd, i.rs} \subseteq Reg,
                   Sets(s, i.rd, ByteRead(plan, s.regs[i.rs]))) \subseteq S
           /\ i.type = 3 /\ i.op = 1 =>
                If({i.rd, i.rs} \subseteq Reg /\ MayStore(plan, s.regs[i.rd], s.regs[i.rs]),
                   GoesOn(s)) \subseteq S
BY Zenon DEF MemoryLeads, When, Is

LEMMA TransferLeadsIs ==
    ASSUME NEW plan, NEW s, NEW i, NEW S, TransferLeads(plan, s, i) \subseteq S
    PROVE  /\ i.raw = <<2, 0, 0, 0>> => Returned(plan, s) \subseteq S
           /\ i.type = 6 /\ i.op = 8 => GoesTo(s, i.imm) \in S
           /\ i.type = 6 /\ i.op = 9 => Called(s, i.imm) \subseteq S
           /\ i.type = 6 /\ i.op = 10 => Branches(s, i.imm, TRUE) \subseteq S
           /\ i.type = 6 /\ i.op = 11 => Branches(s, i.imm, FALSE) \subseteq S
BY Zenon DEF TransferLeads, When, Is

LEMMA SystemCallLeadsIs ==
    ASSUME NEW plan, NEW s, NEW i, NEW S, SystemCallLeads(plan, s, i) \subseteq S
    PROVE  /\ i.type = 6 /\ i.op = 0 /\ i.imm \in {0, 1, 3} => GoesOn(s) \in S
           /\ i.type = 6 /\ i.op = 0 /\ i.imm \in {2, 4} => Sets(s, 0, Forgotten) \in S
           /\ i.type = 6 /\ i.op = 0 /\ i.imm = 5 =>
                If(MayLoadLine(plan, s.regs[0]), Sets(s, 0, Forgotten)) \subseteq S
BY Zenon DEF SystemCallLeads, When, Is

\* A certificate does not have the lost state, so what an instruction needs holds.
LEMMA NeverLost ==
    ASSUME NEW plan, NEW states, IsPlan(plan), Certifies(states, plan)
    PROVE  Lost \notin states
<1>1. Lost.pc = -1
  BY DEF Lost, State
<1>2. -1 \notin 0..(Len(plan.code) - 4)
  BY SMT
<1> QED
  BY <1>1, <1>2 DEF Certifies, InCode

LEMMA IfLeads ==
    ASSUME NEW ok, NEW t, NEW S, If(ok, t) \subseteq S, Lost \notin S
    PROVE  ok /\ t \in S
BY Zenon DEF If

-----------------------------------------------------------------------------
\* The image begins with the code.
Loaded(plan, image) == \A a \in 0..(Len(plan.code) - 1) : image[a] = plan.code[a + 1]

\* A machine with a certificate is about to execute an instruction, in the state s.
Follows(plan, states, image, s) ==
    /\ IsPlan(plan) /\ Certifies(states, plan) /\ Loaded(plan, image)
    /\ TypeOK /\ CanFetch /\ Confined(plan, states, image)
    /\ s \in states /\ Describes(s)

LEMMA PlanBounds ==
    ASSUME NEW plan, IsPlan(plan)
    PROVE  /\ Len(plan.code) \in Nat /\ Len(plan.code) <= LastWord
           /\ \A a \in plan.writes : a \in Int /\ Len(plan.code) <= a /\ a < LastWord
           /\ \A a \in plan.writes : a \in Address /\ a \notin Frame
           /\ plan.zeros \subseteq plan.writes
<1>1. Len(plan.code) \in Nat /\ Len(plan.code) <= LastWord
  BY LenProperties DEF IsPlan
<1>2. \A a \in plan.writes : a \in Int /\ Len(plan.code) <= a /\ a < LastWord
  BY <1>1 DEF IsPlan, LastWord
<1>3. \A a \in plan.writes : a \in Address /\ a \notin Frame
  BY <1>1, <1>2 DEF Address, Frame, LastWord
<1> QED
  BY <1>1, <1>2, <1>3 DEF IsPlan

\* The code is in memory.
LEMMA CodeInPlace ==
    ASSUME NEW plan, NEW image, IsPlan(plan), Loaded(plan, image), Intact(plan, image),
           NEW a \in CodePlaces(plan)
    PROVE  mem[a] = plan.code[a + 1]
<1>1. a \in Address \ (plan.writes \cup Frame)
  BY PlanBounds DEF CodePlaces, Address, Frame, LastWord
<1> QED
  BY <1>1 DEF Intact, Loaded, CodePlaces

\* The machine executes the instruction of the code.
LEMMA FetchedIs ==
    ASSUME NEW plan, NEW states, NEW image, NEW s, Follows(plan, states, image, s)
    PROVE  /\ Fetched = InstructionAt(plan, s)
           /\ Leads(plan, s, Fetched) \subseteq states
<1>1. pc = s.pc /\ pc \in 0..(Len(plan.code) - 4)
  BY DEF Follows, Describes, Certifies, InCode
<1>2. \A k \in 1..4 : pc + k - 1 \in CodePlaces(plan) /\ (pc + k - 1) + 1 = pc + k
  BY <1>1, PlanBounds DEF Follows, CodePlaces
<1>3. \A k \in 1..4 : mem[pc + k - 1] = plan.code[s.pc + k]
  BY <1>1, <1>2, CodeInPlace DEF Follows, Confined
<1>4. Fetched = InstructionAt(plan, s)
  BY <1>3 DEF Fetched, ReadU32, InstructionAt
<1> QED
  BY <1>4 DEF Follows, Certifies

\* What a write to the places for it leaves alone.
LEMMA WriteKeeps ==
    ASSUME NEW plan, NEW image, IsPlan(plan), Intact(plan, image), TypeOK,
           \A a \in Address \ plan.writes : mem'[a] = mem[a],
           \A a \in plan.zeros : mem'[a] = 0
    PROVE  Intact(plan, image)' /\ ReadU32(mem', LastWord) = ReadU32(mem, LastWord)
<1>1. Intact(plan, image)'
  BY DEF Intact
<1>2. \A k \in 1..4 : LastWord + k - 1 \in Address /\ LastWord + k - 1 \in Frame
  BY DEF Address, Frame, LastWord
<1>3. \A k \in 1..4 : LastWord + k - 1 \in Address \ plan.writes
  BY <1>2, PlanBounds
<1> QED
  BY <1>1, <1>3 DEF ReadU32

LEMMA StopConfined ==
    ASSUME NEW plan, NEW states, NEW image, Confined(plan, states, image),
           UNCHANGED <<mem, sp>>, running' = FALSE
    PROVE  Confined(plan, states, image)'
BY DEF Confined, Intact

\* The machine goes on in a state of the certificate.
LEMMA StateConfined ==
    ASSUME NEW plan, NEW states, NEW image, Intact(plan, image)', sp' \in {LastWord, MemSize},
           NEW t \in states, Describes(t)'
    PROVE  Confined(plan, states, image)'
BY DEF Confined

\* The stack and what is on it is as it was.
SameCalls == UNCHANGED sp /\ ReadU32(mem', LastWord) = ReadU32(mem, LastWord)

\* An instruction that writes a register, and one that writes none.
LEMMA SetsConfined ==
    ASSUME NEW plan, NEW states, NEW image, NEW s, Follows(plan, states, image, s),
           NEW r, r \in Reg, NEW known, NEW STATE w, Allows(known, w), Sets(s, r, known) \in states,
           SetReg(r, w), Continue, SameCalls, UNCHANGED zero, Intact(plan, image)'
    PROVE  Confined(plan, states, image)'
<1> DEFINE t == Sets(s, r, known)
<1>1. /\ t.pc = s.pc + 4 /\ t.calls = s.calls /\ t.zero = s.zero
      /\ \A q \in Reg : t.regs[q] = IF q = r THEN known ELSE s.regs[q]
  BY DEF Sets, State
<1> HIDE DEF t
<1>2. Describes(s) /\ sp \in {LastWord, MemSize} /\ regs \in [Reg -> Word]
  BY DEF Follows, Confined, TypeOK
<1>3. pc' = t.pc
  BY <1>1, <1>2 DEF Describes, Continue
<1>4. IF t.calls = <<>> THEN sp' = MemSize
      ELSE sp' = LastWord /\ ReadU32(mem, sp)' = WordOf(t.calls[1])
  BY <1>1, <1>2 DEF Describes, SameCalls
<1>5. \A q \in Reg : Allows(t.regs[q], regs'[q])
  BY <1>1, <1>2 DEF Describes, SetReg
<1>6. Allows(t.zero, zero')
  BY <1>1, <1>2 DEF Describes
<1>7. Describes(t)'
  BY <1>3, <1>4, <1>5, <1>6 DEF Describes
<1> QED
  BY <1>2, <1>7, StateConfined DEF t, SameCalls

LEMMA FlagsConfined ==
    ASSUME NEW plan, NEW states, NEW image, NEW s, Follows(plan, states, image, s),
           NEW known, Allows(known, zero'), NEW target, State(target, s.calls, s.regs, known) \in states,
           pc' = target, SameCalls, UNCHANGED regs, Intact(plan, image)'
    PROVE  Confined(plan, states, image)'
<1> DEFINE t == State(target, s.calls, s.regs, known)
<1>1. t.pc = target /\ t.calls = s.calls /\ t.zero = known /\ t.regs = s.regs
  BY DEF State
<1> HIDE DEF t
<1>2. Describes(s) /\ sp \in {LastWord, MemSize}
  BY DEF Follows, Confined
<1>3. Describes(t)'
  BY <1>1, <1>2 DEF Describes, SameCalls
<1> QED
  BY <1>2, <1>3, StateConfined DEF t, SameCalls

\* A comparison of registers that are equal.
LEMMA EqualConfined ==
    ASSUME NEW plan, NEW states, NEW image, NEW s, Follows(plan, states, image, s),
           NEW rd \in Reg, NEW rs \in Reg, regs[rd] = regs[rs], Equal(s, rd, rs) \in states,
           zero' = TRUE, Continue, SameCalls, UNCHANGED regs, Intact(plan, image)'
    PROVE  Confined(plan, states, image)'
<1> DEFINE t == Equal(s, rd, rs)
<1>1. /\ t.pc = s.pc + 4 /\ t.calls = s.calls /\ t.zero = Exactly(TRUE)
      /\ \A q \in Reg : t.regs[q] = IF q \notin {rd, rs} THEN s.regs[q]
                                   ELSE IF s.regs[rd] = Forgotten THEN s.regs[rs]
                                   ELSE s.regs[rd]
  BY DEF Equal, State
<1> HIDE DEF t
<1>2. Describes(s) /\ sp \in {LastWord, MemSize}
  BY DEF Follows, Confined
<1>3. pc' = t.pc
  BY <1>1, <1>2 DEF Describes, Continue
<1>4. IF t.calls = <<>> THEN sp' = MemSize
      ELSE sp' = LastWord /\ ReadU32(mem, sp)' = WordOf(t.calls[1])
  BY <1>1, <1>2 DEF Describes, SameCalls
<1>5. \A q \in Reg : Allows(t.regs[q], regs'[q])
  BY <1>1, <1>2 DEF Describes
<1>6. Allows(t.zero, zero')
  BY <1>1 DEF Allows
<1>7. Describes(t)'
  BY <1>3, <1>4, <1>5, <1>6 DEF Describes
<1> QED
  BY <1>2, <1>7, StateConfined DEF t, SameCalls

\* A pointer that is known points to where it is known to.
LEMMA Pointer ==
    ASSUME NEW known, NEW w \in Word, Allows(known, w), NEW addresses, PointsInto(known, addresses)
    PROVE  known = Exactly(w) /\ w[1] = 0 /\ Low24(w) \in addresses
BY DEF Allows, Exactly, PointsInto

LEMMA RegisterConfined ==
    ASSUME NEW plan, NEW states, NEW image, NEW s, Follows(plan, states, image, s),
           Inc(Fetched) \/ Movi(Fetched) \/ Cmp(Fetched)
    PROVE  Confined(plan, states, image)'
<1> DEFINE i == Fetched
<1>1. Leads(plan, s, i) \subseteq states /\ Lost \notin states
  BY FetchedIs, NeverLost DEF Follows
<1>2. RegisterLeads(plan, s, i) \subseteq states
  BY <1>1, LeadsIs
<1>3. TypeOK /\ Confined(plan, states, image) /\ Describes(s)
  BY DEF Follows
<1> HIDE DEF i
<1>4. CASE Stop
  BY <1>3, <1>4, StopConfined DEF Stop
<1>5. CASE Inc(i) /\ ~Stop
  <2>1. /\ i.type = 2 /\ i.op = 0 /\ i.rd \in Reg /\ SetReg(i.rd, Add(regs[i.rd], One))
        /\ Continue /\ OnlyRegs
    BY <1>5 DEF Inc
  <2>2. Sets(s, i.rd, Incremented(plan, s.regs[i.rd])) \in states
    BY <1>1, <1>2, <2>1, RegisterLeadsIs, IfLeads
  <2>3. Allows(s.regs[i.rd], regs[i.rd])
    BY <1>3, <2>1 DEF Describes
  <2>4. Allows(Incremented(plan, s.regs[i.rd]), Add(regs[i.rd], One))
    BY <2>3 DEF Allows, Incremented, Exactly
  <2>5. SameCalls /\ UNCHANGED zero /\ Intact(plan, image)'
    BY <1>3, <2>1 DEF OnlyRegs, SameCalls, Confined, Intact
  <2> QED
    BY <2>1, <2>2, <2>4, <2>5, SetsConfined
<1>6. CASE Movi(i) /\ ~Stop
  <2>1. /\ i.type = 4 /\ i.op = 0 /\ i.rd \in Reg /\ SetReg(i.rd, WordOf(i.imm))
        /\ Continue /\ OnlyRegs
    BY <1>6 DEF Movi
  <2>2. Sets(s, i.rd, Exactly(WordOf(i.imm))) \in states
    BY <1>1, <1>2, <2>1, RegisterLeadsIs, IfLeads
  <2>3. Allows(Exactly(WordOf(i.imm)), WordOf(i.imm))
    BY DEF Allows
  <2>4. SameCalls /\ UNCHANGED zero /\ Intact(plan, image)'
    BY <1>3, <2>1 DEF OnlyRegs, SameCalls, Confined, Intact
  <2> QED
    BY <2>1, <2>2, <2>3, <2>4, SetsConfined
<1>7. CASE Cmp(i) /\ ~Stop
  <2>1. /\ i.type = 2 /\ i.op = 4 /\ {i.rd, i.rs} \subseteq Reg
        /\ zero' = (regs[i.rd] = regs[i.rs])
        /\ Continue /\ UNCHANGED <<mem, sp, regs>>
    BY <1>7 DEF Cmp
  <2>2. Compares(s, i.rd, i.rs) \subseteq states
    BY <1>2, <2>1, RegisterLeadsIs
  <2>3. Allows(s.regs[i.rd], regs[i.rd]) /\ Allows(s.regs[i.rs], regs[i.rs])
    BY <1>3, <2>1 DEF Describes
  <2>4. SameCalls /\ Intact(plan, image)' /\ pc' = s.pc + 4
    BY <1>3, <2>1 DEF SameCalls, Confined, Intact, Continue, Describes
  <2>5. CASE regs[i.rd] = regs[i.rs]
    <3>1. ~Differ(s.regs[i.rd], s.regs[i.rs])
      BY <2>3, <2>5 DEF Differ, Allows
    <3>2. Equal(s, i.rd, i.rs) \in states
      BY <2>2, <3>1, Zenon DEF Compares
    <3>3. PICK rd \in Reg, rs \in Reg : rd = i.rd /\ rs = i.rs
      BY <2>1
    <3> QED
      BY <2>1, <2>4, <2>5, <3>2, <3>3, EqualConfined
  <2>6. CASE regs[i.rd] # regs[i.rs]
    <3>1. ~Same(s.regs[i.rd], s.regs[i.rs])
      BY <2>3, <2>6 DEF Same, Allows, Exactly, Forgotten
    <3>2. State(s.pc + 4, s.calls, s.regs, Exactly(FALSE)) \in states
      BY <2>2, <3>1, Zenon DEF Compares, Unequal
    <3>3. Allows(Exactly(FALSE), zero')
      BY <2>1, <2>6 DEF Allows
    <3> QED
      BY <2>1, <2>4, <3>2, <3>3, FlagsConfined
  <2> QED
    BY <2>5, <2>6
<1> QED
  BY <1>4, <1>5, <1>6, <1>7 DEF i

LEMMA MemoryConfined ==
    ASSUME NEW plan, NEW states, NEW image, NEW s, Follows(plan, states, image, s),
           Ldb(Fetched) \/ Stb(Fetched)
    PROVE  Confined(plan, states, image)'
<1> DEFINE i == Fetched
<1>1. Leads(plan, s, i) \subseteq states /\ Lost \notin states
  BY FetchedIs, NeverLost DEF Follows
<1>2. MemoryLeads(plan, s, i) \subseteq states
  BY <1>1, LeadsIs
<1>3. TypeOK /\ Confined(plan, states, image) /\ Describes(s) /\ IsPlan(plan)
  BY DEF Follows
<1> HIDE DEF i
<1>4. CASE Stop
  BY <1>3, <1>4, StopConfined DEF Stop
<1>5. CASE Ldb(i) /\ ~Stop
  <2>1. /\ i.type = 3 /\ i.op = 0 /\ {i.rd, i.rs} \subseteq Reg
        /\ SetReg(i.rd, <<0, 0, 0, mem[Low24(regs[i.rs])]>>)
        /\ Continue /\ OnlyRegs
    BY <1>5 DEF Ldb
  <2>2. Sets(s, i.rd, ByteRead(plan, s.regs[i.rs])) \in states
    BY <1>1, <1>2, <2>1, MemoryLeadsIs, IfLeads
  <2>3. Allows(s.regs[i.rs], regs[i.rs]) /\ regs[i.rs] \in Word
    BY <1>3, <2>1 DEF Describes, TypeOK
  <2> DEFINE byte == mem[Low24(regs[i.rs])]
  <2>4. ASSUME PointsInto(s.regs[i.rs], CodePlaces(plan))
        PROVE  Allows(ByteRead(plan, s.regs[i.rs]), <<0, 0, 0, byte>>)
    <3>1. s.regs[i.rs] = Exactly(regs[i.rs]) /\ Low24(regs[i.rs]) \in CodePlaces(plan)
      BY <2>3, <2>4, Pointer
    <3>2. byte = plan.code[Low24(regs[i.rs]) + 1]
      BY <1>3, <3>1, CodeInPlace DEF Follows, Confined
    <3>3. ByteRead(plan, s.regs[i.rs]) = Exactly(<<0, 0, 0, byte>>)
      BY <2>4, <3>1, <3>2 DEF ByteRead, Exactly
    <3> QED
      BY <3>3 DEF Allows
  <2>5. ASSUME ~PointsInto(s.regs[i.rs], CodePlaces(plan))
        PROVE  Allows(ByteRead(plan, s.regs[i.rs]), <<0, 0, 0, byte>>)
    <3>1. PointsInto(s.regs[i.rs], plan.zeros) => byte = 0
      BY <1>3, <2>3, Pointer DEF Confined, Intact
    <3> QED
      BY <2>5, <3>1 DEF Allows, ByteRead
  <2>6. SameCalls /\ UNCHANGED zero /\ Intact(plan, image)'
    BY <1>3, <2>1 DEF OnlyRegs, SameCalls, Confined, Intact
  <2>7. Allows(ByteRead(plan, s.regs[i.rs]), <<0, 0, 0, byte>>)
    BY <2>4, <2>5
  <2> QED
    BY <2>1, <2>2, <2>6, <2>7, SetsConfined
<1>6. CASE Stb(i) /\ ~Stop
  <2>1. /\ i.type = 3 /\ i.op = 1 /\ {i.rd, i.rs} \subseteq Reg
        /\ mem' = [mem EXCEPT ![Low24(regs[i.rd])] = regs[i.rs][4]]
        /\ Continue /\ UNCHANGED <<sp, regs, zero>>
    BY <1>6 DEF Stb
  <2>2. GoesOn(s) \in states /\ MayStore(plan, s.regs[i.rd], s.regs[i.rs])
    <3>1. If({i.rd, i.rs} \subseteq Reg /\ MayStore(plan, s.regs[i.rd], s.regs[i.rs]), GoesOn(s))
             \subseteq states
      BY <1>2, <2>1, MemoryLeadsIs
    <3> QED
      BY <1>1, <3>1, IfLeads, Zenon
  <2>3. /\ Allows(s.regs[i.rs], regs[i.rs]) /\ regs[i.rs] \in Word
        /\ Allows(s.regs[i.rd], regs[i.rd]) /\ regs[i.rd] \in Word
    BY <1>3, <2>1 DEF Describes, TypeOK
  <2>4. Low24(regs[i.rd]) \in plan.writes
    BY <2>2, <2>3, Pointer DEF MayStore
  <2>5. ASSUME Low24(regs[i.rd]) \in plan.zeros PROVE regs[i.rs][4] = 0
    <3>1. s.regs[i.rd] = Exactly(regs[i.rd]) /\ regs[i.rd][1] = 0
      BY <2>2, <2>3, Pointer DEF MayStore
    <3>2. PointsInto(s.regs[i.rd], plan.zeros)
      BY <2>5, <3>1 DEF PointsInto, Exactly, Forgotten
    <3>3. s.regs[i.rs] # Forgotten /\ s.regs[i.rs][1][4] = 0
      BY <2>2, <3>2 DEF MayStore
    <3> QED
      BY <2>3, <3>3 DEF Allows, Exactly
  <2>6. \A a \in Address \ plan.writes : mem'[a] = mem[a]
    BY <1>3, <2>1, <2>4 DEF TypeOK
  <2>7. \A a \in plan.zeros : mem'[a] = 0
    <3>1. \A a \in plan.zeros : a \in Address /\ mem[a] = 0
      BY <1>3, PlanBounds DEF Confined, Intact
    <3> QED
      BY <1>3, <2>1, <2>5, <3>1 DEF TypeOK
  <2>8. SameCalls /\ Intact(plan, image)'
    BY <1>3, <2>1, <2>6, <2>7, WriteKeeps DEF SameCalls, Confined
  <2>9. pc' = s.pc + 4 /\ Allows(s.zero, zero')
    BY <1>3, <2>1 DEF Continue, Describes
  <2> QED
    BY <2>1, <2>2, <2>8, <2>9, FlagsConfined DEF GoesOn, GoesTo
<1> QED
  BY <1>4, <1>5, <1>6 DEF i

\* A state of the certificate has an address in the code.
LEMMA StateAddress ==
    ASSUME NEW plan, NEW states, IsPlan(plan), Certifies(states, plan), NEW t \in states
    PROVE  t.pc \in Nat /\ t.pc <= LastWord /\ t.pc <= 16777215
<1>1. t.pc \in 0..(Len(plan.code) - 4)
  BY DEF Certifies, InCode
<1> QED
  BY <1>1, PlanBounds, MemSizeAssumption DEF LastWord

LEMMA AddressTop == ASSUME NEW n \in Nat, n <= 16777215 PROVE WordOf(n)[1] = 0
<1>1. n \div 16777216 = 0
  BY SMT
<1> QED
  BY <1>1, SMT DEF WordOf

\* A subroutine that returns goes where it was called from.
LEMMA RetReturns ==
    ASSUME NEW plan, NEW states, NEW image, NEW s, Follows(plan, states, image, s), Ret(Fetched)
    PROVE  /\ s.calls # <<>> /\ sp = LastWord
           /\ State(s.calls[1], <<>>,
                    [q \in Reg |-> IF q \in plan.kept THEN s.regs[q] ELSE Forgotten], s.zero) \in states
           /\ AtMost(ReadU32(mem, sp), LastWord) /\ Low24(ReadU32(mem, sp)) = s.calls[1]
<1> DEFINE i == Fetched
<1>1. Leads(plan, s, i) \subseteq states /\ Lost \notin states
  BY FetchedIs, NeverLost DEF Follows
<1>2. TransferLeads(plan, s, i) \subseteq states
  BY <1>1, LeadsIs
<1>3. Describes(s)
  BY DEF Follows
<1>4. i.raw = <<2, 0, 0, 0>>
  BY DEF Ret
<1> HIDE DEF i
<1> DEFINE r == s.calls[1]
           t == State(r, <<>>, [q \in Reg |-> IF q \in plan.kept THEN s.regs[q] ELSE Forgotten], s.zero)
<1>5. s.calls # <<>> /\ t \in states
  <2>1. Returned(plan, s) \subseteq states
    BY <1>2, <1>4, TransferLeadsIs
  <2>2. Returned(plan, s) = If(s.calls # <<>>, t)
    BY Zenon DEF Returned
  <2> HIDE DEF t
  <2> QED
    BY <1>1, <2>1, <2>2 DEF If
<1>6. t.pc = r
  BY DEF State
<1> HIDE DEF t
<1>7. r \in Nat /\ r <= LastWord /\ r <= 16777215
  BY <1>5, <1>6, StateAddress DEF Follows
<1> HIDE DEF r
<1>8. sp = LastWord /\ ReadU32(mem, sp) = WordOf(r)
  BY <1>3, <1>5 DEF Describes, r
<1>9. AtMost(ReadU32(mem, sp), LastWord) /\ Low24(ReadU32(mem, sp)) = r
  BY <1>7, <1>8, AddressTop, AddressReadsBack DEF AtMost
<1> QED
  BY <1>5, <1>8, <1>9 DEF r, t

LEMMA RetConfined ==
    ASSUME NEW plan, NEW states, NEW image, NEW s, Follows(plan, states, image, s), Ret(Fetched)
    PROVE  Confined(plan, states, image)'
<1> DEFINE t == State(s.calls[1], <<>>,
                      [q \in Reg |-> IF q \in plan.kept THEN s.regs[q] ELSE Forgotten], s.zero)
<1>1. TypeOK /\ Confined(plan, states, image) /\ Describes(s)
  BY DEF Follows
<1>2. /\ t.pc = s.calls[1] /\ t.calls = <<>> /\ t.zero = s.zero
      /\ \A q \in Reg : t.regs[q] = s.regs[q] \/ t.regs[q] = Forgotten
  BY DEF State
<1>3. t \in states
  BY RetReturns
<1> HIDE DEF t
<1>4. sp' = MemSize /\ pc' = t.pc /\ UNCHANGED <<mem, regs, zero>>
  <2>1. /\ sp = LastWord /\ AtMost(ReadU32(mem, sp), LastWord)
        /\ Low24(ReadU32(mem, sp)) = s.calls[1]
    BY RetReturns
  <2> QED
    BY <1>2, <2>1, SMT DEF Ret, JumpTo, LastWord
<1>5. Describes(t)'
  <2>1. \A q \in Reg : Allows(t.regs[q], regs'[q])
    BY <1>1, <1>2, <1>4 DEF Describes, Allows
  <2> QED
    BY <1>1, <1>2, <1>4, <2>1 DEF Describes
<1>6. Intact(plan, image)'
  BY <1>1, <1>4 DEF Confined, Intact
<1> QED
  BY <1>3, <1>4, <1>5, <1>6, StateConfined

LEMMA CalliConfined ==
    ASSUME NEW plan, NEW states, NEW image, NEW s, Follows(plan, states, image, s), Calli(Fetched)
    PROVE  Confined(plan, states, image)'
<1> DEFINE i == Fetched
<1>1. Leads(plan, s, i) \subseteq states /\ Lost \notin states
  BY FetchedIs, NeverLost DEF Follows
<1>2. TransferLeads(plan, s, i) \subseteq states
  BY <1>1, LeadsIs
<1>3. TypeOK /\ Confined(plan, states, image) /\ Describes(s) /\ IsPlan(plan)
  BY DEF Follows
<1> HIDE DEF i
<1>4. CASE Stop
  BY <1>3, <1>4, StopConfined DEF Stop
<1>5. CASE ~Stop
  <2>1. /\ i.type = 6 /\ i.op = 9
        /\ sp' = sp - 4 /\ mem' = WriteU32(mem, sp - 4, WordOf(pc + 4))
        /\ JumpTo(i.imm) /\ UNCHANGED <<regs, zero>>
    BY <1>5 DEF Calli, i
  <2>0. PICK target : target = i.imm
    OBVIOUS
  <2> DEFINE t == State(target, <<s.pc + 4>>, s.regs, s.zero)
  <2>2. s.calls = <<>> /\ t \in states
    <3>1. Called(s, target) \subseteq states
      BY <1>2, <2>0, <2>1, TransferLeadsIs
    <3>2. Called(s, target) = If(s.calls = <<>>, t)
      BY DEF Called
    <3> HIDE DEF t
    <3> QED
      BY <1>1, <3>1, <3>2 DEF If
  <2>3. t.pc = target /\ t.calls = <<s.pc + 4>> /\ t.regs = s.regs /\ t.zero = s.zero
    BY DEF State
  <2> HIDE DEF t
  <2>4. sp = MemSize /\ pc = s.pc
    BY <1>3, <2>2 DEF Describes
  <2>5. sp' = LastWord /\ mem' = WriteU32(mem, LastWord, WordOf(s.pc + 4))
    BY <2>1, <2>4 DEF LastWord
  <2>6. WordOf(s.pc + 4) \in Word
    BY <1>3, <2>4, WordOfType DEF TypeOK
  <2>7. mem \in [0..(MemSize - 1) -> Byte] /\ LastWord \in 0..(MemSize - 4)
    BY <1>3 DEF TypeOK, Address, LastWord
  <2>8. ReadU32(mem', LastWord) = WordOf(s.pc + 4)
    BY <2>5, <2>6, <2>7, ReadsBack
  <2>9. \A a \in Address \ Frame : mem'[a] = mem[a]
    BY <2>5, <2>7 DEF WriteU32, Frame, Address, LastWord
  <2>10. \A a \in plan.zeros : a \in Address \ Frame
    BY <1>3, PlanBounds
  <2>11. Intact(plan, image)'
    BY <1>3, <2>9, <2>10 DEF Confined, Intact
  <2>12. pc' = t.pc /\ \A q \in Reg : Allows(t.regs[q], regs'[q])
    BY <1>3, <2>0, <2>1, <2>3 DEF Describes, JumpTo
  <2>13. t.calls # <<>> /\ t.calls[1] = s.pc + 4 /\ Allows(t.zero, zero')
    BY <1>3, <2>1, <2>3 DEF Describes
  <2>14. Describes(t)'
    BY <2>5, <2>8, <2>12, <2>13 DEF Describes
  <2>15. sp' \in {LastWord, MemSize} /\ t \in states
    BY <2>2, <2>5
  <2> QED
    BY <2>11, <2>14, <2>15, StateConfined
<1> QED
  BY <1>4, <1>5

LEMMA JumpConfined ==
    ASSUME NEW plan, NEW states, NEW image, NEW s, Follows(plan, states, image, s),
           Jump(Fetched) \/ Jz(Fetched) \/ Jnz(Fetched)
    PROVE  Confined(plan, states, image)'
<1> DEFINE i == Fetched
<1>1. Leads(plan, s, i) \subseteq states
  BY FetchedIs
<1>2. TransferLeads(plan, s, i) \subseteq states
  BY <1>1, LeadsIs
<1>3. TypeOK /\ Confined(plan, states, image) /\ Describes(s)
  BY DEF Follows
<1> HIDE DEF i
<1>4. CASE Stop
  BY <1>3, <1>4, StopConfined DEF Stop
<1>5. ASSUME NEW target, GoesTo(s, target) \in states, pc' = target, UnchangedByJump
      PROVE  Confined(plan, states, image)'
  <2>1. SameCalls /\ UNCHANGED regs /\ Intact(plan, image)' /\ Allows(s.zero, zero')
    BY <1>3, <1>5 DEF UnchangedByJump, SameCalls, Confined, Intact, Describes
  <2> QED
    BY <1>5, <2>1, FlagsConfined DEF GoesTo
<1>6. CASE Jump(i) /\ ~Stop
  <2>1. i.type = 6 /\ i.op = 8 /\ pc' = i.imm /\ UnchangedByJump
    BY <1>6 DEF Jump, Transfer, JumpTo
  <2>2. GoesTo(s, i.imm) \in states
    BY <1>2, <2>1, TransferLeadsIs
  <2> QED
    BY <1>5, <2>1, <2>2
<1>7. ASSUME NEW b \in BOOLEAN, Branches(s, i.imm, b) \subseteq states, ~Stop,
             \/ zero = b /\ Transfer(i.imm)
             \/ zero # b /\ Continue /\ UnchangedByJump
      PROVE  Confined(plan, states, image)'
  <2>1. Allows(s.zero, zero) /\ zero \in BOOLEAN
    BY <1>3 DEF Describes, TypeOK
  <2>2. CASE zero = b
    <3>1. pc' = i.imm /\ UnchangedByJump
      BY <1>7, <2>2 DEF Transfer, JumpTo
    <3>2. GoesTo(s, i.imm) \in states
      BY <1>7, <2>1, <2>2, Zenon DEF Branches
    <3> QED
      BY <1>5, <3>1, <3>2
  <2>3. CASE zero # b
    <3>1. pc' = s.pc + 4 /\ UnchangedByJump
      BY <1>3, <1>7, <2>3 DEF Continue, Describes
    <3>2. zero = ~b
      BY <2>1, <2>3, Zenon
    <3>3. GoesTo(s, s.pc + 4) \in states
      BY <1>7, <2>1, <3>2, Zenon DEF Branches, GoesOn
    <3> QED
      BY <1>5, <3>1, <3>3
  <2> QED
    BY <2>2, <2>3
<1>8. CASE Jz(i) /\ ~Stop
  <2>1. Branches(s, i.imm, TRUE) \subseteq states
    BY <1>2, <1>8, TransferLeadsIs DEF Jz
  <2>2. \/ zero = TRUE /\ Transfer(i.imm)
        \/ zero # TRUE /\ Continue /\ UnchangedByJump
    BY <1>3, <1>8, Zenon DEF Jz, TypeOK
  <2> QED
    BY <1>7, <1>8, <2>1, <2>2
<1>9. CASE Jnz(i) /\ ~Stop
  <2>1. Branches(s, i.imm, FALSE) \subseteq states
    BY <1>2, <1>9, TransferLeadsIs DEF Jnz
  <2>2. \/ zero = FALSE /\ Transfer(i.imm)
        \/ zero # FALSE /\ Continue /\ UnchangedByJump
    BY <1>3, <1>9, Zenon DEF Jnz, TypeOK
  <2> QED
    BY <1>7, <1>9, <2>1, <2>2
<1> QED
  BY <1>4, <1>6, <1>8, <1>9 DEF i

LEMMA SystemCallConfined ==
    ASSUME NEW plan, NEW states, NEW image, NEW s, Follows(plan, states, image, s),
           \/ PrintChar(Fetched) \/ PrintString(Fetched) \/ ReadChar(Fetched)
           \/ PutChar(Fetched) \/ SaveLine(Fetched) \/ LoadLine(Fetched)
    PROVE  Confined(plan, states, image)'
<1> DEFINE i == Fetched
<1>1. Leads(plan, s, i) \subseteq states /\ Lost \notin states
  BY FetchedIs, NeverLost DEF Follows
<1>2. SystemCallLeads(plan, s, i) \subseteq states
  BY <1>1, LeadsIs
<1>3. /\ TypeOK /\ Confined(plan, states, image) /\ Describes(s) /\ IsPlan(plan)
      /\ 0 \in Reg /\ regs[0] \in Word
  BY RegZero DEF Follows
<1> HIDE DEF i
<1>4. CASE Stop
  BY <1>3, <1>4, StopConfined DEF Stop
<1>5. CASE PrintChar(i) \/ PrintString(i) \/ PutChar(i)
  <2>1. /\ i.type = 6 /\ i.op = 0 /\ i.imm \in {0, 1, 3}
        /\ Continue /\ UNCHANGED <<mem, sp, regs, zero>>
    BY <1>5 DEF PrintChar, PrintString, PutChar, Syscall
  <2>2. GoesOn(s) \in states
    BY <1>2, <2>1, SystemCallLeadsIs
  <2>3. /\ SameCalls /\ UNCHANGED regs /\ Intact(plan, image)'
        /\ Allows(s.zero, zero') /\ pc' = s.pc + 4
    BY <1>3, <2>1 DEF Continue, SameCalls, Confined, Intact, Describes
  <2> QED
    BY <2>2, <2>3, FlagsConfined DEF GoesOn, GoesTo
<1>6. CASE ReadChar(i) /\ ~Stop
  <2>1. /\ i.type = 6 /\ i.op = 0 /\ i.imm \in {2, 4}
        /\ SetReg(0, <<0, 0, 0, Head(stdin)>>) /\ Continue /\ UNCHANGED <<mem, sp, zero>>
    BY <1>6 DEF ReadChar, Syscall
  <2>2. Sets(s, 0, Forgotten) \in states
    BY <1>2, <2>1, SystemCallLeadsIs
  <2>3. SameCalls /\ Intact(plan, image)'
    BY <1>3, <2>1 DEF SameCalls, Confined, Intact
  <2> QED
    BY <1>3, <2>1, <2>2, <2>3, SetsConfined DEF Allows
<1>7. CASE SaveLine(i)
  <2>1. PICK o \in SaveOutcomes(mem, BufferFits(regs[0]), Low24(regs[0]), line) :
           SetReg(0, WordOf(o.result))
    BY <1>7 DEF SaveLine
  <2>2. i.type = 6 /\ i.op = 0 /\ i.imm \in {2, 4} /\ Continue /\ UNCHANGED <<mem, sp, zero>>
    BY <1>7 DEF SaveLine, Syscall
  <2>3. Sets(s, 0, Forgotten) \in states
    BY <1>2, <2>2, SystemCallLeadsIs
  <2>4. SameCalls /\ Intact(plan, image)'
    BY <1>3, <2>2 DEF SameCalls, Confined, Intact
  <2> QED
    BY <1>3, <2>1, <2>2, <2>3, <2>4, SetsConfined DEF Allows
<1>8. CASE LoadLine(i)
  <2>1. PICK o \in LoadOutcomes(mem, BufferFits(regs[0]), Low24(regs[0]), line) :
           SetReg(0, WordOf(o.result)) /\ mem' = o.mem
    BY <1>8 DEF LoadLine
  <2>2. i.type = 6 /\ i.op = 0 /\ i.imm = 5 /\ Continue /\ UNCHANGED <<sp, zero>>
    BY <1>8 DEF LoadLine, Syscall
  <2>3. Sets(s, 0, Forgotten) \in states /\ MayLoadLine(plan, s.regs[0])
    <3>1. If(MayLoadLine(plan, s.regs[0]), Sets(s, 0, Forgotten)) \subseteq states
      BY <1>2, <2>2, SystemCallLeadsIs
    <3> QED
      BY <1>1, <3>1 DEF If
  <2> DEFINE a == Low24(regs[0])
  <2>4. a..(a + LineSize - 1) \subseteq plan.writes \ plan.zeros /\ a \in Nat
    <3>1. s.regs[0] = Exactly(regs[0])
      BY <1>3, <2>3 DEF MayLoadLine, Describes, Allows
    <3> QED
      BY <1>3, <2>3, <3>1, Low24Type DEF MayLoadLine, Exactly
  <2> HIDE DEF a
  <2>5. \A x \in Address \ (plan.writes \ plan.zeros) : mem'[x] = mem[x]
    <3>1. CASE mem' = mem
      BY <3>1
    <3>2. CASE Loadable(line) /\ mem' = PlaceLine(mem, a, line) /\ line \in Seq(Byte)
      <4>1. Len(line) \in Nat /\ Len(line) < LineSize
        BY <3>2, LenProperties DEF Loadable
      <4>2. \A x \in Address \ (plan.writes \ plan.zeros) :
               x \notin a..(a + Len(line) - 1) /\ x # a + Len(line)
        BY <2>4, <4>1 DEF Address
      <4>3. mem \in [Address -> Byte]
        BY <1>3 DEF TypeOK
      <4> QED
        BY <3>2, <4>2, <4>3 DEF PlaceLine
    <3> QED
      BY <1>3, <2>1, <3>1, <3>2 DEF LoadOutcomes, TypeOK, File, a
  <2>6. /\ \A x \in Address \ plan.writes : mem'[x] = mem[x]
        /\ \A x \in plan.zeros : mem'[x] = 0
    BY <1>3, <2>5, PlanBounds DEF Confined, Intact
  <2>7. SameCalls /\ Intact(plan, image)'
    BY <1>3, <2>2, <2>6, WriteKeeps DEF SameCalls, Confined
  <2> QED
    BY <1>3, <2>1, <2>2, <2>3, <2>7, SetsConfined DEF Allows
<1> QED
  BY <1>4, <1>5, <1>6, <1>7, <1>8 DEF i

\* A turn of run() keeps to the certificate of the program it runs: whatever the
\* input, the registers and the rest of memory hold, the program writes only
\* where its plan says, and it never leaves its code or calls more than one
\* subroutine deep.
THEOREM CertificateIsSound ==
    ASSUME NEW plan, NEW states, NEW image, IsPlan(plan), Certifies(states, plan),
           Loaded(plan, image), TypeOK, Confined(plan, states, image), Next
    PROVE  Confined(plan, states, image)'
<1>1. CASE FetchFault
  BY <1>1, StopConfined DEF FetchFault
<1>2. CASE CanFetch /\ Execute(Fetched)
  <2>1. PICK s \in states : Describes(s)
    BY <1>2 DEF CanFetch, Confined
  <2>2. Follows(plan, states, image, s)
    BY <1>2, <2>1 DEF Follows
  <2> DEFINE i == Fetched
  <2>3. ~Uncertified(i)
    BY <2>2, FetchedIs, LeadsIs, NeverLost
  <2> HIDE DEF i
  <2>4. CASE Stop
    BY <2>4, StopConfined DEF Stop
  <2>5. CASE Inc(i) \/ Movi(i) \/ Cmp(i)
    BY <2>2, <2>5, RegisterConfined DEF i
  <2>6. CASE Ldb(i) \/ Stb(i)
    BY <2>2, <2>6, MemoryConfined DEF i
  <2>7. CASE Ret(i)
    BY <2>2, <2>7, RetConfined DEF i
  <2>8. CASE Calli(i)
    BY <2>2, <2>8, CalliConfined DEF i
  <2>9. CASE Jump(i) \/ Jz(i) \/ Jnz(i)
    BY <2>2, <2>9, JumpConfined DEF i
  <2>10. CASE \/ PrintChar(i) \/ PrintString(i) \/ ReadChar(i)
              \/ PutChar(i) \/ SaveLine(i) \/ LoadLine(i)
    BY <2>2, <2>10, SystemCallConfined DEF i
  <2>11. CASE Halt(i) \/ Unknown(i)
    BY <2>4, <2>11 DEF Halt, Unknown
  <2>12. CASE \/ Mov(i) \/ Dec(i) \/ AddRegs(i) \/ SubRegs(i) \/ Lddi(i) \/ Stdi(i)
              \/ Push(i) \/ Pop(i)
    BY <2>3, <2>12 DEF Uncertified, Mov, Dec, AddRegs, SubRegs, Lddi, Stdi, Push, Pop
  <2> QED
    BY <1>2, <2>5, <2>6, <2>7, <2>8, <2>9, <2>10, <2>11, <2>12 DEF Execute, i
<1> QED
  BY <1>1, <1>2 DEF Next

\* The machine has just been started.
LEMMA ImageType ==
    ASSUME NEW f \in Seq(Byte)
    PROVE  Image(f) \in [Address -> Byte]
<1>1. Len(f) \in Nat
  BY LenProperties
<1>2. \A a \in Address : a < Len(f) => a + 1 \in 1..Len(f)
  BY <1>1 DEF Address
<1>3. \A a \in Address : a < Len(f) => f[a + 1] \in Byte
  BY <1>2, ElementOfSeq
<1> QED
  BY <1>3, ByteZero DEF Image

\* A program that has been loaded is in memory, and there are zeros behind it.
LEMMA ImageOfCode ==
    ASSUME NEW plan, IsPlan(plan)
    PROVE  /\ Image(plan.code) \in [Address -> Byte]
           /\ Loaded(plan, Image(plan.code))
           /\ \A a \in plan.zeros : Image(plan.code)[a] = 0
<1>1. plan.code \in Seq(Byte)
  BY DEF IsPlan
<1>2. Len(plan.code) \in Nat /\ Len(plan.code) <= LastWord
  BY PlanBounds
<1>3. \A a \in 0..(Len(plan.code) - 1) : a \in Address /\ a < Len(plan.code)
  BY <1>2, Sizes DEF Address, LastWord
<1>4. \A a \in plan.zeros : a \in Address /\ ~(a < Len(plan.code))
  <2>1. plan.zeros \subseteq Len(plan.code)..(LastWord - 1)
    BY DEF IsPlan
  <2> QED
    BY <1>2, <2>1, Sizes DEF Address, LastWord
<1> QED
  BY <1>1, <1>3, <1>4, ImageType DEF Loaded, Image

\* A machine that has just been started is where every certificate begins.
LEMMA JustStarted ==
    ASSUME NEW plan, NEW states, NEW image, IsPlan(plan), Certifies(states, plan),
           \A a \in plan.zeros : image[a] = 0,
           mem' = image, pc' = 0, sp' = MemSize
    PROVE  Confined(plan, states, image)'
<1>1. Intact(plan, image)'
  BY DEF Intact
<1>2. Entry \in states
  BY DEF Certifies
<1>3. Describes(Entry)'
  BY DEF Describes, Entry, State, NothingKnown, Allows, Forgotten
<1> QED
  BY <1>1, <1>2, <1>3, StateConfined

-----------------------------------------------------------------------------
(* Where an orderly program reads and stops.                               *)

OrderlyStates(plan, states) == \A s \in states : Orderly(plan, s, InstructionAt(plan, s))

\* Where the stack is when the program reads.
ReadingFrom(plan) == IF plan.reads THEN LastWord ELSE MemSize

\* The program reads.
LEMMA ReadsInOrder ==
    ASSUME NEW plan, NEW states, NEW image, NEW s, Follows(plan, states, image, s),
           OrderlyStates(plan, states), Syscall(Fetched, 2)
    PROVE  sp = ReadingFrom(plan)
<1>1. Orderly(plan, s, Fetched)
  BY FetchedIs DEF OrderlyStates, Follows
<1>2. Is(Fetched, 6, 0) /\ Fetched.imm = 2
  BY DEF Syscall, Is
<1>3. IF plan.reads THEN s.calls # <<>> ELSE s.calls = <<>>
  BY <1>1, <1>2 DEF Orderly
<1> QED
  BY <1>3 DEF Follows, Describes, ReadingFrom

\* Nothing else stops it than a HALT, or the end of the input.
LEMMA StopsNowhereElse ==
    ASSUME NEW plan, NEW states, NEW image, NEW s, Follows(plan, states, image, s),
           OrderlyStates(plan, states), Execute(Fetched), ~running'
    PROVE  Stop /\ (Fetched.raw = <<1, 0, 0, 0>> \/ Syscall(Fetched, 2))
<1> DEFINE i == Fetched
<1>1. Leads(plan, s, i) \subseteq states /\ Lost \notin states
  BY FetchedIs, NeverLost DEF Follows
<1>2. Orderly(plan, s, i)
  BY FetchedIs DEF OrderlyStates, Follows
<1>3. TypeOK /\ running /\ Describes(s) /\ IsPlan(plan) /\ Certifies(states, plan) /\ i.imm \in Nat
  BY FetchedFields DEF Follows, CanFetch
<1>4. CASE Ret(i)
  <2>1. sp = LastWord /\ AtMost(ReadU32(mem, sp), LastWord)
    BY <1>4, RetReturns
  <2>2. ~(sp > LastWord)
    BY <2>1, SMT DEF LastWord
  <2> QED
    BY <1>3, <1>4, <2>1, <2>2, Zenon DEF Ret, JumpTo
<1> HIDE DEF i
<1>5. /\ ~Uncertified(i) /\ RegisterLeads(plan, s, i) \subseteq states
      /\ MemoryLeads(plan, s, i) \subseteq states /\ TransferLeads(plan, s, i) \subseteq states
  BY <1>1, LeadsIs
<1>6. CASE Halt(i)
  BY <1>6 DEF Halt, i
<1>7. CASE Inc(i) \/ Movi(i)
  <2>1. i.rd \in Reg
    <3>1. CASE Inc(i)
      BY <1>1, <1>5, <3>1, RegisterLeadsIs DEF Inc, If
    <3>2. CASE Movi(i)
      BY <1>1, <1>5, <3>2, RegisterLeadsIs DEF Movi, If
    <3> QED
      BY <1>7, <3>1, <3>2
  <2> QED
    BY <1>3, <1>7, <2>1 DEF Inc, Movi, Continue
<1>8. CASE Cmp(i)
  <2>1. {i.rd, i.rs} \subseteq Reg
    BY <1>1, <1>5, <1>8, RegisterLeadsIs DEF Cmp
  <2> QED
    BY <1>3, <1>8, <2>1 DEF Cmp, Continue
<1>9. CASE Ldb(i)
  <2>1. {i.rd, i.rs} \subseteq Reg
    <3>1. If({i.rd, i.rs} \subseteq Reg, Sets(s, i.rd, ByteRead(plan, s.regs[i.rs]))) \subseteq states
      BY <1>5, <1>9, MemoryLeadsIs DEF Ldb
    <3> QED
      BY <1>1, <3>1 DEF If
  <2>2. PointsInto(s.regs[i.rs], Address)
    BY <1>2, <1>9 DEF Ldb, Is, Orderly
  <2>3. Allows(s.regs[i.rs], regs[i.rs]) /\ regs[i.rs] \in Word
    BY <1>3, <2>1 DEF Describes, TypeOK
  <2>4. InMemory(regs[i.rs])
    BY <2>2, <2>3, Pointer DEF InMemory, AtMost, Address
  <2> QED
    BY <1>3, <1>9, <2>1, <2>4 DEF Ldb, Continue
<1>10. CASE Stb(i)
  <2>1. {i.rd, i.rs} \subseteq Reg /\ MayStore(plan, s.regs[i.rd], s.regs[i.rs])
    <3>1. If({i.rd, i.rs} \subseteq Reg /\ MayStore(plan, s.regs[i.rd], s.regs[i.rs]), GoesOn(s))
             \subseteq states
      BY <1>5, <1>10, MemoryLeadsIs DEF Stb
    <3> QED
      BY <1>1, <3>1, IfLeads, Zenon
  <2>2. Allows(s.regs[i.rd], regs[i.rd]) /\ regs[i.rd] \in Word
    BY <1>3, <2>1 DEF Describes, TypeOK
  <2>3. regs[i.rd][1] = 0 /\ Low24(regs[i.rd]) \in plan.writes
    BY <2>1, <2>2, Pointer DEF MayStore
  <2>4. InMemory(regs[i.rd])
    BY <1>3, <2>3, PlanBounds DEF InMemory, AtMost, Address
  <2> QED
    BY <1>3, <1>10, <2>1, <2>4 DEF Stb, Continue
<1>11. ASSUME NEW target, GoesTo(s, target) \in states
       PROVE  ~(target > LastWord)
  <2>1. GoesTo(s, target).pc = target
    BY DEF GoesTo, State
  <2> QED
    BY <1>3, <1>11, <2>1, StateAddress, SMT DEF LastWord
<1>12. CASE Jump(i)
  <2>1. ~(i.imm > LastWord)
    BY <1>5, <1>11, <1>12, TransferLeadsIs DEF Jump
  <2> QED
    BY <1>3, <1>12, <2>1 DEF Jump, Transfer, JumpTo
<1>13. CASE Jz(i) \/ Jnz(i)
  <2>1. Allows(s.zero, zero) /\ zero \in BOOLEAN
    BY <1>3 DEF Describes, TypeOK
  <2>2. ASSUME NEW b \in BOOLEAN, Branches(s, i.imm, b) \subseteq states, zero = b
        PROVE  ~(i.imm > LastWord)
    <3>1. GoesTo(s, i.imm) \in states
      BY <2>1, <2>2, Zenon DEF Branches
    <3> QED
      BY <1>11, <3>1
  <2>3. CASE Jz(i)
    <3>1. Branches(s, i.imm, TRUE) \subseteq states
      BY <1>5, <2>3, TransferLeadsIs DEF Jz
    <3>2. zero = TRUE => ~(i.imm > LastWord)
      BY <2>2, <3>1
    <3> QED
      BY <1>3, <2>1, <2>3, <3>2 DEF Jz, Transfer, JumpTo, Continue
  <2>4. CASE Jnz(i)
    <3>1. Branches(s, i.imm, FALSE) \subseteq states
      BY <1>5, <2>4, TransferLeadsIs DEF Jnz
    <3>2. zero = FALSE => ~(i.imm > LastWord)
      BY <2>2, <3>1
    <3> QED
      BY <1>3, <2>1, <2>4, <3>2 DEF Jnz, Transfer, JumpTo, Continue
  <2> QED
    BY <1>13, <2>3, <2>4
<1>14. CASE Calli(i)
  <2>1. Called(s, i.imm) \subseteq states
    BY <1>5, <1>14, TransferLeadsIs DEF Calli
  <2> DEFINE t == State(i.imm, <<s.pc + 4>>, s.regs, s.zero)
  <2>2. Called(s, i.imm) = If(s.calls = <<>>, t)
    BY DEF Called
  <2>3. t.pc = i.imm
    BY DEF State
  <2> HIDE DEF t
  <2>4. s.calls = <<>> /\ t \in states
    BY <1>1, <2>1, <2>2 DEF If
  <2>5. sp = MemSize /\ i.imm <= LastWord
    BY <1>3, <2>3, <2>4, StateAddress DEF Describes
  <2> QED
    BY <1>3, <1>14, <2>5 DEF Calli, JumpTo
<1>15. CASE \/ PrintChar(i) \/ PrintString(i) \/ PutChar(i) \/ SaveLine(i) \/ LoadLine(i)
  BY <1>3, <1>15 DEF PrintChar, PrintString, PutChar, SaveLine, LoadLine, Continue
<1>16. CASE ReadChar(i)
  BY <1>3, <1>16 DEF ReadChar, Continue, i
<1>17. CASE Unknown(i)
  BY <1>2, <1>3, <1>17 DEF Unknown, Orderly, Understood, Is
<1>18. CASE \/ Mov(i) \/ Dec(i) \/ AddRegs(i) \/ SubRegs(i) \/ Lddi(i) \/ Stdi(i)
            \/ Push(i) \/ Pop(i)
  BY <1>5, <1>18 DEF Uncertified, Mov, Dec, AddRegs, SubRegs, Lddi, Stdi, Push, Pop
<1> QED
  BY <1>4, <1>6, <1>7, <1>8, <1>9, <1>10, <1>12, <1>13, <1>14, <1>15, <1>16, <1>17, <1>18
     DEF Execute, i

\* How an orderly program stops: at a HALT that no subroutine executes, or where
\* it reads.
StoppedInOrder(plan) ==
    ~running => sp = IF ReadU32(mem, pc - 4) = <<1, 0, 0, 0>> THEN MemSize ELSE ReadingFrom(plan)

\* A program with an orderly certificate stops in order, whatever it reads: no
\* turn of run() finds a fault in it.
THEOREM StopsInOrder ==
    ASSUME NEW plan, NEW states, NEW image, IsPlan(plan), Certifies(states, plan),
           OrderlyStates(plan, states),
           Loaded(plan, image), TypeOK, Confined(plan, states, image), Next
    PROVE  StoppedInOrder(plan)'
<1> SUFFICES ASSUME ~running' PROVE StoppedInOrder(plan)'
  BY DEF StoppedInOrder
<1>1. running
  BY DEF Next, FetchFault, CanFetch
<1>2. PICK s \in states : Describes(s)
  BY <1>1 DEF Confined
<1>3. CanFetch /\ Execute(Fetched)
  <2>1. pc <= LastWord
    BY <1>2, StateAddress DEF Describes
  <2>2. pc \in Int /\ LastWord \in Int
    BY DEF TypeOK, LastWord
  <2> QED
    BY <1>1, <2>1, <2>2 DEF Next, FetchFault, CanFetch
<1>4. Follows(plan, states, image, s)
  BY <1>2, <1>3 DEF Follows
<1>5. Stop /\ (Fetched.raw = <<1, 0, 0, 0>> \/ Syscall(Fetched, 2))
  BY <1>3, <1>4, StopsNowhereElse
<1>6. mem' = mem /\ sp' = sp /\ pc' - 4 = pc
  BY <1>5 DEF Stop, TypeOK
<1>7. ReadU32(mem', pc' - 4) = Fetched.raw
  BY <1>3, <1>6, FetchedFields
<1>8. CASE Fetched.raw = <<1, 0, 0, 0>>
  <2>1. Orderly(plan, s, Fetched)
    BY <1>4, FetchedIs DEF OrderlyStates
  <2>2. sp = MemSize
    BY <1>2, <1>8, <2>1 DEF Orderly, Describes
  <2> QED
    BY <1>6, <1>7, <1>8, <2>2 DEF StoppedInOrder
<1>9. CASE Syscall(Fetched, 2)
  <2>1. Fetched.raw # <<1, 0, 0, 0>>
    BY <1>3, <1>9, FetchedFields DEF Syscall
  <2>2. sp = ReadingFrom(plan)
    BY <1>4, <1>9, ReadsInOrder
  <2> QED
    BY <1>6, <1>7, <2>1, <2>2 DEF StoppedInOrder, ReadingFrom
<1> QED
  BY <1>5, <1>8, <1>9

\* A program with an orderly certificate that waits for input, or has stopped, is
\* where its plan says.
LEMMA WaitsInOrder ==
    ASSUME NEW plan, NEW states, NEW image, IsPlan(plan), Certifies(states, plan),
           OrderlyStates(plan, states),
           Loaded(plan, image), TypeOK, Confined(plan, states, image),
           CanFetch, ReadU32(mem, pc) = <<96, 0, 0, 2>>
    PROVE  sp = ReadingFrom(plan)
<1>1. PICK s \in states : Describes(s)
  BY DEF Confined, CanFetch
<1>2. Follows(plan, states, image, s)
  BY <1>1 DEF Follows
<1>3. Fetched = Decode(<<96, 0, 0, 2>>)
  BY DEF Fetched
<1>4. Syscall(Fetched, 2)
  BY <1>3, SMT DEF Decode, Syscall
<1> QED
  BY <1>2, <1>4, ReadsInOrder
=============================================================================
