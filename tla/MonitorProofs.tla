--------------------------- MODULE MonitorProofs ---------------------------
(***************************************************************************)
(* The process around the machine, for every disk, input and size of the   *)
(* monitor's line: the types, StartsFresh and CommandsInOrder; and that    *)
(* no file larger than memory runs where the probe behind a full memory    *)
(* does not fail.                                                          *)
(***************************************************************************)
EXTENDS Monitor, VMProofs, FiniteSetTheorems

LEMMA LeastNumber ==
    ASSUME NEW S, S \subseteq Nat, S # {}
    PROVE  \E n \in S : \A k \in S : n <= k
<1> DEFINE R == OpToRel(<, Nat)
<1>1. \E x \in S : \A y \in S : ~(<<y, x>> \in R)
  <2>1. IsWellFoundedOn(R, Nat)
    BY NatLessThanWellFounded
  <2> HIDE DEF R
  <2> QED BY <2>1, WFMin
<1>2. PICK n \in S : \A y \in S : ~(<<y, n>> \in R)
  BY <1>1
<1>3. \A y \in S : ~(y < n)
  BY <1>2 DEF OpToRel
<1>4. \A y \in S : n <= y
  BY <1>3
<1> QED BY <1>4

-----------------------------------------------------------------------------
(* The built-in program.                                                   *)

LEMMA TestCodeType == \A c \in TestCode : c[2] \in Word
BY SMT DEF TestCode, Word, Byte

LEMMA TestTextType == TestText \in Seq(Byte)
BY SMT DEF TestText, Byte, LF

LEMMA TestImageType == TestImage \in Seq(Byte)
<1> DEFINE n == 256 + Len(TestText)
<1>1. n \in Nat /\ Len(TestText) \in Nat
  BY TestTextType, LenProperties
<1>2. ASSUME NEW i \in 1..n PROVE TestImage[i] \in Byte
  <2> DEFINE a == i - 1
             here == {c \in TestCode : c[1] = a - (a % 4)}
  <2>1. TestImage[i] = IF a >= 256 THEN TestText[a - 255]
                       ELSE IF here = {} THEN 0
                       ELSE (CHOOSE c \in here : TRUE)[2][(a % 4) + 1]
    BY <1>2 DEF TestImage
  <2>2. a >= 256 => a - 255 \in 1..Len(TestText)
    BY <1>1
  <2>3. a >= 256 => TestText[a - 255] \in Byte
    BY <2>2, TestTextType, ElementOfSeq
  <2>4. (a % 4) + 1 \in 1..4
    BY <1>1
  <2>5. here # {} => (CHOOSE c \in here : TRUE) \in TestCode
    OBVIOUS
  <2>6. here # {} => (CHOOSE c \in here : TRUE)[2] \in Word
    BY <2>5, TestCodeType
  <2>7. \A w \in Word : \A k \in 1..4 : w[k] \in Byte
    BY DEF Word
  <2> HIDE DEF a, here
  <2> QED BY <2>1, <2>3, <2>4, <2>6, <2>7, ByteZero
<1>3. TestImage \in [1..n -> Byte]
  BY <1>2 DEF TestImage
<1> QED BY <1>1, <1>3, SeqDef

-----------------------------------------------------------------------------
(* A new machine.                                                          *)

LEMMA MachineType ==
    ASSUME NEW bytes \in Seq(Byte), Machine(bytes)
    PROVE  /\ mem' \in [Address -> Byte] /\ pc' \in 0..MemSize /\ sp' \in 0..MemSize
           /\ regs' \in [Reg -> Word] /\ zero' \in BOOLEAN /\ running' \in BOOLEAN
<1>1. \A a \in Address : a + 1 \in DOMAIN bytes => bytes[a + 1] \in Byte
  BY ElementOfSeq, LenProperties
<1>2. mem' \in [Address -> Byte]
  BY <1>1, ByteZero DEF Machine
<1>3. pc' \in 0..MemSize /\ sp' \in 0..MemSize
  <2>1. 0 \in 0..MemSize /\ MemSize \in 0..MemSize
    BY Sizes
  <2> QED BY <2>1 DEF Machine
<1>5. zero' \in BOOLEAN /\ running' \in BOOLEAN
  BY Zenon DEF Machine
<1>4. regs' \in [Reg -> Word]
  BY ByteZero, WordOfBytes DEF Machine
<1> QED BY <1>2, <1>3, <1>4, <1>5

LEMMA NewMachine ==
    ASSUME MTypeOK, NEW bytes \in Seq(Byte), Machine(bytes),
           stdin' \in Seq(Byte), UNCHANGED <<stdout, line>>
    PROVE  TypeOK'
BY MachineType DEF MTypeOK, TypeOK

LEMMA LoadType ==
    ASSUME MTypeOK, NEW name, NEW next, LoadProgram(name, next),
           stdin' \in Seq(Byte), UNCHANGED <<stdout, line>>
    PROVE  TypeOK' /\ mode' \in {"running", next}
<1>1. <<>> \in Seq(Byte)
  BY EmptySeq
<1> QED BY <1>1, NewMachine, DiskAssumption DEF LoadProgram, Loads, LoadFails

-----------------------------------------------------------------------------
(* What the monitor takes from its input.                                  *)

LEMMA PieceFacts ==
    ASSUME NEW s \in Seq(Byte), s # <<>>
    PROVE  /\ PieceLength(s) \in 1..Len(s) /\ PieceLength(s) <= LineMax - 1
           /\ \/ PieceLength(s) = Len(s) \/ PieceLength(s) = LineMax - 1
              \/ s[PieceLength(s)] = LF
           /\ \A i \in 1..(PieceLength(s) - 1) : s[i] # LF
<1> DEFINE Ends(n) == n = Len(s) \/ n = LineMax - 1 \/ s[n] = LF
           Good == {n \in Nat : n >= 1 /\ n <= Len(s) /\ Ends(n)}
           Right(n) == Ends(n) /\ \A i \in 1..(n - 1) : i # LineMax - 1 /\ s[i] # LF
<1>1. Len(s) \in Nat /\ Len(s) >= 1
  BY LenProperties, EmptySeq
<1>2. Len(s) \in Good
  BY <1>1
<1>3. PICK n \in Good : \A k \in Good : n <= k
  BY <1>2, LeastNumber
<1>4. n \in 1..Len(s) /\ n \in Nat
  BY <1>1, <1>3
<1>5. ASSUME NEW i \in 1..(n - 1) PROVE i # LineMax - 1 /\ s[i] # LF
  <2>1. i \in Nat /\ i >= 1 /\ i < n /\ i <= Len(s)
    BY <1>1, <1>4, <1>5
  <2>2. i \notin Good
    BY <1>3, <2>1
  <2> QED BY <2>1, <2>2
<1>6. Right(n)
  BY <1>3, <1>5
<1>7. PieceLength(s) = CHOOSE k \in 1..Len(s) : Right(k)
  BY DEF PieceLength
<1>8. PieceLength(s) \in 1..Len(s) /\ Right(PieceLength(s))
  BY <1>4, <1>6, <1>7, Zenon
<1>9. PieceLength(s) <= LineMax - 1
  <2>1. LineMax - 1 \in Nat /\ LineMax - 1 >= 1
    BY LineMaxAssumption
  <2>2. PieceLength(s) > LineMax - 1 => LineMax - 1 \in 1..(PieceLength(s) - 1)
    BY <1>1, <1>8, <2>1
  <2> QED BY <1>1, <1>8, <2>1, <2>2
<1> QED BY <1>8, <1>9

\* What strip_line_end leaves: the bytes before the first NUL, without the ends
\* of line that close them.
KeptOf(s, length, kept) ==
    /\ length \in 0..Len(s) /\ kept \in 0..length
    /\ length = Len(s) \/ s[length + 1] = 0
    /\ \A i \in 1..length : s[i] # 0
    /\ kept = 0 \/ s[kept] \notin {CR, LF}
    /\ \A i \in (kept + 1)..length : s[i] \in {CR, LF}

LEMMA CommandFacts ==
    ASSUME NEW s \in Seq(Byte)
    PROVE  \E length, kept \in Nat : KeptOf(s, length, kept) /\ CommandIn(s) = SubSeq(s, 1, kept)
<1> DEFINE First(n) == /\ n = Len(s) \/ s[n + 1] = 0
                       /\ \A i \in 1..n : s[i] # 0
           length == CHOOSE n \in 0..Len(s) : First(n)
           Last(n) == /\ n = 0 \/ s[n] \notin {CR, LF}
                      /\ \A i \in (n + 1)..length : s[i] \in {CR, LF}
           kept == CHOOSE n \in 0..length : Last(n)
<1>1. Len(s) \in Nat
  BY LenProperties
<1>2. length \in 0..Len(s) /\ First(length)
  <2> DEFINE Good == {n \in Nat : n <= Len(s) /\ (n = Len(s) \/ s[n + 1] = 0)}
  <2>1. Len(s) \in Good
    BY <1>1
  <2>2. PICK n \in Good : \A k \in Good : n <= k
    BY <2>1, LeastNumber
  <2>3. n \in 0..Len(s) /\ n \in Nat
    BY <1>1, <2>2
  <2>4. ASSUME NEW i \in 1..n PROVE s[i] # 0
    <3>1. i - 1 \in Nat /\ i - 1 < n /\ i - 1 <= Len(s) /\ (i - 1) + 1 = i
      BY <1>1, <2>3, <2>4
    <3>2. i - 1 \in Good => n <= i - 1
      BY <2>2
    <3>3. i - 1 \notin Good
      <4> HIDE DEF Good
      <4> QED BY <2>3, <3>1, <3>2
    <3> QED BY <3>1, <3>3
  <2>5. First(n)
    BY <2>2, <2>4
  <2> QED BY <2>3, <2>5, Zenon
<1> HIDE DEF length
<1>3. length \in Nat
  BY <1>1, <1>2
<1>4. kept \in 0..length /\ Last(kept)
  <2> DEFINE Good == {d \in Nat : d <= length /\ (d = length \/ s[length - d] \notin {CR, LF})}
  <2>1. length \in Good
    BY <1>3
  <2>2. PICK d \in Good : \A k \in Good : d <= k
    BY <2>1, LeastNumber
  <2>3. d \in Nat /\ d <= length /\ length - d \in 0..length
    BY <1>3, <2>2
  <2>4. ASSUME NEW i \in (length - d + 1)..length PROVE s[i] \in {CR, LF}
    <3>1. length - i \in Nat /\ length - i < d /\ length - i <= length /\ length - (length - i) = i
          /\ length - i # length
      BY <1>3, <2>3, <2>4
    <3>2. length - i \notin Good
      BY <2>2, <2>3, <3>1
    <3> QED BY <3>1, <3>2
  <2>5. length - d = 0 \/ s[length - d] \notin {CR, LF}
    BY <1>3, <2>2, <2>3
  <2>6. Last(length - d)
    BY <2>4, <2>5
  <2> QED BY <2>3, <2>6, Zenon
<1>5. CommandIn(s) = SubSeq(s, 1, kept)
  BY DEF CommandIn, length
<1> HIDE DEF kept
<1>6. kept \in Nat
  BY <1>3, <1>4
<1>7. KeptOf(s, length, kept)
  BY <1>2, <1>4 DEF KeptOf
<1> QED BY <1>3, <1>5, <1>6, <1>7

\* Reading a command keeps the input a sequence, and makes one of what is read.
LEMMA ReadType ==
    ASSUME NEW s \in Seq(Byte), s # <<>>, NEW n, n = PieceLength(s)
    PROVE  /\ SubSeq(s, 1, n) \in Seq(Byte) /\ Len(SubSeq(s, 1, n)) = n
           /\ \A i \in 1..n : SubSeq(s, 1, n)[i] = s[i]
           /\ SubSeq(s, n + 1, Len(s)) \in Seq(Byte)
           /\ Len(SubSeq(s, n + 1, Len(s))) = Len(s) - n
           /\ n = Len(s) => SubSeq(s, n + 1, Len(s)) = <<>>
           /\ CommandIn(SubSeq(s, 1, n)) \in Seq(Byte)
<1> DEFINE piece == SubSeq(s, 1, n)
           rest == SubSeq(s, n + 1, Len(s))
<1>1. Len(s) \in Nat /\ n \in 1..Len(s) /\ n \in Nat
  BY PieceFacts, LenProperties
<1>2. /\ \A i \in 1..n : s[i] \in Byte /\ i = 1 + i - 1
      /\ \A i \in (n + 1)..Len(s) : s[i] \in Byte
  BY <1>1, ElementOfSeq
<1>3. piece \in Seq(Byte) /\ Len(piece) = n /\ \A i \in 1..n : piece[i] = s[i]
  <2>1. /\ 1 \in Int /\ n \in Int /\ 1 <= n + 1 /\ n - 1 + 1 = n
    BY <1>1
  <2> QED BY <1>1, <1>2, <2>1, SubSeqProperties
<1>4. rest \in Seq(Byte) /\ Len(rest) = Len(s) - n
  <2>1. n + 1 \in Int /\ Len(s) \in Int /\ n + 1 <= Len(s) + 1 /\ Len(s) - (n + 1) + 1 = Len(s) - n
    BY <1>1
  <2> QED BY <1>1, <1>2, <2>1, SubSeqProperties
<1>5. n = Len(s) => rest = <<>>
  BY <1>1, <1>4, EmptySeq
<1>6. CommandIn(piece) \in Seq(Byte)
  <2> HIDE DEF piece
  <2>1. PICK length, kept \in Nat : KeptOf(piece, length, kept) /\ CommandIn(piece) = SubSeq(piece, 1, kept)
    BY <1>3, CommandFacts
  <2>2. kept \in 0..Len(piece)
    BY <1>1, <1>3, <2>1 DEF KeptOf
  <2>3. \A i \in 1..kept : piece[i] \in Byte
    BY <1>1, <1>3, <2>2, ElementOfSeq
  <2>4. 1 \in Int /\ kept \in Int /\ 1 <= kept + 1
    BY <2>1
  <2> QED BY <2>1, <2>3, <2>4, SubSeqProperties
<1> QED BY <1>3, <1>4, <1>5, <1>6

-----------------------------------------------------------------------------
(* Types.                                                                  *)

\* Nothing has been asked for before main has looked at its arguments.
IInv == MTypeOK /\ (mode = "start" => seen = <<>> /\ asked = <<>>)

LEMMA InitTypes == ASSUME MInit PROVE IInv
<1>1. mem \in [Address -> Byte] /\ regs \in [Reg -> Word]
  BY ByteZero, WordOfBytes DEF MInit
<1>2. pc \in 0..MemSize /\ sp \in 0..MemSize
  <2>1. 0 \in 0..MemSize
    BY Sizes
  <2> QED BY <2>1 DEF MInit
<1>3. zero \in BOOLEAN /\ running \in BOOLEAN
  BY Zenon DEF MInit
<1>4. <<>> \in Seq(Byte) /\ <<>> \in Seq(Seq(Byte))
  BY EmptySeq
<1>5. args \in Seq(Seq(Byte)) /\ stdin \in Seq(Byte) /\ stdout \in Seq(Byte) /\ line \in File
  BY <1>4, StartsAssumption, FilesAssumption DEF MInit
<1> QED BY <1>1, <1>2, <1>3, <1>4, <1>5 DEF MInit, IInv, MTypeOK, TypeOK

LEMMA MainTypes == ASSUME IInv, Main PROVE IInv'
<1>1. UNCHANGED <<stdin, stdout, line, args, seen, asked>> /\ stdin \in Seq(Byte)
  BY DEF Main, IInv, MTypeOK, TypeOK
<1>2. CASE mode' \in {"prompt", "failed"} /\ UNCHANGED machine
  BY <1>1, <1>2 DEF machine, IInv, MTypeOK, TypeOK
<1>3. CASE Machine(TestImage) /\ mode' = "running"
  BY <1>1, <1>3, TestImageType, NewMachine DEF IInv, MTypeOK
<1>4. CASE LoadProgram(args[1], "failed")
  BY <1>1, <1>4, LoadType DEF IInv, MTypeOK
<1> QED BY <1>2, <1>3, <1>4 DEF Main

\* The ways one turn of the monitor's loop can go.
Takes(n, command) ==
    /\ stdin # <<>> /\ n = PieceLength(stdin) /\ command = CommandIn(SubSeq(stdin, 1, n))
    /\ stdin' = SubSeq(stdin, n + 1, Len(stdin))
    /\ seen' = seen \o SubSeq(stdin, 1, n)
    /\ \/ command = <<>> /\ UNCHANGED <<machine, mode, asked>>
       \/ command \in QuitWords /\ mode' = "done" /\ UNCHANGED <<machine, asked>>
       \/ /\ command # <<>> /\ command \notin QuitWords
          /\ asked' = Append(asked, command)
          /\ LoadProgram(command, "prompt")

LEMMA TurnOfLoop ==
    ASSUME ReadCommand
    PROVE  /\ mode = "prompt" /\ UNCHANGED <<stdout, line, args>>
           /\ EndOfInput \/ \E n, command : Takes(n, command)
BY DEF ReadCommand, Takes

LEMMA ReadCommandTypes == ASSUME IInv, ReadCommand PROVE IInv'
<1>1. mode = "prompt" /\ UNCHANGED <<stdout, line, args>>
  BY TurnOfLoop
<1>2. CASE EndOfInput
  BY <1>1, <1>2 DEF EndOfInput, machine, IInv, MTypeOK, TypeOK
<1>3. ASSUME NEW n, NEW command, Takes(n, command) PROVE IInv'
  <2>1. /\ SubSeq(stdin, 1, n) \in Seq(Byte) /\ stdin' \in Seq(Byte)
        /\ command \in Seq(Byte)
    BY <1>3, ReadType DEF Takes, IInv, MTypeOK, TypeOK
  <2>2. seen' \in Seq(Byte)
    BY <1>3, <2>1, ConcatProperties DEF Takes, IInv, MTypeOK
  <2>3. Append(asked, command) \in Seq(Seq(Byte))
    BY <2>1, AppendProperties DEF IInv, MTypeOK
  <2>4. CASE mode' \in {"prompt", "done"} /\ UNCHANGED <<machine, asked>>
    BY <1>1, <2>1, <2>2, <2>4 DEF machine, IInv, MTypeOK, TypeOK
  <2>5. CASE asked' = Append(asked, command) /\ LoadProgram(command, "prompt")
    <3>1. TypeOK' /\ mode' \in {"running", "prompt"}
      BY <1>1, <2>1, <2>5, LoadType DEF IInv
    <3> QED BY <1>1, <2>2, <2>3, <2>5, <3>1 DEF IInv, MTypeOK
  <2> QED BY <1>1, <1>3, <2>4, <2>5 DEF Takes
<1> QED BY <1>2, <1>3, TurnOfLoop

LEMMA NextTypes == ASSUME IInv, [MNext]_mvars PROVE IInv'
<1>1. CASE UNCHANGED mvars
  BY <1>1 DEF mvars, vars, IInv, MTypeOK, TypeOK
<1>2. CASE Turn
  BY <1>2, TypeStep DEF Turn, IInv, MTypeOK
<1>3. CASE Return
  BY <1>3 DEF Return, vars, IInv, MTypeOK, TypeOK
<1> QED BY <1>1, <1>2, <1>3, MainTypes, ReadCommandTypes DEF MNext

LEMMA Types == MSpec => []IInv
BY InitTypes, NextTypes, PTL DEF MSpec

\* The machine keeps its types from one program to the next, and so do the
\* monitor's history and mode.
THEOREM MonitorTypes == MSpec => []MTypeOK
BY Types, PTL DEF IInv

-----------------------------------------------------------------------------
(* What a program finds when it starts.                                    *)

\* What main or the monitor starts is a file of the disk or the self test.
Started(image) ==
    image = IF asked' # <<>> THEN Disk[asked'[Len(asked')]]
            ELSE IF args = <<SelfTestOption>> THEN TestImage
            ELSE Disk[args[1]]

\* A program is started with its image in memory, and a file is no larger than
\* that where the probe does not fail.
LEMMA StartOfProgram ==
    ASSUME IInv, [MNext]_mvars, mode # "running", mode' = "running"
    PROVE  \E image : /\ Started(image) /\ Machine(image)
                      /\ ~ProbeFails /\ args # <<SelfTestOption>> => Len(image) <= MemSize
<1>1. Main \/ ReadCommand
  BY DEF MNext, Turn, Return, mvars
<1>2. CASE Main
  <2>1. asked' = <<>> /\ args \in Seq(Seq(Byte))
    BY <1>2 DEF Main, IInv, MTypeOK
  <2>2. CASE Len(args) = 1 /\ args[1] = SelfTestOption /\ Machine(TestImage)
    <3>1. args = <<SelfTestOption>>
      BY <2>1, <2>2
    <3> QED BY <2>1, <2>2, <3>1 DEF Started
  <2>3. CASE args[1] # SelfTestOption /\ LoadProgram(args[1], "failed")
    <3>1. args # <<SelfTestOption>>
      BY <2>3
    <3>2. Loads(args[1])
      BY <2>3 DEF LoadProgram, LoadFails
    <3> QED BY <2>1, <3>1, <3>2 DEF Started, Loads
  <2> QED BY <1>2, <2>2, <2>3 DEF Main
<1>3. CASE ReadCommand
  <2>1. PICK n, command : Takes(n, command)
    BY <1>3, TurnOfLoop DEF EndOfInput
  <2>2. asked' = Append(asked, command) /\ LoadProgram(command, "prompt")
    BY <2>1, <1>3, TurnOfLoop DEF Takes
  <2>3. asked' # <<>> /\ asked'[Len(asked')] = command
    <3>1. stdin \in Seq(Byte) /\ stdin # <<>> /\ asked \in Seq(Seq(Byte))
      BY <2>1 DEF Takes, IInv, MTypeOK, TypeOK
    <3>2. command \in Seq(Byte)
      BY <2>1, <3>1, ReadType DEF Takes
    <3> QED BY <2>2, <3>1, <3>2, AppendProperties, LenProperties
  <2>4. Loads(command)
    BY <2>2 DEF LoadProgram, LoadFails
  <2> QED BY <2>3, <2>4 DEF Started, Loads
<1> QED BY <1>1, <1>2, <1>3

Fresh ==
    mode # "running" /\ mode' = "running" =>
        /\ pc' = 0 /\ sp' = MemSize /\ running' /\ ~zero'
        /\ \A r \in Reg : regs'[r] = <<0, 0, 0, 0>>
        /\ LET image == IF asked' # <<>> THEN Disk[asked'[Len(asked')]]
                        ELSE IF args = <<SelfTestOption>> THEN TestImage
                        ELSE Disk[args[1]]
           IN  \A a \in Address : mem'[a] = IF a + 1 \in DOMAIN image THEN image[a + 1] ELSE 0

\* Every program starts at address 0 of a machine that holds its image and
\* nothing of the programs before it (run_program_file of notes/vm.c).
THEOREM FreshStart == MSpec => StartsFresh
<1>1. ASSUME IInv, [MNext]_mvars PROVE Fresh
  <2> SUFFICES ASSUME mode # "running", mode' = "running"
               PROVE  /\ pc' = 0 /\ sp' = MemSize /\ running' /\ ~zero'
                      /\ \A r \in Reg : regs'[r] = <<0, 0, 0, 0>>
                      /\ LET image == IF asked' # <<>> THEN Disk[asked'[Len(asked')]]
                                      ELSE IF args = <<SelfTestOption>> THEN TestImage
                                      ELSE Disk[args[1]]
                         IN  \A a \in Address :
                                mem'[a] = IF a + 1 \in DOMAIN image THEN image[a + 1] ELSE 0
    BY DEF Fresh
  <2>1. PICK image : Started(image) /\ Machine(image)
    BY <1>1, StartOfProgram
  <2>2. running' /\ ~zero'
    BY <2>1 DEF Machine
  <2> QED BY <2>1, <2>2 DEF Machine, Started
<1>2. IInv /\ [MNext]_mvars => [Fresh]_mvars
  BY <1>1
<1> QED BY <1>2, Types, PTL DEF MSpec, StartsFresh, Fresh

\* Where reading the byte behind a full memory does not fail, no file that is
\* larger than memory is run (load_program_file of notes/vm.c).
THEOREM LargeStaysOut ==
    ASSUME ~ProbeFails
    PROVE  MSpec => TooLargeNeverRuns
<1> DEFINE Fits ==
        mode # "running" /\ mode' = "running" /\ args # <<SelfTestOption>> =>
            LET name == IF asked' # <<>> THEN asked'[Len(asked')] ELSE args[1]
            IN  name \in DOMAIN Disk => Len(Disk[name]) <= MemSize
<1>1. ASSUME IInv, [MNext]_mvars PROVE Fits
  BY <1>1, StartOfProgram DEF Started
<1>2. IInv /\ [MNext]_mvars => [Fits]_mvars
  BY <1>1
<1> QED BY <1>2, Types, PTL DEF MSpec, TooLargeNeverRuns

-----------------------------------------------------------------------------
(* Lines and pieces.                                                       *)

LEMMA Multiple ==
    ASSUME NEW m \in Nat, m >= 1, NEW x \in Int, x % m = 0
    PROVE  \E q \in Int : x = m * q
BY SMT

LEMMA Remainder ==
    ASSUME NEW m \in Nat, m >= 1, NEW q \in Int, NEW r \in 0..(m - 1)
    PROVE  (m * q + r) % m = r
BY SMT

\* The next multiple of m behind one.
LEMMA NextMultiple ==
    ASSUME NEW m \in Nat, m >= 1, NEW x \in Int, x % m = 0, NEW d \in 1..m
    PROVE  (x + d) % m = 0 <=> d = m
<1>1. PICK q \in Int : x = m * q
  BY Multiple
<1>2. CASE d = m
  <2>1. m * q + m = m * (q + 1) + 0
    BY SMT
  <2>2. q + 1 \in Int /\ 0 \in 0..(m - 1)
    OBVIOUS
  <2> QED BY <1>1, <1>2, <2>1, <2>2, Remainder
<1>3. CASE d # m
  <2>1. d \in 0..(m - 1) /\ d # 0
    BY <1>3
  <2> QED BY <1>1, <1>3, <2>1, Remainder
<1> QED BY <1>2, <1>3

IsLineStart(s, p, b) ==
    /\ b \in 0..(p - 1)
    /\ b = 0 \/ s[b] = LF
    /\ \A i \in (b + 1)..(p - 1) : s[i] # LF

LEMMA OneLineStart ==
    ASSUME NEW s, NEW p \in Nat, NEW b, NEW c, IsLineStart(s, p, b), IsLineStart(s, p, c)
    PROVE  b = c
<1>1. b \in Int /\ c \in Int /\ 0 <= b /\ 0 <= c /\ b <= p - 1 /\ c <= p - 1
  BY DEF IsLineStart
<1>2. ~(b < c)
  <2>1. b < c => c \in (b + 1)..(p - 1) /\ c # 0
    BY <1>1
  <2> QED BY <2>1 DEF IsLineStart
<1>3. ~(c < b)
  <2>1. c < b => b \in (c + 1)..(p - 1) /\ b # 0
    BY <1>1
  <2> QED BY <2>1 DEF IsLineStart
<1> QED BY <1>1, <1>2, <1>3

LEMMA LineStartExists ==
    ASSUME NEW s, NEW p \in Nat, p >= 1
    PROVE  \E b : IsLineStart(s, p, b)
<1> DEFINE Good == {d \in Nat : d <= p - 1 /\ (d = p - 1 \/ s[p - 1 - d] = LF)}
<1>1. p - 1 \in Good
  OBVIOUS
<1>2. PICK d \in Good : \A k \in Good : d <= k
  BY <1>1, LeastNumber
<1>3. /\ d \in Nat /\ d <= p - 1 /\ p - 1 - d \in 0..(p - 1)
      /\ p - 1 - d = 0 \/ s[p - 1 - d] = LF
  BY <1>2
<1>4. ASSUME NEW i \in (p - 1 - d + 1)..(p - 1) PROVE s[i] # LF
  <2>1. /\ p - 1 - i \in Nat /\ p - 1 - i < d /\ p - 1 - i <= p - 1
        /\ p - 1 - (p - 1 - i) = i
    BY <1>3, <1>4
  <2>2. s[i] = LF => p - 1 - i \in Good
    BY <2>1
  <2>3. p - 1 - i \in Good => d <= p - 1 - i
    BY <1>2
  <2> HIDE DEF Good
  <2> QED BY <1>3, <2>1, <2>2, <2>3
<1> QED BY <1>3, <1>4 DEF IsLineStart

LEMMA LineStartFacts ==
    ASSUME NEW s, NEW p \in Nat, p >= 1
    PROVE  /\ IsLineStart(s, p, LineStart(s, p))
           /\ \A b : IsLineStart(s, p, b) => b = LineStart(s, p)
<1>1. IsLineStart(s, p, LineStart(s, p))
  BY LineStartExists, Zenon DEF IsLineStart, LineStart
<1> QED BY <1>1, OneLineStart

-----------------------------------------------------------------------------
(* One more piece: s is what the monitor has read, u what it has with it.  *)

\* Behind s, a line begins or a full piece has ended.
AtBoundary(s) ==
    \/ Len(s) = 0 \/ s[Len(s)] = LF
    \/ (Len(s) - LineStart(s, Len(s))) % (LineMax - 1) = 0

OnePieceMore(s, u, n) ==
    /\ s \in Seq(Byte) /\ u \in Seq(Byte) /\ Len(s) \in Nat
    /\ n \in Nat /\ 1 <= n /\ n <= LineMax - 1 /\ LineMax - 1 \in Nat
    /\ Len(u) = Len(s) + n
    /\ \A i \in 1..Len(s) : u[i] = s[i]
    /\ \A i \in (Len(s) + 1)..(Len(s) + n - 1) : u[i] # LF
    /\ AtBoundary(s)

LEMMA OldLineStart ==
    ASSUME NEW s, NEW u, NEW n, OnePieceMore(s, u, n), NEW p \in 1..Len(s)
    PROVE  LineStart(u, p) = LineStart(s, p)
<1>1. Len(s) \in Nat /\ p \in Nat /\ p >= 1 /\ p <= Len(s)
  BY DEF OnePieceMore
<1>2. IsLineStart(s, p, LineStart(s, p))
  BY <1>1, LineStartFacts
<1>3. \A i \in 1..(p - 1) : u[i] = s[i]
  BY <1>1 DEF OnePieceMore
<1>4. IsLineStart(u, p, LineStart(s, p))
  <2> DEFINE b == LineStart(s, p)
  <2> HIDE DEF b
  <2>1. b \in 0..(p - 1) /\ (b = 0 \/ s[b] = LF) /\ \A i \in (b + 1)..(p - 1) : s[i] # LF
    BY <1>2 DEF IsLineStart, b
  <2>2. b # 0 => b \in 1..(p - 1)
    BY <1>1, <2>1
  <2>3. \A i \in (b + 1)..(p - 1) : i \in 1..(p - 1)
    BY <1>1, <2>1
  <2>4. IsLineStart(u, p, b)
    BY <1>3, <2>1, <2>2, <2>3 DEF IsLineStart
  <2> QED BY <2>4 DEF b
<1> QED BY <1>1, <1>4, LineStartFacts

LEMMA NewLineStart ==
    ASSUME NEW s, NEW u, NEW n, OnePieceMore(s, u, n)
    PROVE  \E L \in 0..Len(s) :
              /\ (Len(s) - L) % (LineMax - 1) = 0
              /\ \A j \in 1..n : LineStart(u, Len(s) + j) = L
<1> DEFINE old == Len(s)
           m == LineMax - 1
<1>1. old \in Nat /\ n \in Nat /\ m \in Nat /\ m >= 1
  BY DEF OnePieceMore
<1>2. /\ \A i \in 1..old : u[i] = s[i]
      /\ \A i \in (old + 1)..(old + n - 1) : u[i] # LF
      /\ old = 0 \/ s[old] = LF \/ (old - LineStart(s, old)) % m = 0
  BY DEF OnePieceMore, AtBoundary
<1>3. \A j \in 1..n : old + j \in Nat /\ old + j >= 1
  BY <1>1
<1>4. CASE old = 0 \/ s[old] = LF
  <2> HIDE DEF old, m
  <2>1. \A j \in 1..n : IsLineStart(u, old + j, old)
    <3> TAKE j \in 1..n
    <3>1. old \in 0..(old + j - 1) /\ (old # 0 => old \in 1..old)
      BY <1>1
    <3>2. \A i \in (old + 1)..(old + j - 1) : i \in (old + 1)..(old + n - 1)
      BY <1>1
    <3> QED BY <1>2, <1>4, <3>1, <3>2 DEF IsLineStart
  <2>2. \A j \in 1..n : LineStart(u, old + j) = old
    BY <1>3, <2>1, LineStartFacts
  <2>3. (old - old) % m = 0 /\ old \in 0..old
    <3>1. m * 0 + 0 = old - old /\ 0 \in 0..(m - 1)
      BY <1>1
    <3> QED BY <1>1, <3>1, Remainder
  <2> QED BY <2>2, <2>3 DEF old, m
<1>5. CASE old # 0 /\ s[old] # LF
  <2> DEFINE L == LineStart(s, old)
  <2>1. IsLineStart(s, old, L) /\ (old - L) % m = 0
    BY <1>1, <1>2, <1>5, LineStartFacts
  <2> HIDE DEF L, old, m
  <2>2. L \in 0..(old - 1) /\ (L = 0 \/ s[L] = LF) /\ \A i \in (L + 1)..(old - 1) : s[i] # LF
    BY <2>1 DEF IsLineStart
  <2>3. L \in 0..old /\ (L # 0 => L \in 1..old)
    BY <1>1, <2>2
  <2>4. \A j \in 1..n : IsLineStart(u, old + j, L)
    <3> TAKE j \in 1..n
    <3>1. L \in 0..((old + j) - 1)
      BY <1>1, <2>2
    <3>2. ASSUME NEW i \in (L + 1)..((old + j) - 1) PROVE u[i] # LF
      <4>1. /\ i \in (L + 1)..(old - 1) \/ i = old \/ i \in (old + 1)..(old + n - 1)
            /\ i <= old => i \in 1..old
        BY <1>1, <2>2, <3>2
      <4>2. i <= old \/ i \in (old + 1)..(old + n - 1)
        BY <1>1, <2>2, <3>2
      <4>3. CASE i \in (old + 1)..(old + n - 1)
        BY <1>2, <4>3
      <4>4. CASE i <= old
        <5>1. u[i] = s[i]
          BY <1>2, <4>1, <4>4
        <5>2. i \in (L + 1)..(old - 1) \/ i = old
          BY <1>1, <2>2, <3>2, <4>4
        <5> QED BY <1>5, <2>2, <5>1, <5>2
      <4> QED BY <4>2, <4>3, <4>4
    <3>3. L = 0 \/ u[L] = LF
      BY <1>2, <2>2, <2>3
    <3>4. \A i \in (L + 1)..((old + j) - 1) : u[i] # LF
      BY <3>2
    <3> QED BY <3>1, <3>3, <3>4 DEF IsLineStart
  <2>5. \A j \in 1..n : LineStart(u, old + j) = L
    BY <1>3, <2>4, LineStartFacts
  <2> QED BY <2>1, <2>3, <2>5 DEF old, m
<1> QED BY <1>4, <1>5

LEMMA NewEnds ==
    ASSUME NEW s, NEW u, NEW n, OnePieceMore(s, u, n)
    PROVE  /\ PieceEnds(u) = PieceEnds(s) \cup {Len(s) + n}
           /\ Len(s) # 0 => Len(s) \in PieceEnds(s)
           /\ \A p \in PieceEnds(s) : p \in 1..Len(s)
           /\ u[Len(u)] = LF \/ n = LineMax - 1 => AtBoundary(u)
<1> DEFINE old == Len(s)
           m == LineMax - 1
           EndIn(v, p) == p = Len(v) \/ v[p] = LF \/ (p - LineStart(v, p)) % m = 0
<1>1. old \in Nat /\ n \in Nat /\ m \in Nat /\ m >= 1 /\ n >= 1 /\ n <= m /\ Len(u) = old + n
  BY DEF OnePieceMore
<1>2. \A v, p : p \in PieceEnds(v) <=> p \in 1..Len(v) /\ EndIn(v, p)
  BY DEF PieceEnds
<1>3. PICK L \in 0..old : /\ (old - L) % m = 0
                          /\ \A j \in 1..n : LineStart(u, old + j) = L
  BY NewLineStart
<1> HIDE DEF m
<1>4. ASSUME NEW p \in 1..old PROVE p \in PieceEnds(u) <=> p \in PieceEnds(s)
  <2>1. u[p] = s[p] /\ LineStart(u, p) = LineStart(s, p)
    BY <1>4, OldLineStart DEF OnePieceMore
  <2>2. p \in 1..Len(u) /\ p # Len(u)
    BY <1>1, <1>4
  <2>3. CASE p # old
    BY <1>2, <1>4, <2>1, <2>2, <2>3
  <2>4. CASE p = old
    <3>1. EndIn(u, p)
      <4>1. old # 0
        BY <1>1, <1>4, <2>4
      <4> QED BY <2>1, <2>4, <4>1 DEF OnePieceMore, AtBoundary, m
    <3> QED BY <1>2, <1>4, <2>2, <2>4, <3>1
  <2> QED BY <2>3, <2>4
<1>5. ASSUME NEW j \in 1..n
      PROVE  ((old + j) - LineStart(u, old + j)) % m = 0 <=> j = m
  <2>1. (old + j) - L = (old - L) + j /\ old - L \in Int /\ j \in 1..m
    BY <1>1, <1>5
  <2>2. ((old - L) + j) % m = 0 <=> j = m
    BY <1>1, <1>3, <2>1, NextMultiple
  <2> QED BY <1>3, <2>1, <2>2
<1>6. ASSUME NEW p \in (old + 1)..(old + n) PROVE p \in PieceEnds(u) <=> p = old + n
  <2>1. /\ p - old \in 1..n /\ old + (p - old) = p /\ p \in 1..Len(u)
        /\ p # old + n => p - old # m /\ p \in (old + 1)..(old + n - 1)
    BY <1>1, <1>6
  <2>2. (p - LineStart(u, p)) % m = 0 <=> p - old = m
    BY <1>5, <2>1
  <2>3. CASE p = old + n
    BY <1>1, <1>2, <2>1, <2>3
  <2>4. CASE p # old + n
    BY <1>1, <1>2, <2>1, <2>2, <2>4 DEF OnePieceMore
  <2> QED BY <2>3, <2>4
<1>7. \A p \in PieceEnds(s) : p \in 1..old
  BY <1>2
<1>8. PieceEnds(u) = PieceEnds(s) \cup {old + n}
  <2>1. \A p \in PieceEnds(u) : p \in 1..old \/ p \in (old + 1)..(old + n)
    BY <1>1, <1>2
  <2>2. \A p \in 1..old : p \notin (old + 1)..(old + n)
    BY <1>1
  <2>3. old + n \in (old + 1)..(old + n)
    BY <1>1
  <2> QED BY <1>4, <1>6, <1>7, <2>1, <2>2, <2>3
<1>9. old # 0 => old \in PieceEnds(s)
  BY <1>1, <1>2
<1>10. u[Len(u)] = LF \/ n = m => AtBoundary(u)
  <2>1. n \in 1..n /\ Len(u) = old + n
    BY <1>1
  <2>2. n = m => (Len(u) - LineStart(u, Len(u))) % m = 0
    BY <1>5, <2>1
  <2> QED BY <2>2 DEF AtBoundary, m
<1> QED BY <1>7, <1>8, <1>9, <1>10 DEF m

IsPieceStart(s, p, b) ==
    /\ b \in 1..p
    /\ b = 1 \/ b - 1 \in PieceEnds(s)
    /\ \A i \in b..(p - 1) : i \notin PieceEnds(s)

LEMMA OnePieceStart ==
    ASSUME NEW s, NEW p \in Nat, NEW b, NEW c, IsPieceStart(s, p, b), IsPieceStart(s, p, c)
    PROVE  b = c
<1>1. b \in Int /\ c \in Int /\ 1 <= b /\ 1 <= c /\ b <= p /\ c <= p
  BY DEF IsPieceStart
<1>2. ~(b < c)
  <2>1. b < c => c - 1 \in b..(p - 1) /\ c # 1
    BY <1>1
  <2> QED BY <2>1 DEF IsPieceStart
<1>3. ~(c < b)
  <2>1. c < b => b - 1 \in c..(p - 1) /\ b # 1
    BY <1>1
  <2> QED BY <2>1 DEF IsPieceStart
<1> QED BY <1>1, <1>2, <1>3

LEMMA PieceStartExists ==
    ASSUME NEW s, NEW p \in Nat, p >= 1
    PROVE  \E b : IsPieceStart(s, p, b)
<1> DEFINE Good == {d \in Nat : d <= p - 1 /\ (d = p - 1 \/ (p - d) - 1 \in PieceEnds(s))}
<1>1. p - 1 \in Good
  OBVIOUS
<1>2. PICK d \in Good : \A k \in Good : d <= k
  BY <1>1, LeastNumber
<1>3. /\ d \in Nat /\ d <= p - 1 /\ p - d \in 1..p
      /\ p - d = 1 \/ (p - d) - 1 \in PieceEnds(s)
  BY <1>2
<1>4. ASSUME NEW i \in (p - d)..(p - 1) PROVE i \notin PieceEnds(s)
  <2>1. /\ (p - 1) - i \in Nat /\ (p - 1) - i < d /\ (p - 1) - i <= p - 1
        /\ (p - ((p - 1) - i)) - 1 = i
    BY <1>3, <1>4
  <2>2. i \in PieceEnds(s) => (p - 1) - i \in Good
    BY <2>1
  <2>3. (p - 1) - i \in Good => d <= (p - 1) - i
    BY <1>2
  <2> HIDE DEF Good
  <2> QED BY <1>3, <2>1, <2>2, <2>3
<1> QED BY <1>3, <1>4 DEF IsPieceStart

LEMMA PieceStartFacts ==
    ASSUME NEW s, NEW p \in Nat, p >= 1
    PROVE  /\ IsPieceStart(s, p, PieceStart(s, p))
           /\ \A b : IsPieceStart(s, p, b) => b = PieceStart(s, p)
<1>1. IsPieceStart(s, p, PieceStart(s, p))
  BY PieceStartExists, Zenon DEF IsPieceStart, PieceStart
<1> QED BY <1>1, OnePieceStart

\* The names at the end of a piece are the sequences that are a name in it.
LEMMA NamesAre ==
    ASSUME NEW s \in Seq(Byte), NEW p \in 1..Len(s)
    PROVE  \A name : name \in NamesAt(s, p)
                        <=> name \in Seq(Byte) /\ IsNameIn(name, s, PieceStart(s, p), p)
<1> DEFINE b == PieceStart(s, p)
<1>1. Len(s) \in Nat /\ p \in Nat /\ p >= 1 /\ p <= Len(s)
  BY LenProperties
<1>2. b \in 1..p
  BY <1>1, PieceStartFacts DEF IsPieceStart
<1> HIDE DEF b
<1>3. ASSUME NEW k \in 0..p
      PROVE  /\ SubSeq(s, b, k) \in Seq(Byte)
  <2>1. \A i \in b..k : i \in 1..Len(s)
    BY <1>1, <1>2
  <2>2. \A i \in b..k : s[i] \in Byte
    BY <2>1, ElementOfSeq
  <2>3. b \in Int /\ k \in Int
    BY <1>1, <1>2
  <2> QED BY <2>2, <2>3, SubSeqProperties
<1>4. ASSUME NEW name \in Seq(Byte), IsNameIn(name, s, b, p)
      PROVE  \E k \in 0..p : name = SubSeq(s, b, k)
  <2> DEFINE k == (b + Len(name)) - 1
  <2>1. Len(name) \in Nat /\ Len(name) <= p - b + 1
    BY <1>4, LenProperties DEF IsNameIn
  <2>2. name # <<>> /\ \A i \in 1..Len(name) : name[i] = s[b + i - 1]
    BY <1>4 DEF IsNameIn
  <2>3. Len(name) >= 1
    BY <2>1, <2>2, EmptySeq
  <2>4. k \in 0..p /\ b \in Int /\ k \in Int /\ b <= k /\ k - b + 1 = Len(name)
    BY <1>1, <1>2, <2>1, <2>3
  <2>5. \A i \in b..k : s[i] \in Byte
    <3>1. \A i \in b..k : i \in 1..Len(s)
      BY <1>1, <1>2, <2>4
    <3> QED BY <3>1, ElementOfSeq
  <2> HIDE DEF k
  <2>6. /\ SubSeq(s, b, k) \in Seq(Byte)
        /\ Len(SubSeq(s, b, k)) = IF b <= k THEN k - b + 1 ELSE 0
        /\ \A i \in 1..(k - b + 1) : SubSeq(s, b, k)[i] = s[b + i - 1]
    BY ONLY <2>4, <2>5, SubSeqProperties
  <2>7. Len(SubSeq(s, b, k)) = Len(name)
    BY <2>4, <2>6
  <2>8. \A i \in 1..Len(name) : SubSeq(s, b, k)[i] = name[i]
    BY <2>2, <2>4, <2>6
  <2>9. name = SubSeq(s, b, k)
    BY <2>6, <2>7, <2>8, SeqEqual
  <2> QED BY <2>4, <2>9
<1> QED BY <1>3, <1>4 DEF NamesAt, b

LEMMA OldNames ==
    ASSUME NEW s, NEW u, NEW n, OnePieceMore(s, u, n), NEW p \in PieceEnds(s)
    PROVE  NamesAt(u, p) = NamesAt(s, p)
<1> DEFINE b == PieceStart(s, p)
<1>1. /\ s \in Seq(Byte) /\ u \in Seq(Byte) /\ Len(s) \in Nat /\ n \in Nat /\ n >= 1
      /\ Len(u) = Len(s) + n /\ \A i \in 1..Len(s) : u[i] = s[i]
  BY DEF OnePieceMore
<1>2. p \in 1..Len(s) /\ PieceEnds(u) = PieceEnds(s) \cup {Len(s) + n}
  BY NewEnds
<1>3. p \in 1..Len(u) /\ p \in Nat /\ p >= 1 /\ p <= Len(s)
  BY <1>1, <1>2
<1>4. IsPieceStart(s, p, b)
  BY <1>3, PieceStartFacts
<1> HIDE DEF b
<1>5. b \in 1..p
  BY <1>4 DEF IsPieceStart
<1>6. IsPieceStart(u, p, b)
  <2>1. \A i \in b..(p - 1) : i # Len(s) + n
    BY <1>1, <1>3, <1>5
  <2> QED BY <1>2, <1>4, <2>1 DEF IsPieceStart
<1>7. PieceStart(u, p) = b
  BY <1>3, <1>6, PieceStartFacts
<1>8. ASSUME NEW name \in Seq(Byte)
      PROVE  IsNameIn(name, u, b, p) <=> IsNameIn(name, s, b, p)
  <2>1. Len(name) \in Nat
    BY LenProperties
  <2>2. ASSUME Len(name) <= p - b + 1, NEW i \in 1..Len(name)
        PROVE  u[b + i - 1] = s[b + i - 1]
    <3>1. b + i - 1 \in 1..Len(s)
      BY <1>3, <1>5, <2>1, <2>2
    <3> QED BY <1>1, <3>1
  <2>3. ASSUME NEW e \in (b + Len(name))..(p + 1)
        PROVE  /\ e # p + 1 => u[e] = s[e]
               /\ \A i \in (b + Len(name))..(e - 1) : u[i] = s[i]
    <3>1. e # p + 1 => e \in 1..Len(s)
      BY <1>3, <1>5, <2>1, <2>3
    <3>2. \A i \in (b + Len(name))..(e - 1) : i \in 1..Len(s)
      BY <1>3, <1>5, <2>1, <2>3
    <3> QED BY <1>1, <3>1, <3>2
  <2>4. ASSUME NEW e \in (b + Len(name))..(p + 1)
        PROVE  (/\ e = p + 1 \/ u[e] = 0
                /\ \A i \in (b + Len(name))..(e - 1) : u[i] \in {CR, LF})
               <=> (/\ e = p + 1 \/ s[e] = 0
                    /\ \A i \in (b + Len(name))..(e - 1) : s[i] \in {CR, LF})
    BY <2>3, <2>4
  <2>5. Len(name) <= p - b + 1 =>
           ((\A i \in 1..Len(name) : name[i] = u[b + i - 1] /\ name[i] # 0)
            <=> (\A i \in 1..Len(name) : name[i] = s[b + i - 1] /\ name[i] # 0))
    BY <2>2
  <2> QED BY <2>4, <2>5, Zenon DEF IsNameIn
<1> QED BY <1>1, <1>2, <1>3, <1>7, <1>8, NamesAre DEF b

LEMMA OneKept ==
    ASSUME NEW t \in Seq(Byte), NEW f, NEW k, NEW g, NEW l, KeptOf(t, f, k), KeptOf(t, g, l)
    PROVE  f = g /\ k = l
<1>1. Len(t) \in Nat
  BY LenProperties
<1>2. /\ f \in Int /\ g \in Int /\ 0 <= f /\ 0 <= g /\ f <= Len(t) /\ g <= Len(t)
      /\ k \in Int /\ l \in Int /\ 0 <= k /\ 0 <= l /\ k <= f /\ l <= g
  BY <1>1 DEF KeptOf
<1>3. f = g
  <2>1. f < g => f + 1 \in 1..g /\ f # Len(t)
    BY <1>1, <1>2
  <2>2. g < f => g + 1 \in 1..f /\ g # Len(t)
    BY <1>1, <1>2
  <2>3. ~(f < g) /\ ~(g < f)
    BY <2>1, <2>2 DEF KeptOf
  <2> QED BY <1>2, <2>3
<1>4. k = l
  <2>1. k < l => l \in (k + 1)..f /\ l # 0
    BY <1>2, <1>3
  <2>2. l < k => k \in (l + 1)..g /\ k # 0
    BY <1>2, <1>3
  <2>3. ~(k < l) /\ ~(l < k)
    BY <2>1, <2>2 DEF KeptOf
  <2> QED BY <1>2, <2>3
<1> QED BY <1>3, <1>4

\* A name in a piece, counted from the beginning of the piece.
NameIn(name, t) ==
    /\ Len(name) <= Len(t)
    /\ name # <<>> /\ name[Len(name)] \notin {CR, LF}
    /\ \A i \in 1..Len(name) : name[i] = t[i] /\ name[i] # 0
    /\ \E f \in Len(name)..Len(t) :
          /\ f = Len(t) \/ t[f + 1] = 0
          /\ \A i \in (Len(name) + 1)..f : t[i] \in {CR, LF}

LEMMA NameInPiece ==
    ASSUME NEW s, NEW u, NEW n, OnePieceMore(s, u, n), NEW t \in Seq(Byte), Len(t) = n,
           \A j \in 1..n : u[Len(s) + j] = t[j], NEW name \in Seq(Byte)
    PROVE  IsNameIn(name, u, Len(s) + 1, Len(s) + n) <=> NameIn(name, t)
<1> DEFINE old == Len(s)
           l == Len(name)
           b == old + 1
           p == old + n
<1>1. old \in Nat /\ n \in Nat /\ n >= 1 /\ l \in Nat
  BY LenProperties DEF OnePieceMore
<1>2. \A j \in 1..n : u[old + j] = t[j]
  OBVIOUS
<1> HIDE DEF old, l
<1>3. l <= p - b + 1 <=> l <= n
  BY <1>1
<1>4. ASSUME l <= n, NEW i \in 1..l PROVE u[b + i - 1] = t[i]
  <2>1. b + i - 1 = old + i /\ i \in 1..n
    BY <1>1, <1>4
  <2> QED BY <1>2, <2>1
<1> DEFINE Far(e) == /\ e = p + 1 \/ u[e] = 0
                     /\ \A i \in (b + l)..(e - 1) : u[i] \in {CR, LF}
           Near(f) == /\ f = n \/ t[f + 1] = 0
                      /\ \A i \in (l + 1)..f : t[i] \in {CR, LF}
<1>5. ASSUME NEW f \in l..n PROVE Far(b + f) <=> Near(f)
  <2>1. b + f = p + 1 <=> f = n
    BY <1>1, <1>5
  <2>2. f # n => u[b + f] = t[f + 1]
    <3>1. b + f = old + (f + 1) /\ (f # n => f + 1 \in 1..n)
      BY <1>1, <1>5
    <3> QED BY <1>2, <3>1
  <2>3. ASSUME NEW i \in (l + 1)..f PROVE old + i \in (b + l)..((b + f) - 1) /\ u[old + i] = t[i]
    <3>1. old + i \in (b + l)..((b + f) - 1) /\ i \in 1..n
      BY <1>1, <1>5, <2>3
    <3> QED BY <1>2, <3>1
  <2>4. ASSUME NEW x \in (b + l)..((b + f) - 1) PROVE x - old \in (l + 1)..f /\ u[x] = t[x - old]
    <3>1. x - old \in (l + 1)..f /\ x - old \in 1..n /\ old + (x - old) = x
      BY <1>1, <1>5, <2>4
    <3> QED BY <1>2, <3>1
  <2> HIDE DEF b, p
  <2>5. (\A i \in (b + l)..((b + f) - 1) : u[i] \in {CR, LF})
        <=> (\A i \in (l + 1)..f : t[i] \in {CR, LF})
    BY <2>3, <2>4
  <2> QED BY <2>1, <2>2, <2>5
<1>6. (\E e \in (b + l)..(p + 1) : Far(e)) <=> (\E f \in l..n : Near(f))
  <2>1. \A f \in l..n : b + f \in (b + l)..(p + 1)
    BY <1>1
  <2>2. \A e \in (b + l)..(p + 1) : e - b \in l..n /\ b + (e - b) = e
    BY <1>1
  <2> HIDE DEF b, p, Far, Near
  <2>3. ASSUME NEW e \in (b + l)..(p + 1), Far(e) PROVE \E f \in l..n : Near(f)
    <3>1. e - b \in l..n /\ Far(b + (e - b))
      BY <2>2, <2>3
    <3> QED BY <1>5, <3>1
  <2>4. ASSUME NEW f \in l..n, Near(f) PROVE \E e \in (b + l)..(p + 1) : Far(e)
    BY <1>5, <2>1, <2>4
  <2> QED BY <2>3, <2>4
<1>7. IsNameIn(name, u, b, p) <=>
        /\ l <= p - b + 1
        /\ name # <<>> /\ name[l] \notin {CR, LF}
        /\ \A i \in 1..l : name[i] = u[b + i - 1] /\ name[i] # 0
        /\ \E e \in (b + l)..(p + 1) : Far(e)
  BY Zenon DEF IsNameIn, l
<1>8. NameIn(name, t) <=>
        /\ l <= n
        /\ name # <<>> /\ name[l] \notin {CR, LF}
        /\ \A i \in 1..l : name[i] = t[i] /\ name[i] # 0
        /\ \E f \in l..n : Near(f)
  BY Zenon DEF NameIn, l
<1>9. l <= n => ((\A i \in 1..l : name[i] = u[b + i - 1] /\ name[i] # 0)
                 <=> (\A i \in 1..l : name[i] = t[i] /\ name[i] # 0))
  BY <1>4
<1>10. IsNameIn(name, u, b, p) <=> NameIn(name, t)
  <2> HIDE DEF Far, Near, b, p
  <2> QED BY <1>3, <1>6, <1>7, <1>8, <1>9, Zenon
<1> QED BY <1>10 DEF old

\* strip_line_end leaves exactly the name in a piece.
LEMMA NameIsCommand ==
    ASSUME NEW t \in Seq(Byte), NEW name \in Seq(Byte)
    PROVE  NameIn(name, t) <=> name # <<>> /\ name = CommandIn(t)
<1>0. PICK length, kept \in Nat : KeptOf(t, length, kept) /\ CommandIn(t) = SubSeq(t, 1, kept)
  BY CommandFacts
<1>1. Len(t) \in Nat /\ kept <= length /\ length <= Len(t)
  BY <1>0, LenProperties DEF KeptOf
<1>2. /\ SubSeq(t, 1, kept) \in Seq(Byte) /\ Len(SubSeq(t, 1, kept)) = kept
      /\ \A i \in 1..kept : SubSeq(t, 1, kept)[i] = t[i]
  <2>1. \A i \in 1..kept : i \in 1..Len(t)
    BY <1>1
  <2>2. \A i \in 1..kept : t[i] \in Byte
    BY <2>1, ElementOfSeq
  <2>3. /\ SubSeq(t, 1, kept) \in Seq(Byte)
        /\ Len(SubSeq(t, 1, kept)) = IF 1 <= kept THEN kept - 1 + 1 ELSE 0
        /\ \A i \in 1..(kept - 1 + 1) : SubSeq(t, 1, kept)[i] = t[1 + i - 1]
    <3>1. 1 \in Int /\ kept \in Int
      OBVIOUS
    <3> QED BY <2>2, <3>1, SubSeqProperties
  <2>4. /\ (IF 1 <= kept THEN kept - 1 + 1 ELSE 0) = kept /\ kept - 1 + 1 = kept
        /\ \A i \in 1..kept : 1 + i - 1 = i
    OBVIOUS
  <2> QED BY <2>3, <2>4
<1>3. ASSUME NameIn(name, t) PROVE name = CommandIn(t)
  <2>1. PICK f \in Len(name)..Len(t) :
           /\ f = Len(t) \/ t[f + 1] = 0
           /\ \A i \in (Len(name) + 1)..f : t[i] \in {CR, LF}
    BY <1>3 DEF NameIn
  <2>2. /\ Len(name) \in Nat /\ f \in Nat /\ Len(name) <= f /\ f <= Len(t)
        /\ name # <<>> => Len(name) >= 1
    BY <1>1, <2>1, LenProperties, EmptySeq
  <2>3. \A i \in 1..f : t[i] # 0
    <3> TAKE i \in 1..f
    <3>1. i \in 1..Len(name) \/ i \in (Len(name) + 1)..f
      BY <2>2
    <3> QED BY <1>3, <2>1, <3>1 DEF NameIn, CR, LF
  <2>4. Len(name) # 0 => t[Len(name)] \notin {CR, LF}
    <3>1. Len(name) # 0 => Len(name) \in 1..Len(name)
      BY <2>2
    <3> QED BY <1>3, <3>1 DEF NameIn
  <2>5. KeptOf(t, f, Len(name))
    <3>1. f \in 0..Len(t) /\ Len(name) \in 0..f
      BY <1>1, <2>2
    <3> QED BY <2>1, <2>3, <2>4, <3>1 DEF KeptOf
  <2>6. Len(name) = kept
    BY <1>0, <2>5, OneKept
  <2>7. \A i \in 1..kept : name[i] = SubSeq(t, 1, kept)[i]
    BY <1>2, <1>3, <2>6 DEF NameIn
  <2> QED BY <1>0, <1>2, <2>6, <2>7, SeqEqual
<1>4. ASSUME name # <<>>, name = CommandIn(t) PROVE NameIn(name, t)
  <2>1. Len(name) = kept /\ \A i \in 1..kept : name[i] = t[i]
    BY <1>0, <1>2, <1>4
  <2>2. kept \in 1..kept
    <3>1. kept # 0
      BY <1>4, <2>1, EmptySeq
    <3> QED BY <3>1
  <2>3. name[kept] \notin {CR, LF}
    BY <1>0, <2>1, <2>2 DEF KeptOf
  <2>4. \A i \in 1..kept : t[i] # 0
    <3>1. \A i \in 1..kept : i \in 1..length
      BY <1>1
    <3> QED BY <1>0, <3>1 DEF KeptOf
  <2>5. length \in kept..Len(t)
    BY <1>1
  <2>6. /\ length = Len(t) \/ t[length + 1] = 0
        /\ \A i \in (kept + 1)..length : t[i] \in {CR, LF}
    BY <1>0 DEF KeptOf
  <2>7. kept <= Len(t)
    BY <1>1
  <2> QED BY <1>4, <2>1, <2>3, <2>4, <2>5, <2>6, <2>7, Zenon DEF NameIn
<1>5. NameIn(name, t) => name # <<>>
  BY DEF NameIn
<1> QED BY <1>3, <1>4, <1>5

\* The piece is t.
Adds(s, u, n, t) ==
    /\ OnePieceMore(s, u, n)
    /\ t \in Seq(Byte) /\ Len(t) = n /\ \A j \in 1..n : u[Len(s) + j] = t[j]
    /\ CommandIn(t) \in Seq(Byte)

LEMMA NewNames ==
    ASSUME NEW s, NEW u, NEW n, NEW t, Adds(s, u, n, t)
    PROVE  NamesAt(u, Len(s) + n) = IF CommandIn(t) = <<>> THEN {} ELSE {CommandIn(t)}
<1>0. /\ OnePieceMore(s, u, n) /\ t \in Seq(Byte) /\ Len(t) = n /\ CommandIn(t) \in Seq(Byte)
      /\ \A j \in 1..n : u[Len(s) + j] = t[j]
  BY DEF Adds
<1> DEFINE old == Len(s)
           p == old + n
<1>1. /\ old \in Nat /\ n \in Nat /\ n >= 1 /\ Len(u) = p /\ u \in Seq(Byte)
      /\ p \in Nat /\ p >= 1 /\ p \in 1..Len(u)
  BY <1>0 DEF OnePieceMore
<1>2. /\ PieceEnds(u) = PieceEnds(s) \cup {p} /\ (old # 0 => old \in PieceEnds(s))
      /\ \A e \in PieceEnds(s) : e \in 1..old
  BY <1>0, NewEnds
<1>3. IsPieceStart(u, p, old + 1)
  <2>1. old + 1 \in 1..p /\ (old = 0 => old + 1 = 1) /\ (old + 1) - 1 = old
    BY <1>1
  <2>2. \A i \in (old + 1)..(p - 1) : i \notin 1..old /\ i # p
    BY <1>1
  <2> HIDE DEF old, p
  <2> QED BY <1>2, <2>1, <2>2 DEF IsPieceStart
<1>4. PieceStart(u, p) = old + 1
  BY <1>1, <1>3, PieceStartFacts
<1>5. \A name \in Seq(Byte) : IsNameIn(name, u, old + 1, p)
                                 <=> name # <<>> /\ name = CommandIn(t)
  BY <1>0, NameInPiece, NameIsCommand
<1>6. \A name : name \in NamesAt(u, p) <=> name \in Seq(Byte) /\ IsNameIn(name, u, old + 1, p)
  BY <1>1, <1>4, NamesAre
<1> HIDE DEF old, p
<1>7. \A name : name \in NamesAt(u, p) <=> name # <<>> /\ name = CommandIn(t)
  BY <1>0, <1>5, <1>6
<1>8. NamesAt(u, p) = IF CommandIn(t) = <<>> THEN {} ELSE {CommandIn(t)}
  <2>1. CASE CommandIn(t) = <<>>
    BY <1>7, <2>1, Zenon
  <2>2. CASE CommandIn(t) # <<>>
    <3> DEFINE c == CommandIn(t)
    <3>1. \A name : name \in NamesAt(u, p) <=> name = c
      BY <1>7, <2>2
    <3> HIDE DEF c
    <3>2. NamesAt(u, p) = {c}
      BY <3>1, Zenon
    <3> QED BY <2>2, <3>2 DEF c
  <2> QED BY <2>1, <2>2
<1> QED BY <1>8 DEF old, p

-----------------------------------------------------------------------------
(* The pieces that name a program, and their number.                       *)

LEMMA NamedFinite ==
    ASSUME NEW s \in Seq(Byte)
    PROVE  /\ IsFiniteSet(Named(s)) /\ Cardinality(Named(s)) \in Nat
           /\ \A p \in Named(s) : p \in PieceEnds(s) /\ p \in 1..Len(s)
           /\ \A p \in Named(s) : Cardinality({e \in Named(s) : e <= p}) \in 1..Cardinality(Named(s))
<1>1. Len(s) \in Nat /\ Named(s) \in SUBSET (1..Len(s))
  BY LenProperties DEF Named, PieceEnds
<1>2. IsFiniteSet(1..Len(s))
  <2>1. 1 \in Int /\ Len(s) \in Int
    BY <1>1
  <2> QED BY <2>1, FS_Interval
<1>3. IsFiniteSet(Named(s))
  BY <1>1, <1>2, FS_Subset
<1>4. Cardinality(Named(s)) \in Nat
  BY <1>3, FS_CardinalityType
<1>5. ASSUME NEW p \in Named(s)
      PROVE  Cardinality({e \in Named(s) : e <= p}) \in 1..Cardinality(Named(s))
  <2> DEFINE T == {e \in Named(s) : e <= p}
  <2>1. T \in SUBSET Named(s)
    OBVIOUS
  <2>2. p \in T
    BY <1>1
  <2> HIDE DEF T
  <2>3. IsFiniteSet(T) /\ Cardinality(T) <= Cardinality(Named(s))
    BY <1>3, <2>1, FS_Subset
  <2>4. Cardinality(T) \in Nat
    BY <2>3, FS_CardinalityType
  <2>5. Cardinality(T) # 0
    BY <2>2, <2>3, FS_EmptySet
  <2>6. Cardinality(T) \in 1..Cardinality(Named(s))
    BY <1>4, <2>3, <2>4, <2>5
  <2> QED BY <2>6 DEF T
<1>6. \A p \in Named(s) : p \in PieceEnds(s)
  BY DEF Named
<1> QED BY <1>1, <1>3, <1>4, <1>5, <1>6

\* A piece more is a program more if it names one.
LEMMA NamedStep ==
    ASSUME NEW s, NEW u, NEW n, NEW t, Adds(s, u, n, t)
    PROVE  Named(u) = IF CommandIn(t) = <<>> \/ CommandIn(t) \in QuitWords
                      THEN Named(s) ELSE Named(s) \cup {Len(s) + n}
<1>a. OnePieceMore(s, u, n)
  BY DEF Adds
<1>0. NamesAt(u, Len(s) + n) = IF CommandIn(t) = <<>> THEN {} ELSE {CommandIn(t)}
  BY NewNames
<1> DEFINE p == Len(s) + n
           c == CommandIn(t)
<1>1. PieceEnds(u) = PieceEnds(s) \cup {p}
  BY <1>a, NewEnds
<1>2. \A e \in PieceEnds(s) : NamesAt(u, e) = NamesAt(s, e)
  BY <1>a, OldNames
<1>3. NamesAt(u, p) = IF c = <<>> THEN {} ELSE {c}
  BY <1>0, Zenon
<1>4. p \notin PieceEnds(s)
  <2>1. p \notin 1..Len(s)
    BY <1>a DEF OnePieceMore
  <2> QED BY <1>a, <2>1, NewEnds
<1> HIDE DEF p, c
<1>5. (NamesAt(u, p) # {} /\ NamesAt(u, p) \cap QuitWords = {}) <=> ~(c = <<>> \/ c \in QuitWords)
  <2>1. CASE c = <<>>
    BY <1>3, <2>1
  <2>2. CASE c # <<>>
    <3>1. NamesAt(u, p) = {c}
      BY <1>3, <2>2
    <3> QED BY <2>2, <3>1
  <2> QED BY <2>1, <2>2
<1>6. \A e : e \in Named(s) <=> /\ e \in PieceEnds(s) /\ NamesAt(s, e) # {}
                                /\ NamesAt(s, e) \cap QuitWords = {}
  BY DEF Named
<1>7. \A e : e \in Named(u) <=> /\ e \in PieceEnds(u) /\ NamesAt(u, e) # {}
                                /\ NamesAt(u, e) \cap QuitWords = {}
  BY DEF Named
<1>8. \A e : e \in Named(u) <=> e \in Named(s) \/ (e = p /\ ~(c = <<>> \/ c \in QuitWords))
  <2> TAKE e
  <2>1. CASE e = p
    <3>1. e \in Named(u) <=> ~(c = <<>> \/ c \in QuitWords)
      BY <1>1, <1>5, <1>7, <2>1
    <3>2. e \notin Named(s)
      BY <1>4, <1>6, <2>1
    <3> QED BY <2>1, <3>1, <3>2
  <2>2. CASE e # p
    <3>1. e \in PieceEnds(u) <=> e \in PieceEnds(s)
      BY <1>1, <2>2
    <3>2. e \in Named(u) <=> e \in Named(s)
      BY <1>2, <1>6, <1>7, <3>1
    <3> QED BY <2>2, <3>2
  <2> QED BY <2>1, <2>2
<1>9. CASE c = <<>> \/ c \in QuitWords
  <2>1. Named(u) = Named(s)
    BY <1>8, <1>9
  <2> QED BY <1>9, <2>1 DEF c
<1>10. CASE ~(c = <<>> \/ c \in QuitWords)
  <2>1. Named(u) = Named(s) \cup {p}
    BY <1>8, <1>10
  <2> QED BY <1>10, <2>1 DEF c, p
<1> QED BY <1>9, <1>10

-----------------------------------------------------------------------------
(* CommandsInOrder.                                                        *)

\* CommandsInOrder of what has been read, what has been asked for and the mode.
NamesInOrder(s, names, m) ==
    /\ Len(names) = Cardinality(Named(s))
    /\ \A p \in Named(s) : names[Cardinality({e \in Named(s) : e <= p})] \in NamesAt(s, p)
    /\ \A p \in PieceEnds(s) : NamesAt(s, p) \cap QuitWords # {} => m = "done" /\ p = Len(s)

\* What a piece does to the names asked for, and to the mode.
Answers(c, names, names2, m2) ==
    \/ c = <<>> /\ names2 = names
    \/ c \in QuitWords /\ names2 = names /\ m2 = "done"
    \/ c # <<>> /\ c \notin QuitWords /\ names2 = Append(names, c)

LEMMA NamesInOrderStep ==
    ASSUME NEW s, NEW u, NEW n, NEW t, Adds(s, u, n, t),
           NEW names \in Seq(Seq(Byte)), NEW names2, NEW m, NEW m2, m # "done",
           NamesInOrder(s, names, m), Answers(CommandIn(t), names, names2, m2)
    PROVE  NamesInOrder(u, names2, m2)
<1>1. OnePieceMore(s, u, n) /\ CommandIn(t) \in Seq(Byte)
  BY DEF Adds
<1>2. /\ PieceEnds(u) = PieceEnds(s) \cup {Len(s) + n}
      /\ \A e \in PieceEnds(s) : NamesAt(u, e) = NamesAt(s, e)
  BY <1>1, NewEnds, OldNames
<1>3. NamesAt(u, Len(s) + n) = IF CommandIn(t) = <<>> THEN {} ELSE {CommandIn(t)}
  BY NewNames
<1>4. Named(u) = IF CommandIn(t) = <<>> \/ CommandIn(t) \in QuitWords
                 THEN Named(s) ELSE Named(s) \cup {Len(s) + n}
  BY NamedStep
<1>5. /\ s \in Seq(Byte) /\ Len(s) \in Nat /\ n \in Nat /\ n >= 1 /\ Len(u) = Len(s) + n
  BY <1>1 DEF OnePieceMore
<1>6. /\ IsFiniteSet(Named(s)) /\ Cardinality(Named(s)) \in Nat
      /\ \A e \in Named(s) : e \in PieceEnds(s) /\ e \in 1..Len(s)
      /\ \A e \in Named(s) : Cardinality({x \in Named(s) : x <= e}) \in 1..Cardinality(Named(s))
  BY <1>5, NamedFinite
<1> DEFINE p == Len(s) + n
           c == CommandIn(t)
<1>7. p \in Nat /\ p > Len(s) /\ Len(u) = p
  BY <1>5
<1>8. /\ PieceEnds(u) = PieceEnds(s) \cup {p}
      /\ NamesAt(u, p) = IF c = <<>> THEN {} ELSE {c}
      /\ Named(u) = IF c = <<>> \/ c \in QuitWords THEN Named(s) ELSE Named(s) \cup {p}
      /\ Answers(c, names, names2, m2) /\ c \in Seq(Byte)
  BY <1>1, <1>2, <1>3, <1>4, Zenon
<1> HIDE DEF p, c
<1>9. ASSUME NEW e \in PieceEnds(u), NamesAt(u, e) \cap QuitWords # {}
      PROVE  m2 = "done" /\ e = Len(u)
  <2>1. e \notin PieceEnds(s)
    BY <1>2, <1>9 DEF NamesInOrder
  <2>2. e = p
    BY <1>8, <2>1
  <2>3. c # <<>> /\ c \in QuitWords
    BY <1>8, <1>9, <2>2
  <2> QED BY <1>7, <1>8, <2>2, <2>3 DEF Answers
<1>10. CASE c = <<>> \/ c \in QuitWords
  <2>1. names2 = names /\ Named(u) = Named(s)
    BY <1>8, <1>10 DEF Answers
  <2>2. \A e \in Named(u) : names2[Cardinality({x \in Named(u) : x <= e})] \in NamesAt(u, e)
    BY <1>2, <1>6, <2>1 DEF NamesInOrder
  <2> QED BY <1>9, <2>1, <2>2 DEF NamesInOrder
<1>11. CASE ~(c = <<>> \/ c \in QuitWords)
  <2>1. names2 = Append(names, c) /\ Named(u) = Named(s) \cup {p} /\ NamesAt(u, p) = {c}
    BY <1>8, <1>11 DEF Answers
  <2>2. /\ Len(names2) = Len(names) + 1 /\ names2[Len(names) + 1] = c
        /\ \A i \in 1..Len(names) : names2[i] = names[i]
        /\ Len(names) \in Nat
    BY <1>8, <2>1, AppendProperties, LenProperties
  <2>3. p \notin Named(s)
    <3>1. p \notin 1..Len(s)
      BY <1>5, <1>7
    <3> QED BY <1>6, <3>1
  <2>4. Len(names) = Cardinality(Named(s)) /\ Cardinality(Named(u)) = Len(names) + 1
    <3>1. Cardinality(Named(s) \cup {p}) = Cardinality(Named(s)) + 1
      BY <1>6, <2>3, FS_AddElement
    <3> QED BY <2>1, <3>1 DEF NamesInOrder
  <2>5. ASSUME NEW e \in Named(s)
        PROVE  names2[Cardinality({x \in Named(u) : x <= e})] \in NamesAt(u, e)
    <3>1. ~(p <= e)
      BY <1>5, <1>6, <1>7, <2>5
    <3>2. {x \in Named(u) : x <= e} = {x \in Named(s) : x <= e}
      BY <2>1, <3>1
    <3>3. Cardinality({x \in Named(s) : x <= e}) \in 1..Len(names)
      BY <1>6, <2>4, <2>5
    <3>4. names[Cardinality({x \in Named(s) : x <= e})] \in NamesAt(s, e)
      BY <2>5 DEF NamesInOrder
    <3>5. NamesAt(u, e) = NamesAt(s, e)
      BY <1>2, <1>6, <2>5
    <3> QED BY <2>2, <3>2, <3>3, <3>4, <3>5
  <2>6. names2[Cardinality({x \in Named(u) : x <= p})] \in NamesAt(u, p)
    <3>1. \A x \in Named(u) : x <= p
      BY <1>5, <1>6, <1>7, <2>1
    <3>2. {x \in Named(u) : x <= p} = Named(u)
      BY <3>1
    <3> QED BY <2>1, <2>2, <2>4, <3>2
  <2>7. \A e \in Named(u) : names2[Cardinality({x \in Named(u) : x <= e})] \in NamesAt(u, e)
    BY <2>1, <2>5, <2>6
  <2> QED BY <1>9, <2>2, <2>4, <2>7 DEF NamesInOrder
<1> QED BY <1>10, <1>11

\* The machine takes from its input, if anything, what is there.
LEMMA MachineInput ==
    ASSUME Next
    PROVE  stdin' = stdin \/ stdin # <<>>
<1>1. CASE FetchFault
  BY <1>1 DEF FetchFault
<1>2. CASE Execute(Fetched)
  <2> DEFINE i == Fetched
  <2> HIDE DEF i
  <2> SUFFICES ASSUME Execute(i) PROVE stdin' = stdin \/ stdin # <<>>
    BY <1>2 DEF i
  <2>1. CASE Halt(i) \/ Ret(i) \/ Unknown(i)
    BY <2>1 DEF Halt, Ret, Unknown, Stop, NoIO
  <2>2. CASE Mov(i) \/ Inc(i) \/ Dec(i) \/ AddRegs(i) \/ SubRegs(i) \/ Cmp(i)
    BY <2>2 DEF Mov, Inc, Dec, AddRegs, SubRegs, Cmp, Stop, OnlyRegs, NoIO
  <2>3. CASE Ldb(i) \/ Stb(i) \/ Movi(i) \/ Lddi(i) \/ Stdi(i) \/ Push(i) \/ Pop(i)
    BY <2>3 DEF Ldb, Stb, Movi, Lddi, Stdi, Push, Pop, Stop, OnlyRegs, NoIO
  <2>4. CASE Jump(i) \/ Calli(i) \/ Jz(i) \/ Jnz(i)
    BY <2>4 DEF Jump, Calli, Jz, Jnz, Transfer, UnchangedByJump, Stop, NoIO
  <2>5. CASE PrintChar(i) \/ PrintString(i) \/ PutChar(i) \/ SaveLine(i) \/ LoadLine(i)
    BY <2>5 DEF PrintChar, PrintString, PutChar, SaveLine, LoadLine
  <2>6. CASE ReadChar(i)
    BY <2>6 DEF ReadChar, Stop
  <2> QED BY <2>1, <2>2, <2>3, <2>4, <2>5, <2>6 DEF Execute
<1> QED BY <1>1, <1>2 DEF Next

\* While there is input, what has been read ends where a line begins or a full
\* piece has ended: the next read is a piece of its own.
HistInv == NamesInOrder(seen, asked, mode) /\ (stdin # <<>> => AtBoundary(seen))

LEMMA HistInit == ASSUME MInit PROVE HistInv
<1>1. Len(<<>>) = 0 /\ 1..0 = {} /\ 1..Len(<<>>) = {}
  OBVIOUS
<1>2. PieceEnds(<<>>) = {}
  BY <1>1 DEF PieceEnds
<1>3. Named(<<>>) = {}
  BY <1>2 DEF Named
<1>4. Cardinality({}) = 0
  BY FS_EmptySet
<1> QED BY <1>1, <1>2, <1>3, <1>4 DEF MInit, HistInv, NamesInOrder, AtBoundary

LEMMA HistQuiet ==
    ASSUME HistInv, UNCHANGED <<seen, asked>>, mode = "done" => mode' = "done",
           stdin' = stdin \/ stdin # <<>>
    PROVE  HistInv'
<1>1. HistInv' <=> NamesInOrder(seen', asked', mode') /\ (stdin' # <<>> => AtBoundary(seen'))
  BY DEF HistInv
<1>2. NamesInOrder(seen, asked, mode')
  BY DEF HistInv, NamesInOrder
<1> QED BY <1>1, <1>2 DEF HistInv

LEMMA HistTakes ==
    ASSUME IInv, HistInv, mode = "prompt", NEW n, NEW command, Takes(n, command)
    PROVE  HistInv'
<1> DEFINE t == SubSeq(stdin, 1, n)
<1>1. /\ stdin \in Seq(Byte) /\ stdin # <<>> /\ seen \in Seq(Byte) /\ asked \in Seq(Seq(Byte))
      /\ n = PieceLength(stdin) /\ command = CommandIn(t) /\ seen' = seen \o t
      /\ stdin' = SubSeq(stdin, n + 1, Len(stdin))
  BY DEF Takes, IInv, MTypeOK, TypeOK
<1>2. /\ t \in Seq(Byte) /\ Len(t) = n /\ \A i \in 1..n : t[i] = stdin[i]
      /\ n = Len(stdin) => stdin' = <<>>
      /\ CommandIn(t) \in Seq(Byte)
  BY <1>1, ReadType
<1>3. /\ n \in 1..Len(stdin) /\ n <= LineMax - 1
      /\ n = Len(stdin) \/ n = LineMax - 1 \/ stdin[n] = LF
      /\ \A i \in 1..(n - 1) : stdin[i] # LF
  BY <1>1, PieceFacts
<1>4. Len(stdin) \in Nat /\ Len(seen) \in Nat /\ n \in Nat /\ n >= 1 /\ LineMax - 1 \in Nat
  BY <1>1, <1>3, LenProperties, LineMaxAssumption
<1> HIDE DEF t
<1>5. /\ seen' \in Seq(Byte) /\ Len(seen') = Len(seen) + n
      /\ \A i \in 1..Len(seen) : seen'[i] = seen[i]
      /\ \A j \in 1..n : seen'[Len(seen) + j] = t[j]
  <2>1. /\ seen \o t \in Seq(Byte) /\ Len(seen \o t) = Len(seen) + Len(t)
        /\ \A i \in 1..(Len(seen) + Len(t)) :
              (seen \o t)[i] = IF i <= Len(seen) THEN seen[i] ELSE t[i - Len(seen)]
    BY <1>1, <1>2, ConcatProperties
  <2>2. \A i \in 1..Len(seen) : i \in 1..(Len(seen) + n) /\ i <= Len(seen)
    BY <1>4
  <2>3. \A j \in 1..n : /\ Len(seen) + j \in 1..(Len(seen) + n) /\ ~(Len(seen) + j <= Len(seen))
                        /\ (Len(seen) + j) - Len(seen) = j
    BY <1>4
  <2> QED BY <1>1, <1>2, <2>1, <2>2, <2>3
<1>6. OnePieceMore(seen, seen', n)
  <2>1. \A i \in (Len(seen) + 1)..(Len(seen) + n - 1) :
           /\ i - Len(seen) \in 1..(n - 1) /\ i - Len(seen) \in 1..n
           /\ Len(seen) + (i - Len(seen)) = i
    BY <1>4
  <2>2. \A i \in (Len(seen) + 1)..(Len(seen) + n - 1) : seen'[i] # LF
    <3> TAKE i \in (Len(seen) + 1)..(Len(seen) + n - 1)
    <3> DEFINE j == i - Len(seen)
    <3>1. j \in 1..(n - 1) /\ j \in 1..n /\ Len(seen) + j = i
      BY <2>1
    <3> HIDE DEF j
    <3>2. seen'[Len(seen) + j] = t[j] /\ t[j] = stdin[j] /\ stdin[j] # LF
      BY <1>2, <1>3, <1>5, <3>1
    <3> QED BY <3>1, <3>2
  <2>3. AtBoundary(seen)
    BY <1>1 DEF HistInv
  <2> QED BY <1>1, <1>3, <1>4, <1>5, <2>2, <2>3 DEF OnePieceMore
<1>7. Adds(seen, seen', n, t)
  BY <1>2, <1>5, <1>6 DEF Adds
<1>8. Answers(CommandIn(t), asked, asked', mode')
  BY <1>1 DEF Takes, Answers
<1>9. NamesInOrder(seen', asked', mode')
  BY <1>1, <1>7, <1>8, NamesInOrderStep DEF HistInv
<1>10. ASSUME stdin' # <<>> PROVE AtBoundary(seen')
  <2>1. n = LineMax - 1 \/ t[n] = LF
    <3>1. n \in 1..n
      BY <1>4
    <3> QED BY <1>2, <1>3, <1>10, <3>1
  <2>2. seen'[Len(seen')] = t[n]
    <3>1. n \in 1..n
      BY <1>4
    <3> QED BY <1>5, <3>1
  <2> QED BY <1>6, <2>1, <2>2, NewEnds
<1>11. HistInv' <=> NamesInOrder(seen', asked', mode') /\ (stdin' # <<>> => AtBoundary(seen'))
  BY DEF HistInv
<1> QED BY <1>9, <1>10, <1>11

LEMMA HistStep == ASSUME IInv, HistInv, [MNext]_mvars PROVE HistInv'
<1>1. CASE UNCHANGED mvars
  BY <1>1, HistQuiet DEF mvars, vars
<1>2. CASE Main
  BY <1>2, HistQuiet DEF Main
<1>3. CASE Turn
  BY <1>3, HistQuiet, MachineInput DEF Turn
<1>4. CASE Return
  BY <1>4, HistQuiet DEF Return, vars
<1>5. CASE ReadCommand
  <2>1. CASE EndOfInput
    BY <2>1, HistQuiet DEF EndOfInput
  <2>2. CASE \E n, command : Takes(n, command)
    BY <1>5, <2>2, TurnOfLoop, HistTakes
  <2> QED BY <1>5, <2>1, <2>2, TurnOfLoop
<1> QED BY <1>1, <1>2, <1>3, <1>4, <1>5 DEF MNext

\* run_monitor of notes/vm.c asks for the programs its part of the input names,
\* piece by piece and in order, and reads nothing behind a quit word: for every
\* size of its line, every input and every program that takes from it.
THEOREM CommandsCorrect == MSpec => []CommandsInOrder
<1>1. IInv /\ HistInv /\ [MNext]_mvars => HistInv'
  BY HistStep
<1>2. HistInv => CommandsInOrder
  BY DEF HistInv, NamesInOrder, CommandsInOrder
<1> QED BY <1>1, <1>2, HistInit, Types, PTL DEF MSpec
=============================================================================
