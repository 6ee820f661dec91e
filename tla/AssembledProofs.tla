-------------------------- MODULE AssembledProofs --------------------------
(***************************************************************************)
(* KeepsItsPlaces, proved for every program that has an orderly            *)
(* certificate, whatever is typed at it, and however often it is started.  *)
(*                                                                         *)
(* Two proofs about components meet here.  That of the assembler says what *)
(* the output is (AssemblerProofs: a source has one translation); that of  *)
(* the machine, where a program writes, stops and reads (VMProofs).  EInv  *)
(* holds the certificate of the translation while the assembler is still   *)
(* at work on it, and the machine to it from the first turn on.            *)
(***************************************************************************)
EXTENDS AssembledPrograms, VMProofs

AP == INSTANCE AssemblerProofs
        WITH line <- asm_line, Outputs <- {Empty}, NoFile <- Empty,
             MaxProgram <- MemSize, MaxLabels <- 256

\* A translation of the program of a day, and the states of its certificate.
Vouches(d, begin, code, states) ==
    /\ begin \in Seq(Nat) /\ code \in Seq(AP!Byte)
    /\ AP!IsTranslation(P!Source(d), begin, code)
    /\ IsPlan(P!PlanOf(d, code)) /\ Certifies(states, P!PlanOf(d, code))
    /\ OrderlyStates(P!PlanOf(d, code), states)

Assembling(d, begin, code) == source = P!Source(d) /\ AP!Inv /\ AP!Like(begin, code)

InPlace(d, code, states) ==
    /\ output = code
    /\ Confined(P!PlanOf(d, code), states, Image(code))
    /\ StoppedInOrder(P!PlanOf(d, code))

Stage(d, begin, code, states) ==
    /\ day = d /\ TypeOK
    /\ mover = "assembler" => Assembling(d, begin, code)
    /\ mover # "assembler" => InPlace(d, code, states)
    /\ mover = "user" => AtRest

EInv ==
    \E d \in Days : \E begin, code, states :
        Vouches(d, begin, code, states) /\ Stage(d, begin, code, states)

\* What is assumed of the programs, and of what is typed.
Certificates ==
    \A d \in Days : \E begin \in Seq(Nat), code \in Seq(AP!Byte) :
        AP!IsTranslation(P!Source(d), begin, code) /\ WellBehaved(P!PlanOf(d, code))
TypesBytes == \A d, s : \A i \in MayType(d, s) : i.bytes \in Seq(Byte)

-----------------------------------------------------------------------------
(* The assembler.                                                          *)

\* Its constants have the values that its proofs assume.
LEMMA AssemblerLimits ==
    /\ MemSize \in Nat /\ 4 <= MemSize /\ MemSize <= 1048576 /\ MemSize % 4 = 0
    /\ 256 \in Nat
    /\ Sources \subseteq Seq(Seq(AP!Lexeme))
    /\ Empty \notin Seq(AP!Byte) /\ {Empty} \subseteq Seq(AP!Byte) \cup {Empty}
    /\ NoExit \notin {0, 1}
<1>1. A!Lexeme = AP!Lexeme
  BY DEF A!Lexeme, AP!Lexeme
<1>2. Byte = AP!Byte
  BY DEF Byte, AP!Byte
<1> QED
  BY <1>1, <1>2, MemSizeAssumption, EmptyAssumption, ExitAssumption, ProgramAssumption

LEMMA SameInit == A!Init <=> AP!Init
BY DEF A!Init, AP!Init, A!None, AP!None

\* The lines are the same to both instances of the assembler.
LEMMA SameLabels ==
    /\ \A l : A!IsLong(l) <=> AP!IsLong(l)
    /\ \A l : A!BadLabel(l) <=> AP!BadLabel(l)
    /\ \A l : A!HasLabel(l) <=> AP!HasLabel(l)
    /\ \A l : A!LabelName(l) = AP!LabelName(l)
    /\ \A l : A!Body(l) = AP!Body(l)
BY DEF A!IsLong, AP!IsLong, A!BadLabel, AP!BadLabel, A!HasLabel, AP!HasLabel,
       A!LabelName, AP!LabelName, A!Body, AP!Body, A!Colons, AP!Colons,
       A!LabelColons, AP!LabelColons

LEMMA SameOperands ==
    /\ \A x : A!IsImm20(x) <=> AP!IsImm20(x)
    /\ \A x : A!Imm20(x) = AP!Imm20(x)
    /\ \A operand, x : A!Fits(operand, x) <=> AP!Fits(operand, x)
BY DEF A!IsImm20, AP!IsImm20, A!Imm20, AP!Imm20, A!Strtoul, AP!Strtoul,
       A!Overflows, AP!Overflows, A!Fits, AP!Fits, A!RegNumber, AP!RegNumber

LEMMA SameStrings ==
    /\ \A b : A!IsString(b) <=> AP!IsString(b)
    /\ \A n : A!SymbolByte(n) = AP!SymbolByte(n)
BY DEF A!IsString, AP!IsString, A!IsSymbol, AP!IsSymbol, A!Escapes, AP!Escapes,
       A!SymbolByte, AP!SymbolByte, A!Escaped, AP!Escaped

LEMMA SameForms ==
    /\ \A b : A!IsInstruction(b) <=> AP!IsInstruction(b)
    /\ \A b : A!IsAlign(b) <=> AP!IsAlign(b)
    /\ \A b : A!WellFormed(b) <=> AP!WellFormed(b)
    /\ \A b : A!References(b) = AP!References(b)
<1>1. A!Format = AP!Format
  BY DEF A!Format, AP!Format
<1>2. \A b : A!Takes(b) = AP!Takes(b)
  BY <1>1 DEF A!Takes, AP!Takes
<1>3. \A b : A!IsInstruction(b) <=> AP!IsInstruction(b)
  BY <1>1, <1>2, SameOperands DEF A!IsInstruction, AP!IsInstruction
<1>4. \A b : A!IsAlign(b) <=> AP!IsAlign(b)
  BY SameOperands DEF A!IsAlign, AP!IsAlign
<1> QED
  BY <1>2, <1>3, <1>4, SameStrings DEF A!WellFormed, AP!WellFormed, A!References, AP!References

LEMMA SameBytes ==
    /\ \A b, a : A!Size(b, a) = AP!Size(b, a)
    /\ \A b, a, at : A!LineBytes(b, a, at) = AP!LineBytes(b, a, at)
<1>1. \A a : A!Padding(a) = AP!Padding(a)
  BY DEF A!Padding, AP!Padding
<1>2. \A b, at : A!Encode(b, at) = AP!Encode(b, at)
  BY DEF A!Encode, AP!Encode, A!Imm20, AP!Imm20, A!Strtoul, AP!Strtoul, A!Takes, AP!Takes,
         A!Format, AP!Format, A!RegNumber, AP!RegNumber, A!RegField, AP!RegField,
         A!ImmField, AP!ImmField, A!TakesImm, AP!TakesImm
<1> QED
  BY <1>1, <1>2, SameStrings, SameForms DEF A!Size, AP!Size, A!LineBytes, AP!LineBytes

LEMMA SameNext == A!Next => [AP!Next]_(AP!vars)
<1>1. A!Names = AP!Names /\ A!Resolved = AP!Resolved /\ A!None = AP!None
  BY DEF A!Names, AP!Names, A!Resolved, AP!Resolved, A!None, AP!None
<1>2. \A l, b : A!Complaint(l, b) = AP!Complaint(l, b)
  <2> TAKE l, b
  <2>1. /\ A!IsLong(l) <=> AP!IsLong(l)
        /\ A!BadLabel(l) <=> AP!BadLabel(l)
        /\ A!HasLabel(l) <=> AP!HasLabel(l)
        /\ A!WellFormed(b) <=> AP!WellFormed(b)
        /\ A!IsInstruction(b) <=> AP!IsInstruction(b)
    BY SameLabels, SameForms
  <2>2. /\ A!LabelName(l) = AP!LabelName(l)
        /\ A!References(b) = AP!References(b)
        /\ A!Size(b, address) = AP!Size(b, address)
    BY SameLabels, SameForms, SameBytes
  <2> QED
    BY <1>1, <2>1, <2>2, ZenonT(60) DEF A!Complaint, AP!Complaint
<1>3. A!AssembleLine => AP!AssembleLine
  BY <1>1, <1>2, SameLabels, SameForms, SameBytes DEF A!AssembleLine, AP!AssembleLine, A!End, AP!End
<1> QED
  BY <1>1, <1>3
     DEF A!Next, AP!Next, A!Proceed, AP!Proceed, A!Open, AP!Open, A!EndPass, AP!EndPass,
         A!OpenOutput, AP!OpenOutput, A!Copy, AP!Copy, A!Close, AP!Close,
         A!ReadFailure, AP!ReadFailure, A!Kill, AP!Kill, A!End, AP!End,
         A!files, AP!files, A!history, AP!history

LEMMA SourceStays == A!Next => source' = source
BY DEF A!Next, A!Proceed, A!Open, A!AssembleLine, A!EndPass, A!OpenOutput, A!Copy, A!Close,
       A!ReadFailure, A!Kill, A!files, A!history

\* The certificate of a source that is being assembled: its output will be code.
LEMMA AssemblerStep ==
    ASSUME NEW d, NEW begin, NEW code, NEW states, Vouches(d, begin, code, states),
           Assembling(d, begin, code), A!Next
    PROVE  Assembling(d, begin, code)'
<1>1. [AP!Next]_(AP!vars) /\ source' = source
  BY SameNext, SourceStays
<1>2. AP!Inv'
  BY <1>1, AP!NextKeepsInv, AssemblerLimits DEF Assembling
<1>3. AP!Like(begin, code)'
  BY <1>1, AP!NextLike, AssemblerLimits DEF Assembling, Vouches
<1> QED
  BY <1>1, <1>2, <1>3 DEF Assembling

LEMMA Assembled ==
    ASSUME NEW d, NEW begin, NEW code, NEW states, Vouches(d, begin, code, states),
           Assembling(d, begin, code), exit = 0
    PROVE  output = code
BY AP!LikeOutput, AssemblerLimits DEF Assembling, Vouches

-----------------------------------------------------------------------------
(* The machine.                                                            *)

\* The plan of a program has its code.
LEMMA PlanFacts ==
    ASSUME NEW d, NEW begin, NEW code, NEW states, Vouches(d, begin, code, states)
    PROVE  /\ P!PlanOf(d, code).code = code /\ code \in Seq(Byte)
           /\ Image(code) \in [Address -> Byte]
           /\ Loaded(P!PlanOf(d, code), Image(code))
           /\ \A a \in P!PlanOf(d, code).zeros : Image(code)[a] = 0
<1>1. P!PlanOf(d, code).code = code
  BY DEF P!PlanOf
<1>2. IsPlan(P!PlanOf(d, code))
  BY DEF Vouches
<1>3. code \in Seq(Byte)
  BY <1>1, <1>2 DEF IsPlan
<1> QED
  BY <1>1, <1>2, <1>3, ImageOfCode

\* Whatever was in memory, a new start brings the program back.
LEMMA LoadStep ==
    ASSUME NEW d, NEW begin, NEW code, NEW states, Vouches(d, begin, code, states),
           TypeOK, output = code, output' = output, Load
    PROVE  TypeOK' /\ InPlace(d, code, states)'
<1>1. mem' = Image(code) /\ pc' = 0 /\ sp' = MemSize /\ running' = TRUE
  BY DEF Load
<1>2. TypeOK'
  <2>1. pc' \in 0..MemSize /\ sp' \in 0..MemSize
    BY <1>1, Sizes
  <2>2. regs' \in [Reg -> Word]
    BY ByteZero, WordOfBytes DEF Load
  <2>3. stdin' \in Seq(Byte) /\ stdout' \in Seq(Byte)
    BY EmptySeq DEF Load
  <2>4. mem' \in [Address -> Byte]
    BY <1>1, PlanFacts
  <2>5. zero' \in BOOLEAN /\ running' \in BOOLEAN /\ line' = line
    BY DEF Load
  <2> QED
    BY <2>1, <2>2, <2>3, <2>4, <2>5 DEF TypeOK
<1>3. Confined(P!PlanOf(d, code), states, Image(code))'
  BY <1>1, PlanFacts, JustStarted DEF Vouches
<1>4. StoppedInOrder(P!PlanOf(d, code))'
  BY <1>1 DEF StoppedInOrder
<1> QED
  BY <1>2, <1>3, <1>4 DEF InPlace

\* A turn keeps the program in place.
LEMMA TurnStep ==
    ASSUME NEW d, NEW begin, NEW code, NEW states, Vouches(d, begin, code, states),
           TypeOK, InPlace(d, code, states), output' = output, Next
    PROVE  TypeOK' /\ InPlace(d, code, states)'
<1> DEFINE plan == P!PlanOf(d, code)
<1>1. /\ IsPlan(plan) /\ Certifies(states, plan) /\ OrderlyStates(plan, states)
      /\ Loaded(plan, Image(code)) /\ Confined(plan, states, Image(code))
  BY PlanFacts DEF Vouches, InPlace
<1> HIDE DEF plan
<1>2. TypeOK'
  BY TypeStep
<1>3. Confined(plan, states, Image(code))'
  BY <1>1, CertificateIsSound
<1>4. StoppedInOrder(plan)'
  BY <1>1, StopsInOrder
<1> QED
  BY <1>2, <1>3, <1>4 DEF InPlace, plan

\* So does the user, who sees what is printed and adds to what is read.
LEMMA UserStep ==
    ASSUME NEW d, NEW code, NEW states, TypeOK, InPlace(d, code, states),
           UNCHANGED <<mem, pc, sp, regs, zero, running, line, output>>,
           stdin' \in Seq(Byte), stdout' \in Seq(Byte)
    PROVE  TypeOK' /\ InPlace(d, code, states)'
<1>1. TypeOK'
  BY DEF TypeOK
<1>2. Confined(P!PlanOf(d, code), states, Image(code))'
  BY DEF InPlace, Confined, Intact, Describes
<1>3. StoppedInOrder(P!PlanOf(d, code))'
  BY DEF InPlace, StoppedInOrder
<1> QED
  BY <1>1, <1>2, <1>3 DEF InPlace

-----------------------------------------------------------------------------
(* EInv.                                                                   *)

LEMMA StageInit ==
    ASSUME Certificates, EInit
    PROVE  EInv
<1>1. PICK d \in Days : day = d /\ source = P!Source(d)
  BY DEF EInit, Programs
<1>2. PICK begin \in Seq(Nat), code \in Seq(AP!Byte) :
         AP!IsTranslation(P!Source(d), begin, code) /\ WellBehaved(P!PlanOf(d, code))
  BY DEF Certificates
<1>3. PICK states : /\ Certifies(states, P!PlanOf(d, code))
                    /\ OrderlyStates(P!PlanOf(d, code), states)
  BY <1>2 DEF WellBehaved, OrderlyStates
<1>4. Vouches(d, begin, code, states)
  BY <1>2, <1>3 DEF Vouches, WellBehaved
<1>5. TypeOK
  <2>1. mem \in [Address -> Byte]
    BY ByteZero DEF EInit
  <2>2. pc \in 0..MemSize /\ sp \in 0..MemSize
    BY Sizes DEF EInit
  <2>3. regs \in [Reg -> Word]
    BY ByteZero, WordOfBytes DEF EInit
  <2>4. stdin \in Seq(Byte) /\ stdout \in Seq(Byte) /\ line \in File
    BY EmptySeq, FilesAssumption DEF EInit
  <2> QED
    BY <2>1, <2>2, <2>3, <2>4 DEF EInit, TypeOK
<1>6. Assembling(d, begin, code)
  <2>1. AP!Init
    BY SameInit DEF EInit
  <2>2. AP!Inv
    BY <2>1, AP!InitInv, AssemblerLimits
  <2>3. AP!Like(begin, code)
    BY <1>1, <1>2, <2>1, AP!InitLike, AssemblerLimits
  <2> QED
    BY <1>1, <2>2, <2>3 DEF Assembling
<1>7. mover = "assembler"
  BY DEF EInit
<1>8. Stage(d, begin, code, states)
  BY <1>1, <1>5, <1>6, <1>7 DEF Stage
<1> QED
  BY <1>4, <1>8 DEF EInv

LEMMA StageStep ==
    ASSUME TypesBytes, NEW d, NEW begin, NEW code, NEW states, Vouches(d, begin, code, states),
           Stage(d, begin, code, states), [ENext]_evars
    PROVE  Stage(d, begin, code, states)'
<1>1. TypeOK /\ day = d
  BY DEF Stage
<1>2. CASE Assemble
  <2>1. mover = "assembler" /\ mover' = "assembler" /\ A!Next /\ UNCHANGED vars /\ day' = d
    BY <1>1, <1>2 DEF Assemble
  <2>2. Assembling(d, begin, code)'
    BY <2>1, AssemblerStep DEF Stage
  <2> QED
    BY <1>1, <2>1, <2>2, TypeStutter DEF Stage
<1>3. CASE Boot
  <2>1. /\ mover = "assembler" /\ exit = 0 /\ Load /\ output' = output
        /\ mover' = "machine" /\ day' = d
    BY <1>1, <1>3 DEF Boot, Load
  <2>2. output = code
    BY <2>1, Assembled DEF Stage
  <2> QED
    BY <1>1, <2>1, <2>2, LoadStep DEF Stage
<1>4. CASE Turn
  <2>1. mover = "machine" /\ mover' = "machine" /\ output' = output /\ day' = d /\ Next
    BY <1>1, <1>4 DEF Turn, assembler, files, Next
  <2> QED
    BY <1>1, <2>1, TurnStep DEF Stage
<1>5. CASE Look
  <2>1. /\ mover = "machine" /\ mover' = "user" /\ AtRest /\ day' = d
        /\ UNCHANGED <<mem, pc, sp, regs, zero, running, stdin, line, output, closed>>
        /\ stdout' \in {<<>>, stdout}
    BY <1>1, <1>5 DEF Look, assembler, files
  <2>2. stdin' \in Seq(Byte) /\ stdout' \in Seq(Byte)
    BY <1>1, <2>1, EmptySeq DEF TypeOK
  <2>3. TypeOK' /\ InPlace(d, code, states)'
    BY <1>1, <2>1, <2>2, UserStep DEF Stage
  <2>4. AtRest'
    BY <2>1 DEF AtRest, Waiting, CanFetch
  <2> QED
    BY <2>1, <2>3, <2>4 DEF Stage
<1>6. CASE Type
  <2>1. /\ mover = "user" /\ mover' = "machine" /\ day' = d
        /\ UNCHANGED <<mem, pc, sp, regs, zero, running, stdout, line, output>>
    BY <1>1, <1>6 DEF Type, assembler, files
  <2>2. PICK i \in MayType(day, script) :
           stdin' = IF i.kind = "line" THEN Append(i.bytes, LF) ELSE i.bytes
    BY <1>6 DEF Type
  <2>3. i.bytes \in Seq(Byte)
    BY DEF TypesBytes
  <2>4. LF \in Byte
    BY ByteBounds, SMT DEF LF
  <2>5. stdin' \in Seq(Byte) /\ stdout' \in Seq(Byte)
    BY <1>1, <2>1, <2>2, <2>3, <2>4, AppendProperties DEF TypeOK
  <2> QED
    BY <1>1, <2>1, <2>5, UserStep DEF Stage
<1>7. CASE Again
  <2>1. mover = "user" /\ mover' = "machine" /\ Load /\ output' = output /\ day' = d
    BY <1>1, <1>7 DEF Again, Load, assembler, files
  <2>2. output = code
    BY <2>1 DEF Stage, InPlace
  <2> QED
    BY <1>1, <2>1, <2>2, LoadStep DEF Stage
<1>8. CASE UNCHANGED evars
  <2>1. UNCHANGED vars /\ UNCHANGED assembler /\ UNCHANGED <<day, mover, closed>>
    BY <1>8 DEF evars
  <2>2. TypeOK'
    BY <1>1, <2>1, TypeStutter
  <2>3. CASE mover = "assembler"
    <3>1. UNCHANGED AP!vars /\ source' = source
      BY <2>1 DEF AP!vars, AP!files, AP!history, assembler, files
    <3>2. Assembling(d, begin, code)'
      BY <2>3, <3>1, AP!NextKeepsInv, AP!NextLike, AssemblerLimits DEF Stage, Assembling, Vouches
    <3> QED
      BY <1>1, <2>1, <2>2, <2>3, <3>2 DEF Stage
  <2>4. CASE mover # "assembler"
    <3>1. InPlace(d, code, states)'
      BY <2>1, <2>4 DEF Stage, InPlace, Confined, Intact, Describes, StoppedInOrder,
                        vars, assembler, files
    <3>2. AtRest' <=> AtRest
      BY <2>1 DEF AtRest, Waiting, CanFetch, vars
    <3> QED
      BY <1>1, <2>1, <2>2, <2>4, <3>1, <3>2 DEF Stage
  <2> QED
    BY <2>3, <2>4
<1> QED
  BY <1>2, <1>3, <1>4, <1>5, <1>6, <1>7, <1>8 DEF ENext

LEMMA InPlaceKept == EInv => KeepsItsPlaces
<1> SUFFICES ASSUME EInv, mover = "user"
             PROVE  /\ sp = IF Halted \/ day \notin ReadingDays THEN MemSize ELSE MemSize - 4
                    /\ \A a \in Address \ (P!WritesOf(day) \cup Frame) : mem[a] = Image(output)[a]
  BY DEF KeepsItsPlaces
<1>1. PICK d \in Days : \E begin, code, states :
         Vouches(d, begin, code, states) /\ Stage(d, begin, code, states)
  BY DEF EInv
<1>2. PICK begin, code, states : Vouches(d, begin, code, states) /\ Stage(d, begin, code, states)
  BY <1>1
<1> DEFINE plan == P!PlanOf(d, code)
<1>3. /\ IsPlan(plan) /\ Certifies(states, plan) /\ OrderlyStates(plan, states)
      /\ Loaded(plan, Image(code)) /\ Confined(plan, states, Image(code))
      /\ StoppedInOrder(plan) /\ TypeOK /\ AtRest /\ day = d /\ output = code
  BY <1>2, PlanFacts DEF Vouches, Stage, InPlace
<1>4. plan.writes = P!WritesOf(d) /\ plan.reads = (P!Calls(P!Source(d)) # {})
  BY DEF P!PlanOf
<1> HIDE DEF plan
<1>5. \A a \in Address \ (P!WritesOf(day) \cup Frame) : mem[a] = Image(output)[a]
  BY <1>3, <1>4 DEF Confined, Intact
<1>6. ReadingFrom(plan) = IF day \notin ReadingDays THEN MemSize ELSE MemSize - 4
  BY <1>1, <1>3, <1>4 DEF ReadingFrom, ReadingDays, LastWord
<1>7. CASE running
  <2>1. sp = ReadingFrom(plan)
    BY <1>3, <1>7, WaitsInOrder DEF AtRest, Waiting
  <2> QED
    BY <1>5, <1>6, <1>7, <2>1 DEF Halted
<1>8. CASE ~running
  BY <1>3, <1>5, <1>6, <1>8 DEF StoppedInOrder, Halted
<1> QED
  BY <1>7, <1>8, <1>3 DEF TypeOK

\* From the source to the terminal: a program whose translation has an orderly
\* certificate is, whenever the user may look, as it was assembled but for its
\* buffers, and has nothing on the stack but the frame of READ_LINE.
THEOREM PlacesKept ==
    ASSUME Certificates, TypesBytes
    PROVE  ESpec => []KeepsItsPlaces
<1>1. EInit => EInv
  BY StageInit
<1>2. EInv /\ [ENext]_evars => EInv'
  BY StageStep DEF EInv
<1> QED
  BY <1>1, <1>2, InPlaceKept, PTL DEF ESpec
=============================================================================
