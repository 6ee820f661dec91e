-------------------------- MODULE AssemblerProofs --------------------------
(***************************************************************************)
(* One line of a source, for every line: the type and the number of its    *)
(* bytes, and that the machine takes an instruction apart into the         *)
(* operands it was made of.                                                *)
(*                                                                         *)
(* Then the assembler, for every source, every size of the program and of  *)
(* the label table: the types, LabelsKeepTheirPlace, FirstPassFindsAll,    *)
(* RefusedKeepsOutput, OutputIsTranslation and VMUnderstands.              *)
(*                                                                         *)
(* None of them is inductive: they say nothing of what the first pass has  *)
(* made of the lines it has seen.  Inv does: each of them was right where  *)
(* it stands (SeenOK), starts adds up their sizes (StartsOK), the table    *)
(* holds their labels, each once, at the line that defines it (TableOK),   *)
(* and in the second pass the bytes staged are those of the lines before   *)
(* (StagedOK).                                                             *)
(***************************************************************************)
EXTENDS Assembler, TLAPS, SequenceTheorems

Line == Seq(Lexeme)

\* A literal range is unrolled by the provers; they are given bounds instead.
LEMMA ByteBounds == \A b : b \in Byte <=> b \in Int /\ 0 <= b /\ b <= 255
BY SMT DEF Byte

\* A remainder is a byte.
LEMMA LowByte ==
    ASSUME NEW s \in Int
    PROVE  s % 256 \in Byte
BY ByteBounds, SMT

-----------------------------------------------------------------------------
(* Lexemes and operands.                                                   *)

LEMMA NameLexeme ==
    ASSUME NEW x \in Lexeme, x.kind \in {"name", "mem", "directive"}
    PROVE  x.text \in Texts
BY SMT DEF Lexeme

LEMMA StringLexeme ==
    ASSUME NEW x \in Lexeme, x.kind = "string"
    PROVE  x.symbols \in Seq(Nat)
BY SMT DEF Lexeme

\* The registers are numbers from 0 to 7.
LEMMA RegNumbers == \A t \in DOMAIN RegNumber : RegNumber[t] \in Int /\ 0 <= RegNumber[t] /\ RegNumber[t] <= 7
BY SMT DEF RegNumber

LEMMA Imm20Type ==
    ASSUME NEW x \in Lexeme, IsImm20(x)
    PROVE  Imm20(x) \in Int /\ 0 <= Imm20(x) /\ Imm20(x) <= 1048575
<1>1. x \in [kind : {"number"}, neg : BOOLEAN, wraps : {0, 1}, offset : Int]
  BY SMT DEF IsImm20, Lexeme
<1>2. Strtoul(x)[2] \in Int
  BY <1>1, SMT DEF Strtoul
<1> QED BY <1>2, SMT DEF IsImm20, Imm20

\* A label has a name and a colon, and its line goes on behind them.
LEMMA LabelShape ==
    ASSUME NEW l \in Line, HasLabel(l)
    PROVE  LabelName(l) \in Texts
<1>1. PICK c \in LabelColons(l) : TRUE
  BY DEF HasLabel
<1>2. c = 2 /\ l[1].kind = "name" /\ c \in DOMAIN l
  BY <1>1 DEF HasLabel, BadLabel, LabelColons, Colons
<1>3. 1 \in 1..Len(l)
  BY <1>2, LenProperties, SMT DEF Line
<1>4. l[1] \in Lexeme
  BY <1>3, ElementOfSeq DEF Line
<1> QED BY <1>2, <1>4, NameLexeme DEF LabelName

LEMMA BodyType ==
    ASSUME NEW l \in Line
    PROVE  Body(l) \in Line
<1>1. CASE HasLabel(l)
  <2>1. Len(l) \in Int /\ \A i \in 3..Len(l) : l[i] \in Lexeme
    <3>1. Len(l) \in Nat
      BY LenProperties DEF Line
    <3>2. \A i \in 3..Len(l) : i \in 1..Len(l)
      BY <3>1, SMT
    <3> QED BY <3>1, <3>2, ElementOfSeq, SMT DEF Line
  <2>2. SubSeq(l, 3, Len(l)) \in Seq(Lexeme)
    BY <2>1, SubSeqProperties, SMT
  <2> QED BY <1>1, <2>2 DEF Body, Line
<1>2. CASE ~HasLabel(l)
  BY <1>2 DEF Body
<1> QED BY <1>1, <1>2

-----------------------------------------------------------------------------
(* Formats.                                                                *)

Mnemonics == {"HALT", "RET", "SYSCALL", "MOVI", "INC", "LDB", "STB", "CMP", "JUMP", "CALLI",
              "JZ", "JNZ"}

LEMMA Formats ==
    /\ DOMAIN Format = Mnemonics
    /\ Format["HALT"]    = [op |-> 1,   takes |-> <<>>]
    /\ Format["RET"]     = [op |-> 2,   takes |-> <<>>]
    /\ Format["SYSCALL"] = [op |-> 96,  takes |-> <<"imm">>]
    /\ Format["MOVI"]    = [op |-> 64,  takes |-> <<"reg", "target">>]
    /\ Format["INC"]     = [op |-> 32,  takes |-> <<"reg">>]
    /\ Format["LDB"]     = [op |-> 48,  takes |-> <<"reg", "mem">>]
    /\ Format["STB"]     = [op |-> 49,  takes |-> <<"mem", "reg">>]
    /\ Format["CMP"]     = [op |-> 36,  takes |-> <<"reg", "reg">>]
    /\ Format["JUMP"]    = [op |-> 104, takes |-> <<"target">>]
    /\ Format["CALLI"]   = [op |-> 105, takes |-> <<"target">>]
    /\ Format["JZ"]      = [op |-> 106, takes |-> <<"target">>]
    /\ Format["JNZ"]     = [op |-> 107, takes |-> <<"target">>]
BY SMT DEF Format, Mnemonics

\* Every format takes one of these lists of operands.
Lists == {<<>>, <<"imm">>, <<"target">>, <<"reg">>, <<"reg", "target">>, <<"reg", "mem">>,
          <<"mem", "reg">>, <<"reg", "reg">>}

LEMMA FormatType ==
    ASSUME NEW t \in DOMAIN Format
    PROVE  /\ Format[t].takes \in Lists
           /\ Format[t].op \in Int /\ 0 <= Format[t].op /\ Format[t].op <= 255
<1>1. t \in Mnemonics
  BY Formats
<1> QED BY <1>1, Formats, SMT DEF Mnemonics, Lists

LEMMA ListType ==
    ASSUME NEW s \in Lists
    PROVE  /\ Len(s) \in 0..2
           /\ s # <<>> /\ s[Len(s)] \in {"imm", "target"} =>
                  Len(s) < 2 \/ s[2] \notin {"reg", "mem"}
BY SMT DEF Lists

\* The operands of an instruction, and which of them are registers.
LEMMA Operands ==
    ASSUME NEW b \in Line, IsInstruction(b)
    PROVE  /\ Takes(b) \in Lists
           /\ Len(Takes(b)) \in 0..2 /\ Len(b) = Len(Takes(b)) + 1
           /\ \A k \in 1..Len(Takes(b)) : b[k + 1] \in Lexeme /\ Fits(Takes(b)[k], b[k + 1])
<1>1. b[1].text \in DOMAIN Format /\ Len(b) = Len(Takes(b)) + 1
      /\ \A k \in 1..Len(Takes(b)) : Fits(Takes(b)[k], b[k + 1])
  BY DEF IsInstruction
<1>2. Takes(b) \in Lists
  BY <1>1, FormatType DEF Takes
<1>3. Len(Takes(b)) \in 0..2
  BY <1>2, ListType
<1>4. \A k \in 1..Len(Takes(b)) : k + 1 \in 1..Len(b)
  BY <1>1, <1>3, SMT
<1>5. \A k \in 1..Len(Takes(b)) : b[k + 1] \in Lexeme
  BY <1>4, ElementOfSeq DEF Line
<1> QED BY <1>1, <1>2, <1>3, <1>5

LEMMA RegFieldType ==
    ASSUME NEW b \in Line, IsInstruction(b), NEW k \in 1..2
    PROVE  RegField(b, k) \in Int /\ 0 <= RegField(b, k) /\ RegField(b, k) <= 7
<1>1. CASE k <= Len(Takes(b)) /\ Takes(b)[k] \in {"reg", "mem"}
  <2>1. k \in 1..Len(Takes(b))
    BY <1>1, Operands, SMT
  <2>2. Fits(Takes(b)[k], b[k + 1])
    BY <2>1, Operands
  <2>3. b[k + 1].text \in DOMAIN RegNumber
    BY <1>1, <2>2 DEF Fits
  <2> QED BY <1>1, <2>3, RegNumbers, SMT DEF RegField
<1>2. CASE ~(k <= Len(Takes(b)) /\ Takes(b)[k] \in {"reg", "mem"})
  BY <1>2, SMT DEF RegField
<1> QED BY <1>1, <1>2

\* An immediate shares its byte with the first register, never with a second.
LEMMA OneField ==
    ASSUME NEW b \in Line, IsInstruction(b), TakesImm(b)
    PROVE  RegField(b, 2) = 0
<1>1. Len(Takes(b)) < 2 \/ Takes(b)[2] \notin {"reg", "mem"}
  BY Operands, ListType DEF TakesImm
<1> QED BY <1>1, Operands, SMT DEF RegField

\* at gives every label that an instruction refers to an address of 20 bits.
Addresses(b, at) ==
    \A n \in References(b) : at[n] \in Int /\ 0 <= at[n] /\ at[n] <= 1048575

LEMMA ImmFieldType ==
    ASSUME NEW b \in Line, IsInstruction(b), NEW at, Addresses(b, at)
    PROVE  ImmField(b, at) \in Int /\ 0 <= ImmField(b, at) /\ ImmField(b, at) <= 1048575
<1>1. CASE ~TakesImm(b)
  BY <1>1, SMT DEF ImmField
<1>2. CASE TakesImm(b)
  <2> DEFINE k == Len(Takes(b))
             x == b[Len(b)]
  <2>1. k \in 1..Len(Takes(b)) /\ k + 1 = Len(b)
    <3>1. Len(Takes(b)) \in 0..2 /\ Takes(b) # <<>>
      BY <1>2, Operands DEF TakesImm
    <3>2. Len(Takes(b)) # 0
      BY <1>2, Operands, SMT DEF TakesImm, Lists
    <3> QED BY <3>1, <3>2, Operands, SMT
  <2>2. x \in Lexeme /\ Fits(Takes(b)[k], x) /\ Takes(b)[k] \in {"imm", "target"}
    BY <1>2, <2>1, Operands DEF TakesImm
  <2>3. CASE x.kind = "name"
    <3>1. Takes(b)[k] = "target"
      BY <2>2, <2>3 DEF Fits, IsImm20
    <3>2. x.text \in References(b)
      BY <2>1, <2>3, <3>1 DEF References
    <3> QED BY <1>2, <2>3, <3>2 DEF ImmField, Addresses
  <2>4. CASE x.kind # "name"
    <3>1. IsImm20(x)
      BY <2>2, <2>4 DEF Fits
    <3> QED BY <1>2, <2>2, <2>4, <3>1, Imm20Type DEF ImmField
  <2> QED BY <2>3, <2>4
<1> QED BY <1>1, <1>2

-----------------------------------------------------------------------------
(* Bytes.                                                                  *)

LEMMA EncodeType ==
    ASSUME NEW b \in Line, IsInstruction(b), NEW at, Addresses(b, at)
    PROVE  Encode(b, at) \in Seq(Byte) /\ Len(Encode(b, at)) = 4
<1> DEFINE imm == ImmField(b, at)
           op == Format[b[1].text].op
           r1 == RegField(b, 1)
           r2 == RegField(b, 2)
<1>1. imm \in Int /\ 0 <= imm /\ imm <= 1048575
  BY ImmFieldType
<1>2. op \in Int /\ 0 <= op /\ op <= 255
  BY FormatType DEF IsInstruction
<1>3. r1 \in Int /\ 0 <= r1 /\ r1 <= 7 /\ r2 \in Int /\ 0 <= r2 /\ r2 <= 7
  BY RegFieldType, SMT
<1>4. Encode(b, at) = <<op, r1 * 16 + r2 + (imm \div 65536), (imm \div 256) % 256, imm % 256>>
  BY DEF Encode
<1> HIDE DEF imm, op, r1, r2
<1>5. imm \div 65536 \in Int /\ 0 <= imm \div 65536 /\ imm \div 65536 <= 15
  BY <1>1, SMT
<1>6. op \in Byte /\ r1 * 16 + r2 + (imm \div 65536) \in Byte
  BY <1>2, <1>3, <1>5, ByteBounds, SMT
<1>7. imm \div 256 \in Int
  BY <1>1, SMT
<1>8. (imm \div 256) % 256 \in Byte /\ imm % 256 \in Byte
  BY <1>1, <1>7, LowByte
<1> QED BY <1>4, <1>6, <1>8, SMT

LEMMA PaddingType ==
    ASSUME NEW a \in Nat
    PROVE  Padding(a) \in Nat /\ Padding(a) <= 3 /\ (a + Padding(a)) % 4 = 0
BY SMT DEF Padding

LEMMA SymbolByteType ==
    ASSUME NEW n \in Nat, IsSymbol(n)
    PROVE  SymbolByte(n) \in Byte
<1>1. CASE n \in (32..126) \ {34, 92}
  BY <1>1, ByteBounds, SMT DEF SymbolByte
<1>2. CASE n - 256 \in Escapes
  BY <1>2, ByteBounds, SMT DEF SymbolByte, Escapes, Escaped
<1> QED BY <1>1, <1>2 DEF IsSymbol

\* Every line that is accepted has as many bytes as the first pass counts.
THEOREM LineBytesType ==
    ASSUME NEW b \in Line, WellFormed(b), NEW a \in Nat, NEW at, Addresses(b, at)
    PROVE  /\ LineBytes(b, a, at) \in Seq(Byte)
           /\ Size(b, a) \in Nat
           /\ Len(LineBytes(b, a, at)) = Size(b, a)
<1>1. CASE IsAlign(b)
  <2>1. Padding(a) \in Nat
    BY PaddingType
  <2>2. LineBytes(b, a, at) = [i \in 1..Padding(a) |-> 0] /\ Size(b, a) = Padding(a)
    BY <1>1 DEF LineBytes, Size
  <2>3. 0 \in Byte
    BY ByteBounds, SMT
  <2>4. [i \in 1..Padding(a) |-> 0] \in [1..Padding(a) -> Byte]
    BY <2>3
  <2>5. [i \in 1..Padding(a) |-> 0] \in Seq(Byte)
    BY <2>1, <2>4, SeqDef
  <2> QED BY <2>1, <2>2, <2>5, LenProperties
<1>2. CASE ~IsAlign(b) /\ IsString(b)
  <2> DEFINE t == b[2].symbols
             u == [i \in DOMAIN t |-> SymbolByte(t[i])]
  <2>1. t \in Seq(Nat)
    <3>1. 2 \in 1..Len(b) /\ b[2].kind = "string"
      BY <1>2, SMT DEF IsString
    <3>2. b[2] \in Lexeme
      BY <3>1, ElementOfSeq DEF Line
    <3> QED BY <3>1, <3>2, StringLexeme
  <2>2. Len(t) \in Nat /\ DOMAIN t = 1..Len(t) /\ \A i \in DOMAIN t : t[i] \in Nat
    BY <2>1, LenProperties
  <2>3. \A i \in DOMAIN t : SymbolByte(t[i]) \in Byte
    BY <1>2, <2>2, SymbolByteType DEF IsString
  <2>4. u \in [1..Len(t) -> Byte]
    BY <2>2, <2>3
  <2>5. u \in Seq(Byte)
    BY <2>2, <2>4, SeqDef
  <2>6. Len(u) = Len(t)
    BY <2>2, <2>4, <2>5, LenProperties
  <2>7. LineBytes(b, a, at) = Append(u, 0) /\ Size(b, a) = Len(t) + 1
    BY <1>2 DEF LineBytes, Size
  <2>8. 0 \in Byte
    BY ByteBounds, SMT
  <2> HIDE DEF u, t
  <2> QED BY <2>2, <2>5, <2>6, <2>7, <2>8, AppendProperties, SMT
<1>3. CASE ~IsAlign(b) /\ ~IsString(b) /\ IsInstruction(b)
  <2>1. LineBytes(b, a, at) = Encode(b, at) /\ Size(b, a) = 4
    BY <1>3 DEF LineBytes, Size
  <2> QED BY <1>3, <2>1, EncodeType
<1>4. CASE ~IsAlign(b) /\ ~IsString(b) /\ ~IsInstruction(b)
  <2>1. LineBytes(b, a, at) = <<>> /\ Size(b, a) = 0
    BY <1>4 DEF LineBytes, Size
  <2> QED BY <2>1, EmptySeq
<1> QED BY <1>1, <1>2, <1>3, <1>4

-----------------------------------------------------------------------------
(* What decode() of the machine makes of an instruction.                   *)

\* The operation the machine finds in the first byte is one it knows.
LEMMA OpsKnown ==
    ASSUME NEW t \in DOMAIN Format
    PROVE  LET op == Format[t].op
           IN  <<op \div 16, op % 16>> \in Known
                 \/ (t = "HALT" /\ op = 1) \/ (t = "RET" /\ op = 2)
<1>1. t \in Mnemonics
  BY Formats
<1> QED BY <1>1, Formats, SMT DEF Mnemonics, Known

\* The machine of notes/vm.c takes the word of an instruction apart into the
\* operation, the registers and the immediate that tools/small-asm.c put in.
THEOREM DecodeOfEncode ==
    ASSUME NEW b \in Line, IsInstruction(b), NEW at, Addresses(b, at)
    PROVE  LET i == Decode(Encode(b, at))
           IN  /\ i.type * 16 + i.op = Format[b[1].text].op
               /\ <<i.type, i.op>> \in Known \/ i.raw \in {<<1, 0, 0, 0>>, <<2, 0, 0, 0>>}
               /\ i.rd = RegField(b, 1)
               /\ IF TakesImm(b) THEN i.imm = ImmField(b, at)
                                 ELSE i.rs = RegField(b, 2)
<1> DEFINE imm == ImmField(b, at)
           op == Format[b[1].text].op
           r1 == RegField(b, 1)
           r2 == RegField(b, 2)
           w == Encode(b, at)
           x == r1 * 16 + r2 + (imm \div 65536)
<1>1. imm \in Int /\ 0 <= imm /\ imm <= 1048575
  BY ImmFieldType
<1>2. op \in Int /\ 0 <= op /\ op <= 255
  BY FormatType DEF IsInstruction
<1>3. r1 \in Int /\ 0 <= r1 /\ r1 <= 7 /\ r2 \in Int /\ 0 <= r2 /\ r2 <= 7
  BY RegFieldType, SMT
<1>4. w = <<op, x, (imm \div 256) % 256, imm % 256>>
  BY DEF Encode
<1>5. TakesImm(b) => r2 = 0
  BY OneField
<1>6. ~TakesImm(b) => imm = 0
  BY DEF ImmField
<1>7. LET i == Decode(w)
      IN  /\ i.type = op \div 16 /\ i.op = op % 16 /\ i.raw = w
          /\ i.rd = x \div 16 /\ i.rs = x % 16
          /\ i.imm = (x % 16) * 65536 + ((imm \div 256) % 256) * 256 + (imm % 256)
  BY <1>4, SMT DEF Decode
<1>8. x = r1 * 16 + r2 + (imm \div 65536)
  OBVIOUS
<1>9. <<op \div 16, op % 16>> \in Known \/ w \in {<<1, 0, 0, 0>>, <<2, 0, 0, 0>>}
  <2>1. CASE b[1].text \in {"HALT", "RET"}
    <3>1. op \in {1, 2} /\ Takes(b) = <<>>
      BY <2>1, Formats, SMT DEF Takes
    <3>2. r1 = 0 /\ r2 = 0 /\ imm = 0
      BY <3>1, SMT DEF RegField, ImmField, TakesImm
    <3> HIDE DEF r1, r2, imm, op, w
    <3> QED BY <1>4, <1>8, <3>1, <3>2, SMT
  <2>2. CASE b[1].text \notin {"HALT", "RET"}
    BY <2>2, OpsKnown DEF IsInstruction
  <2> QED BY <2>1, <2>2
<1> HIDE DEF imm, op, r1, r2, w, x
<1>10. x \in Int /\ (op \div 16) * 16 + (op % 16) = op
  BY <1>1, <1>2, <1>3, <1>8, SMT
<1>11. CASE TakesImm(b)
  <2>1. x \div 16 = r1 /\ x % 16 = imm \div 65536
    BY <1>1, <1>3, <1>5, <1>8, <1>11, SMT
  <2>2. (imm \div 65536) * 65536 + ((imm \div 256) % 256) * 256 + (imm % 256) = imm
    BY <1>1, SMT
  <2> QED BY <1>7, <1>9, <1>10, <1>11, <2>1, <2>2 DEF imm, op, r1, r2, w
<1>12. CASE ~TakesImm(b)
  <2>1. imm \div 65536 = 0
    BY <1>6, <1>12, SMT
  <2>2. x = r1 * 16 + r2
    BY <1>3, <1>8, <2>1, SMT
  <2>3. x \div 16 = r1 /\ x % 16 = r2
    BY <1>3, <2>2, SMT
  <2> QED BY <1>7, <1>9, <1>10, <1>12, <2>3 DEF imm, op, r1, r2, w
<1> QED BY <1>11, <1>12

-----------------------------------------------------------------------------
(* The assembler over the lines of a source.                               *)

\* The lines the first pass has accepted.
Seen == IF current_pass = 1 THEN 1..(line - 1) ELSE 1..Len(source)

Right(l, a) ==
    /\ ~IsLong(l) /\ ~BadLabel(l)
    /\ HasLabel(l) => a < MaxProgram
    /\ WellFormed(Body(l))
    /\ IsInstruction(Body(l)) => a % 4 = 0
    /\ a + Size(Body(l), a) <= MaxProgram

SeenOK == \A j \in Seen : Right(source[j], starts[j])

StartsOK ==
    /\ Len(starts) = IF current_pass = 1 THEN line ELSE Len(source) + 1
    /\ starts[1] = 0
    /\ \A j \in Seen : starts[j + 1] = starts[j] + Size(Body(source[j]), starts[j])
    /\ \A i, j \in 1..Len(starts) : i <= j => starts[i] <= starts[j]
    /\ address = starts[line]

EntryOK(k) == \E j \in Seen : Defines(source[j], labels[k].name) /\ labels[k].address = starts[j]

TableOK ==
    /\ \A k \in 1..Len(labels) : EntryOK(k)
    /\ \A j \in Seen : HasLabel(source[j]) =>
          \E k \in 1..Len(labels) : labels[k].name = LabelName(source[j])
    /\ \A i, k \in 1..Len(labels) : labels[i].name = labels[k].name => i = k
    /\ \A i, j \in Seen :
          HasLabel(source[i]) /\ Defines(source[j], LabelName(source[i])) => i = j

\* The second pass has found the labels of line j and put its bytes where they
\* belong.
Emitted(j) ==
    /\ References(Body(source[j])) \subseteq Names
    /\ SubSeq(staged, starts[j] + 1, starts[j + 1]) = LineBytes(Body(source[j]), starts[j], Placed)

StagedOK == current_pass = 2 => \A j \in 1..(line - 1) : Emitted(j)

PhaseOK ==
    /\ phase # "done" => exit = NoExit /\ diagnostic = None
    /\ phase \in {"stage", "copy"} \/ exit = 0 => current_pass = 2 /\ line = Len(source) + 1
    /\ phase \in {"open", "lines", "stage"} \/ diagnostic # None => output = old
    /\ exit = 0 => output = staged
    /\ phase = "open" => current_pass = 1 /\ line = 1

Inv == TypeOK /\ SeenOK /\ StartsOK /\ TableOK /\ StagedOK /\ PhaseOK

-----------------------------------------------------------------------------
(* Parts of a concatenation.                                               *)

LEMMA PartOfFirst ==
    ASSUME NEW S, NEW s \in Seq(S), NEW t \in Seq(S),
           NEW m \in Nat \ {0}, NEW n \in Nat, n <= Len(s)
    PROVE  SubSeq(s \o t, m, n) = SubSeq(s, m, n)
<1>1. Len(s) \in Nat /\ Len(t) \in Nat
  BY LenProperties
<1>2. s \o t \in Seq(S) /\ Len(s \o t) = Len(s) + Len(t)
      /\ \A i \in 1..(Len(s) + Len(t)) : (s \o t)[i] = IF i <= Len(s) THEN s[i] ELSE t[i - Len(s)]
  BY ConcatProperties
<1>3. \A i \in m..n : i \in 1..Len(s) /\ i \in 1..(Len(s) + Len(t)) /\ i <= Len(s)
  BY <1>1, SMT
<1>4. \A i \in m..n : (s \o t)[i] = s[i] /\ s[i] \in S
  BY <1>2, <1>3, ElementOfSeq
<1> HIDE <1>2
<1> DEFINE u == s \o t
<1>5. \A i \in m..n : u[i] = s[i] /\ u[i] \in S /\ s[i] \in S
  BY <1>4
<1> HIDE DEF u
<1>6. /\ SubSeq(u, m, n) \in Seq(S) /\ SubSeq(s, m, n) \in Seq(S)
      /\ Len(SubSeq(u, m, n)) = (IF m <= n THEN n - m + 1 ELSE 0)
      /\ Len(SubSeq(s, m, n)) = (IF m <= n THEN n - m + 1 ELSE 0)
      /\ \A i \in 1..(n - m + 1) : SubSeq(u, m, n)[i] = u[m + i - 1]
      /\ \A i \in 1..(n - m + 1) : SubSeq(s, m, n)[i] = s[m + i - 1]
  BY <1>5, SubSeqProperties, SMT
<1>7. \A i \in 1..Len(SubSeq(u, m, n)) : i \in 1..(n - m + 1) /\ m + i - 1 \in m..n
  BY <1>6, SMT
<1>8. \A i \in 1..Len(SubSeq(u, m, n)) : SubSeq(u, m, n)[i] = SubSeq(s, m, n)[i]
  BY <1>5, <1>6, <1>7
<1>9. SubSeq(u, m, n) = SubSeq(s, m, n)
  BY <1>6, <1>8, SeqEqual
<1> QED BY <1>9 DEF u

LEMMA PartIsSecond ==
    ASSUME NEW S, NEW s \in Seq(S), NEW t \in Seq(S)
    PROVE  SubSeq(s \o t, Len(s) + 1, Len(s) + Len(t)) = t
<1> DEFINE u == s \o t
           m == Len(s) + 1
           n == Len(s) + Len(t)
<1>1. Len(s) \in Nat /\ Len(t) \in Nat
  BY LenProperties
<1>2. \A i \in 1..(Len(s) + Len(t)) : u[i] = IF i <= Len(s) THEN s[i] ELSE t[i - Len(s)]
  BY ConcatProperties
<1>3. m \in Int /\ n \in Int /\ n - m + 1 = Len(t) /\ (m <= n <=> Len(t) # 0)
  BY <1>1, SMT
<1>4. \A i \in m..n : i \in 1..(Len(s) + Len(t)) /\ ~(i <= Len(s)) /\ i - Len(s) \in 1..Len(t)
  BY <1>1, SMT
<1>5. \A i \in m..n : u[i] = t[i - Len(s)]
  BY <1>2, <1>4
<1>6. \A i \in m..n : u[i] \in S
  BY <1>4, <1>5, ElementOfSeq
<1>7. \A i \in 1..Len(t) : m + i - 1 \in m..n /\ (m + i - 1) - Len(s) = i
  BY <1>1, SMT
<1> HIDE DEF u, m, n
<1>8. /\ SubSeq(u, m, n) \in Seq(S)
      /\ Len(SubSeq(u, m, n)) = (IF m <= n THEN n - m + 1 ELSE 0)
      /\ \A i \in 1..(n - m + 1) : SubSeq(u, m, n)[i] = u[m + i - 1]
  BY <1>3, <1>6, SubSeqProperties
<1>9. Len(SubSeq(u, m, n)) = Len(t)
  BY <1>1, <1>3, <1>8, SMT
<1>10. \A i \in 1..Len(SubSeq(u, m, n)) : SubSeq(u, m, n)[i] = t[i]
  BY <1>3, <1>5, <1>7, <1>8, <1>9
<1>11. SubSeq(u, m, n) = t
  BY <1>8, <1>9, <1>10, SeqEqual
<1> QED BY <1>11 DEF u, m, n

-----------------------------------------------------------------------------
(* What the type invariant says of the parts.                              *)

LEMMA Limits ==
    /\ MaxProgram \in Int /\ 4 <= MaxProgram /\ MaxProgram <= 1048576
    /\ MaxLabels \in Nat /\ NoExit # 0 /\ NoExit # 1
BY MaxProgramAssumption, MaxLabelsAssumption, NoExitAssumption, SMT

LEMMA SourceFacts ==
    ASSUME TypeOK
    PROVE  /\ Len(source) \in Nat /\ DOMAIN source = 1..Len(source)
           /\ \A j \in 1..Len(source) : source[j] \in Line /\ Body(source[j]) \in Line
<1>1. source \in Seq(Line)
  BY DEF TypeOK, Line
<1>2. \A j \in 1..Len(source) : source[j] \in Line
  BY <1>1, ElementOfSeq
<1> QED BY <1>1, <1>2, BodyType, LenProperties

LEMMA StartsFacts ==
    ASSUME TypeOK
    PROVE  /\ Len(starts) \in Nat /\ DOMAIN starts = 1..Len(starts)
           /\ \A j \in 1..Len(starts) :
                 starts[j] \in Int /\ 0 <= starts[j] /\ starts[j] <= MaxProgram
<1>1. Len(starts) \in Nat /\ DOMAIN starts = 1..Len(starts)
  BY LenProperties DEF TypeOK
<1>2. \A j \in 1..Len(starts) : starts[j] \in 0..MaxProgram
  BY ElementOfSeq DEF TypeOK
<1> QED BY <1>1, <1>2, Limits, SMT

LEMMA LabelFacts ==
    ASSUME TypeOK
    PROVE  /\ Len(labels) \in Nat /\ DOMAIN labels = 1..Len(labels)
           /\ \A k \in 1..Len(labels) :
                 /\ labels[k].name \in Texts
                 /\ labels[k].address \in Int /\ 0 <= labels[k].address
                 /\ labels[k].address < MaxProgram
<1>1. Len(labels) \in Nat /\ DOMAIN labels = 1..Len(labels)
  BY LenProperties DEF TypeOK
<1>2. \A k \in 1..Len(labels) : labels[k] \in Label
  BY ElementOfSeq DEF TypeOK
<1> QED BY <1>1, <1>2, Limits, SMT DEF Label

LEMMA SeenFacts ==
    ASSUME TypeOK
    PROVE  \A j \in Seen : j \in 1..Len(source)
BY SourceFacts, SMT DEF TypeOK, Seen

-----------------------------------------------------------------------------
(* The table.                                                              *)

\* The entry found for a name is the only one.
LEMMA Found ==
    ASSUME Inv, NEW n \in Names
    PROVE  \E k \in 1..Len(labels) : labels[k].name = n /\ Resolved[n] = labels[k].address
<1> DEFINE First(k) == labels[k].name = n /\ \A i \in 1..(k - 1) : labels[i].name # n
           K == CHOOSE k \in DOMAIN labels : First(k)
<1>1. TypeOK /\ Len(labels) \in Nat /\ DOMAIN labels = 1..Len(labels)
  BY LabelFacts DEF Inv
<1>2. PICK k \in 1..Len(labels) : labels[k].name = n
  BY <1>1 DEF Names
<1>3. \A i \in 1..(k - 1) : i \in 1..Len(labels) /\ i # k
  BY <1>1, <1>2, SMT
<1>4. First(k)
  BY <1>2, <1>3 DEF Inv, TableOK
<1>5. K \in DOMAIN labels /\ First(K)
  BY <1>1, <1>4
<1>6. Resolved[n] = labels[K].address
  BY DEF Resolved
<1> QED BY <1>1, <1>5, <1>6

LEMMA ResolvedType ==
    ASSUME Inv, NEW n \in Names
    PROVE  Resolved[n] \in Int /\ 0 <= Resolved[n] /\ Resolved[n] <= 1048575
BY Found, LabelFacts, Limits, SMT DEF Inv

\* A label that was seen is found, at the line that defines it.
LEMMA FoundWhereDefined ==
    ASSUME Inv, NEW j \in Seen, HasLabel(source[j])
    PROVE  /\ LabelName(source[j]) \in Names
           /\ Resolved[LabelName(source[j])] = starts[j]
<1> DEFINE n == LabelName(source[j])
<1>1. n \in Names
  BY LabelFacts DEF Inv, TableOK, Names
<1>2. PICK k \in 1..Len(labels) : labels[k].name = n /\ Resolved[n] = labels[k].address
  BY <1>1, Found
<1>3. PICK i \in Seen : Defines(source[i], n) /\ labels[k].address = starts[i]
  BY <1>2 DEF Inv, TableOK, EntryOK
<1>4. i = j
  BY <1>3 DEF Inv, TableOK
<1> QED BY <1>1, <1>2, <1>3, <1>4

\* When the table is complete it says of every label where its line begins.
LEMMA ResolvedIsPlaced ==
    ASSUME Inv, current_pass = 2
    PROVE  Resolved = Placed
<1> DEFINE Defined == {LabelName(source[j]) : j \in {j \in DOMAIN source : HasLabel(source[j])}}
<1>1. Seen = DOMAIN source
  BY SourceFacts DEF Inv, Seen
<1>2. \A n \in Names : n \in Defined
  <2> TAKE n \in Names
  <2>1. PICK k \in 1..Len(labels) : labels[k].name = n
    BY Found
  <2>2. PICK j \in Seen : Defines(source[j], n)
    BY <2>1 DEF Inv, TableOK, EntryOK
  <2> QED BY <1>1, <2>2 DEF Defines
<1>3. \A n \in Defined : n \in Names
  BY <1>1, FoundWhereDefined
<1>4. Names = Defined
  BY <1>2, <1>3
<1>5. \A n \in Defined : Resolved[n] = Placed[n]
  <2> TAKE n \in Defined
  <2>1. PICK j \in DOMAIN source : HasLabel(source[j]) /\ LabelName(source[j]) = n
    OBVIOUS
  <2>2. Resolved[n] = starts[j]
    BY <1>1, <2>1, FoundWhereDefined
  <2>3. \A i \in DOMAIN source : Defines(source[i], n) => i = j
    BY <1>1, <2>1 DEF Inv, TableOK, Defines
  <2>4. Defines(source[j], n)
    BY <2>1 DEF Defines
  <2>5. (CHOOSE i \in DOMAIN source : Defines(source[i], n)) = j
    BY <2>3, <2>4
  <2>6. Placed[n] = starts[j]
    BY <2>5 DEF Placed, PlacesOf
  <2> QED BY <2>2, <2>6
<1> QED BY <1>4, <1>5 DEF Resolved, Placed, PlacesOf

-----------------------------------------------------------------------------
(* What is wrong with a line, and what is not.                             *)

\* A line without a complaint is right where it stands.
LEMMA NoComplaint ==
    ASSUME TypeOK, NEW l \in Line, Complaint(l, Body(l)) = None
    PROVE  /\ Right(l, address)
           /\ address + Size(Body(l), address) \in 0..MaxProgram
           /\ current_pass = 1 /\ HasLabel(l) =>
                  LabelName(l) \notin Names /\ Len(labels) # MaxLabels
           /\ current_pass = 2 => References(Body(l)) \subseteq Names
<1> DEFINE b == Body(l)
<1>1. /\ ~IsLong(l) /\ ~BadLabel(l) /\ (HasLabel(l) => ~(address >= MaxProgram))
      /\ current_pass = 1 /\ HasLabel(l) => LabelName(l) \notin Names /\ Len(labels) # MaxLabels
      /\ WellFormed(b)
      /\ current_pass = 2 => References(b) \subseteq Names
      /\ IsInstruction(b) => address % 4 = 0
      /\ ~(Size(b, address) > MaxProgram - address)
  BY SMT DEF Complaint, None
<1>2. address \in Nat /\ address <= MaxProgram
  BY Limits, SMT DEF TypeOK
<1>3. b \in Line
  BY BodyType
<1>4. Size(b, address) \in Nat
  <2> DEFINE at == [n \in References(b) |-> 0]
  <2>1. Addresses(b, at)
    BY SMT DEF Addresses
  <2> QED BY <1>1, <1>2, <1>3, <2>1, LineBytesType
<1>5. /\ address + Size(b, address) \in 0..MaxProgram
      /\ address + Size(b, address) <= MaxProgram
  BY <1>1, <1>2, <1>4, Limits, SMT
<1>6. HasLabel(l) => address < MaxProgram
  BY <1>1, <1>2, Limits, SMT
<1> QED BY <1>1, <1>5, <1>6 DEF Right

\* A line that is right where it stands can only refer to what is not there.
LEMMA SecondComplaint ==
    ASSUME TypeOK, NEW l \in Line, Right(l, address), current_pass = 2,
           Complaint(l, Body(l)) # None
    PROVE  Complaint(l, Body(l)) = "undefined label"
<1> DEFINE b == Body(l)
<1>1. address \in Nat /\ address <= MaxProgram
  BY Limits, SMT DEF TypeOK
<1>2. b \in Line
  BY BodyType
<1>3. Size(b, address) \in Nat
  <2> DEFINE at == [n \in References(b) |-> 0]
  <2>1. Addresses(b, at)
    BY SMT DEF Addresses
  <2> QED BY <1>1, <1>2, <2>1, LineBytesType DEF Right
<1>4. HasLabel(l) => ~(address >= MaxProgram)
  BY <1>1, Limits, SMT DEF Right
<1>5. ~(Size(b, address) > MaxProgram - address)
  BY <1>1, <1>3, Limits, SMT DEF Right
<1> QED BY <1>4, <1>5, SMT DEF Right, Complaint, None

-----------------------------------------------------------------------------
(* The first pass accepts a line.                                          *)

\* What AssembleLine does to a line it accepts, pass by pass.
Accepts(pass) ==
    /\ phase = "lines" /\ line <= Len(source) /\ current_pass = pass
    /\ Complaint(source[line], Body(source[line])) = None
    /\ line' = line + 1
    /\ address' = address + Size(Body(source[line]), address)
    /\ UNCHANGED <<source, phase, current_pass, output, old, exit, diagnostic>>

FirstAccepts ==
    /\ Accepts(1)
    /\ labels' = IF HasLabel(source[line])
                 THEN Append(labels, [name |-> LabelName(source[line]), address |-> address])
                 ELSE labels
    /\ starts' = Append(starts, address')
    /\ UNCHANGED staged

SecondAccepts ==
    /\ Accepts(2)
    /\ staged' = staged \o LineBytes(Body(source[line]), address, Resolved)
    /\ UNCHANGED <<labels, starts>>

\* The line at hand.
LEMMA LineFacts ==
    ASSUME TypeOK, line <= Len(source)
    PROVE  /\ line \in 1..Len(source) /\ line \in Nat /\ line + 1 \in 1..(Len(source) + 1)
           /\ source[line] \in Line /\ Body(source[line]) \in Line
           /\ address \in Nat /\ address <= MaxProgram
<1>1. line \in 1..Len(source) /\ line \in Nat /\ line + 1 \in 1..(Len(source) + 1)
  BY SourceFacts, SMT DEF TypeOK
<1>2. address \in Nat /\ address <= MaxProgram
  BY Limits, SMT DEF TypeOK
<1> QED BY <1>1, <1>2, SourceFacts

LEMMA FirstStarts ==
    ASSUME Inv, FirstAccepts
    PROVE  /\ starts' \in Seq(0..MaxProgram) /\ Len(starts') = line + 1 /\ Len(starts) = line
           /\ address' \in 0..MaxProgram
           /\ \A j \in 1..line : starts'[j] = starts[j]
           /\ starts'[line + 1] = address' /\ starts[line] = address
<1>1. starts \in Seq(0..MaxProgram) /\ Len(starts) = line /\ starts[line] = address
  BY DEF Inv, TypeOK, StartsOK, FirstAccepts, Accepts
<1>2. address' \in 0..MaxProgram
  BY NoComplaint, LineFacts DEF Inv, FirstAccepts, Accepts
<1> QED BY <1>1, <1>2, AppendProperties DEF FirstAccepts

LEMMA FirstSeen ==
    ASSUME Inv, FirstAccepts
    PROVE  /\ Seen' = Seen \cup {line}
           /\ \A j \in Seen : j \in 1..line /\ j + 1 \in 1..line
           /\ line \notin Seen
<1>1. line \in Nat /\ 1 <= line
  BY LineFacts, SMT DEF Inv, FirstAccepts, Accepts
<1>2. Seen = 1..(line - 1) /\ Seen' = 1..((line + 1) - 1)
  BY DEF Inv, Seen, FirstAccepts, Accepts
<1> QED BY <1>1, <1>2, SMT

LEMMA FirstKeepsSeen ==
    ASSUME Inv, FirstAccepts
    PROVE  SeenOK'
<1>1. Right(source[line], address)
  BY NoComplaint, LineFacts DEF Inv, FirstAccepts, Accepts
<1>2. \A j \in Seen \cup {line} : Right(source[j], starts'[j])
  <2> TAKE j \in Seen \cup {line}
  <2>1. CASE j = line
    <3>1. line \in 1..line
      BY LineFacts, SMT DEF Inv, FirstAccepts, Accepts
    <3> QED BY <1>1, <2>1, <3>1, FirstStarts
  <2>2. CASE j \in Seen
    BY <2>2, FirstStarts, FirstSeen DEF Inv, SeenOK
  <2> QED BY <2>1, <2>2
<1> QED BY <1>2, FirstSeen DEF SeenOK, Right, FirstAccepts, Accepts

LEMMA FirstKeepsStarts ==
    ASSUME Inv, FirstAccepts
    PROVE  StartsOK'
<1>1. line \in Nat /\ 1 <= line /\ 1 \in 1..line /\ line \in 1..line
  BY LineFacts, SMT DEF Inv, FirstAccepts, Accepts
<1>2. /\ source' = source /\ current_pass' = 1 /\ line' = line + 1
      /\ address' = address + Size(Body(source[line]), address)
  BY DEF FirstAccepts, Accepts
<1>3. starts'[1] = 0
  BY <1>1, FirstStarts DEF Inv, StartsOK
<1>4. \A j \in Seen' : starts'[j + 1] = starts'[j] + Size(Body(source[j]), starts'[j])
  <2> TAKE j \in Seen'
  <2>1. CASE j = line
    BY <1>1, <1>2, <2>1, FirstStarts
  <2>2. CASE j \in Seen
    BY <2>2, FirstStarts, FirstSeen DEF Inv, StartsOK
  <2> QED BY <2>1, <2>2, FirstSeen
<1>5. \A i, j \in 1..(line + 1) : i <= j => starts'[i] <= starts'[j]
  <2>1. address <= address' /\ address' \in Int /\ address \in Int
    <3>1. Size(Body(source[line]), address) \in Nat
      <4> DEFINE b == Body(source[line])
                 at == [n \in References(b) |-> 0]
      <4>1. Addresses(b, at)
        BY SMT DEF Addresses
      <4>2. WellFormed(b)
        BY NoComplaint, LineFacts DEF Inv, FirstAccepts, Accepts, Right
      <4> QED BY <4>1, <4>2, LineBytesType, LineFacts DEF Inv, FirstAccepts, Accepts
    <3>2. address \in Nat
      BY LineFacts DEF Inv, FirstAccepts, Accepts
    <3> QED BY <1>2, <3>1, <3>2, SMT
  <2>2. \A i \in 1..line : starts[i] \in Int /\ starts[i] <= address
    <3>1. \A i \in 1..line : starts[i] <= starts[line]
      BY <1>1, FirstStarts, SMT DEF Inv, StartsOK
    <3> QED BY <3>1, FirstStarts, StartsFacts DEF Inv
  <2>3. \A i, j \in 1..line : i <= j => starts[i] <= starts[j]
    BY FirstStarts DEF Inv, StartsOK
  <2> SUFFICES ASSUME NEW i \in 1..(line + 1), NEW j \in 1..(line + 1), i <= j
               PROVE  starts'[i] <= starts'[j]
    OBVIOUS
  <2>4. CASE j \in 1..line
    <3>1. i \in 1..line
      BY <1>1, <2>4, SMT
    <3> QED BY <2>3, <2>4, <3>1, FirstStarts
  <2>5. CASE j = line + 1 /\ i \in 1..line
    BY <2>1, <2>2, <2>5, FirstStarts, SMT
  <2>6. CASE j = line + 1 /\ i = line + 1
    BY <2>1, <2>6, FirstStarts, SMT
  <2>7. \A k \in 1..(line + 1) : k \in 1..line \/ k = line + 1
    BY <1>1, SMT
  <2> QED BY <2>4, <2>5, <2>6, <2>7
<1> QED BY <1>2, <1>3, <1>4, <1>5, FirstStarts DEF StartsOK

\* The table after a line that defines a label.
LEMMA FirstLabels ==
    ASSUME Inv, FirstAccepts, HasLabel(source[line])
    PROVE  /\ labels' \in Seq(Label) /\ Len(labels') = Len(labels) + 1 /\ Len(labels') <= MaxLabels
           /\ \A k \in 1..Len(labels) : labels'[k] = labels[k]
           /\ labels'[Len(labels) + 1].name = LabelName(source[line])
           /\ labels'[Len(labels) + 1].address = address
<1> DEFINE e == [name |-> LabelName(source[line]), address |-> address]
<1>1. labels \in Seq(Label) /\ Len(labels) \in Nat /\ Len(labels) <= MaxLabels
  BY LabelFacts DEF Inv, TypeOK
<1>2. address < MaxProgram /\ Len(labels) # MaxLabels
  BY NoComplaint, LineFacts DEF Inv, FirstAccepts, Accepts, Right
<1>3. address \in 0..(MaxProgram - 1)
  BY <1>2, LineFacts, Limits, SMT DEF Inv, FirstAccepts, Accepts
<1>4. LabelName(source[line]) \in Texts
  BY LabelShape, LineFacts DEF Inv, FirstAccepts, Accepts
<1>5. e \in Label
  BY <1>3, <1>4 DEF Label
<1>6. labels' = Append(labels, e)
  BY DEF FirstAccepts
<1>7. Len(labels) + 1 <= MaxLabels
  BY <1>1, <1>2, Limits, SMT
<1>8. e.name = LabelName(source[line]) /\ e.address = address
  OBVIOUS
<1> HIDE DEF e
<1> QED BY <1>1, <1>5, <1>6, <1>7, <1>8, AppendProperties

\* Entries and definitions from before are what they were.
LEMMA FirstEntries ==
    ASSUME Inv, FirstAccepts
    PROVE  /\ \A k \in 1..Len(labels) : labels'[k] = labels[k] => EntryOK(k)'
           /\ \A j, n : Defines(source[j], n)' <=> Defines(source[j], n)
<1>1. source' = source
  BY DEF FirstAccepts, Accepts
<1>2. \A j, n : Defines(source[j], n)' <=> Defines(source[j], n)
  BY <1>1 DEF Defines
<1>3. \A j \in Seen : j \in Seen' /\ starts'[j] = starts[j]
  BY FirstSeen, FirstStarts
<1> QED BY <1>1, <1>2, <1>3 DEF Inv, TableOK, EntryOK, Defines

LEMMA FirstKeepsTable ==
    ASSUME Inv, FirstAccepts
    PROVE  TableOK'
<1> DEFINE n0 == LabelName(source[line])
<1>1. source' = source
  BY DEF FirstAccepts, Accepts
<1>2. CASE ~HasLabel(source[line])
  <2>1. labels' = labels
    BY <1>2 DEF FirstAccepts
  <2>2. \A k \in 1..Len(labels') : EntryOK(k)'
    BY <2>1, FirstEntries
  <2>3. \A j \in Seen' : HasLabel(source'[j]) => j \in Seen
    BY <1>1, <1>2, FirstSeen
  <2>4. \A n : \A j \in Seen' : Defines(source[j], n)' => j \in Seen /\ Defines(source[j], n)
    BY <1>1, <2>3 DEF Defines
  <2> QED BY <1>1, <2>1, <2>2, <2>3, <2>4 DEF Inv, TableOK
<1>3. CASE HasLabel(source[line])
  <2> DEFINE last == Len(labels) + 1
  <2>1. n0 \notin Names
    BY <1>3, NoComplaint, LineFacts DEF Inv, FirstAccepts, Accepts
  <2>2. \A k \in 1..Len(labels) : labels[k].name # n0
    BY <2>1, LabelFacts DEF Inv, Names
  <2>3. /\ Len(labels') = last /\ last \in 1..last
        /\ \A k \in 1..last : k \in 1..Len(labels) \/ k = last
        /\ \A k \in 1..Len(labels) : k \in 1..last /\ labels'[k] = labels[k]
        /\ labels'[last].name = n0 /\ labels'[last].address = address
    BY <1>3, FirstLabels, LabelFacts, SMT DEF Inv
  <2> HIDE DEF last
  <2>4. \A k \in 1..last : EntryOK(k)'
    <3>1. ASSUME NEW k, k = last
          PROVE  EntryOK(k)'
      <4>1. line \in Seen' /\ HasLabel(source'[line]) /\ LabelName(source'[line]) = n0
        BY <1>1, <1>3, FirstSeen
      <4>2. line \in 1..line
        BY LineFacts, SMT DEF Inv, FirstAccepts, Accepts
      <4>3. starts'[line] = address
        BY <4>2, FirstStarts
      <4> QED BY <2>3, <3>1, <4>1, <4>3 DEF EntryOK, Defines
    <3>2. \A k \in 1..Len(labels) : EntryOK(k)'
      BY <2>3, FirstEntries
    <3> QED BY <2>3, <3>1, <3>2
  <2>5. \A j \in Seen' : HasLabel(source'[j]) =>
          \E k \in 1..last : labels'[k].name = LabelName(source'[j])
    <3> SUFFICES ASSUME NEW j \in Seen', HasLabel(source[j])
                 PROVE  \E k \in 1..last : labels'[k].name = LabelName(source[j])
      BY <1>1
    <3>1. CASE j = line
      BY <2>3, <3>1
    <3>2. CASE j \in Seen
      BY <2>3, <3>2 DEF Inv, TableOK
    <3> QED BY <3>1, <3>2, FirstSeen
  <2>6. \A i, k \in 1..last : labels'[i].name = labels'[k].name => i = k
    BY <2>2, <2>3 DEF Inv, TableOK
  <2>7. \A j \in Seen : ~Defines(source[j], n0)
    BY <2>2 DEF Inv, TableOK, Defines
  <2>8. \A i, j \in Seen' :
          HasLabel(source[i]) /\ Defines(source[j], LabelName(source[i])) => i = j
    <3> SUFFICES ASSUME NEW i \in Seen', NEW j \in Seen',
                        HasLabel(source[i]), Defines(source[j], LabelName(source[i]))
                 PROVE  i = j
      OBVIOUS
    <3>1. CASE i \in Seen /\ j \in Seen
      BY <3>1 DEF Inv, TableOK
    <3>2. CASE i = line /\ j \in Seen
      BY <2>7, <3>2
    <3>3. CASE i \in Seen /\ j = line
      BY <2>7, <3>3 DEF Defines
    <3> QED BY <3>1, <3>2, <3>3, FirstSeen
  <2> QED BY <1>1, <2>3, <2>4, <2>5, <2>6, <2>8, FirstEntries DEF TableOK
<1> QED BY <1>2, <1>3

LEMMA FirstKeepsInv ==
    ASSUME Inv, FirstAccepts
    PROVE  Inv'
<1>1. /\ source' = source /\ current_pass' = 1 /\ current_pass = 1 /\ line' = line + 1
      /\ phase' = "lines" /\ phase = "lines" /\ staged' = staged
      /\ output' = output /\ old' = old /\ exit' = exit /\ diagnostic' = diagnostic
  BY DEF FirstAccepts, Accepts
<1>2. labels' \in Seq(Label) /\ Len(labels') <= MaxLabels
  <2>1. CASE HasLabel(source[line])
    BY <2>1, FirstLabels
  <2>2. CASE ~HasLabel(source[line])
    BY <2>2 DEF Inv, TypeOK, FirstAccepts
  <2> QED BY <2>1, <2>2
<1>3. TypeOK'
  <2>1. line' \in 1..(Len(source') + 1)
    BY <1>1, LineFacts DEF Inv, FirstAccepts, Accepts
  <2> QED BY <1>1, <1>2, <2>1, FirstStarts DEF Inv, TypeOK
<1>4. StagedOK'
  BY <1>1 DEF StagedOK
<1>5. PhaseOK'
  <2>1. exit # 0
    BY <1>1, Limits DEF Inv, PhaseOK
  <2> QED BY <1>1, <2>1 DEF Inv, PhaseOK
<1> QED BY <1>3, <1>4, <1>5, FirstKeepsSeen, FirstKeepsStarts, FirstKeepsTable DEF Inv

-----------------------------------------------------------------------------
(* The second pass accepts a line.                                         *)

LEMMA SecondKeepsInv ==
    ASSUME Inv, SecondAccepts
    PROVE  Inv'
<1> DEFINE b == Body(source[line])
           bytes == LineBytes(b, address, Resolved)
<1>1. /\ source' = source /\ current_pass' = 2 /\ current_pass = 2 /\ line' = line + 1
      /\ phase' = "lines" /\ phase = "lines" /\ labels' = labels /\ starts' = starts
      /\ address' = address + Size(b, address) /\ staged' = staged \o bytes
      /\ output' = output /\ old' = old /\ exit' = exit /\ diagnostic' = diagnostic
  BY DEF SecondAccepts, Accepts
<1>2. /\ line \in 1..Len(source) /\ line \in Nat /\ line + 1 \in 1..(Len(source) + 1)
      /\ b \in Line /\ address \in Nat
  BY LineFacts DEF Inv, SecondAccepts, Accepts
<1>3. /\ Right(source[line], address) /\ References(b) \subseteq Names
      /\ address + Size(b, address) \in 0..MaxProgram
  BY NoComplaint, LineFacts DEF Inv, SecondAccepts, Accepts
<1>4. Addresses(b, Resolved)
  BY <1>3, ResolvedType DEF Addresses
<1>5. bytes \in Seq(Byte) /\ Size(b, address) \in Nat /\ Len(bytes) = Size(b, address)
  BY <1>2, <1>3, <1>4, LineBytesType DEF Right
<1>6. staged \in Seq(Byte) /\ Len(staged) = address
  BY <1>1 DEF Inv, TypeOK
<1>7. Placed' = Placed
  BY <1>1 DEF Placed
<1>8. bytes = LineBytes(b, address, Placed)
  BY <1>1, ResolvedIsPlaced
<1> HIDE DEF bytes
<1>9. staged' \in Seq(Byte) /\ Len(staged') = address'
  BY <1>1, <1>5, <1>6, ConcatProperties
<1>10. /\ Seen = 1..Len(source) /\ Seen' = Seen
       /\ Len(starts) = Len(source) + 1 /\ address = starts[line]
  BY <1>1 DEF Inv, StartsOK, Seen
<1>11. starts[line + 1] = address + Size(b, address)
  BY <1>2, <1>10 DEF Inv, StartsOK
<1>12. TypeOK'
  <2>1. line' \in 1..(Len(source') + 1) /\ address' \in 0..MaxProgram
    BY <1>1, <1>2, <1>3
  <2> QED BY <1>1, <1>9, <2>1 DEF Inv, TypeOK
<1>13. StartsOK'
  BY <1>1, <1>10, <1>11 DEF Inv, StartsOK
<1>14. SeenOK'
  BY <1>1, <1>10 DEF Inv, SeenOK, Right
<1>15. TableOK'
  BY <1>1, <1>10 DEF Inv, TableOK, EntryOK, Defines
<1>16. StagedOK'
  <2> SUFFICES ASSUME NEW j \in 1..line
               PROVE  /\ References(Body(source[j])) \subseteq Names
                      /\ SubSeq(staged \o bytes, starts[j] + 1, starts[j + 1])
                           = LineBytes(Body(source[j]), starts[j], Placed)
    <3>1. (line + 1) - 1 = line
      BY <1>2, SMT
    <3> QED BY <1>1, <1>7, <3>1 DEF StagedOK, Emitted, Names
  <2>1. CASE j = line
    <3>1. starts[j] + 1 = Len(staged) + 1 /\ starts[j + 1] = Len(staged) + Len(bytes)
      BY <1>5, <1>6, <1>10, <1>11, <2>1
    <3>2. SubSeq(staged \o bytes, Len(staged) + 1, Len(staged) + Len(bytes)) = bytes
      BY <1>5, <1>6, PartIsSecond
    <3> QED BY <1>3, <1>8, <1>10, <2>1, <3>1, <3>2
  <2>2. CASE j # line
    <3>1. /\ j \in 1..(line - 1) /\ j + 1 \in 1..Len(starts) /\ line \in 1..Len(starts)
          /\ j + 1 <= line /\ j \in 1..Len(starts)
      BY <1>2, <1>10, <2>2, SMT
    <3>2. starts[j + 1] <= starts[line]
      BY <3>1 DEF Inv, StartsOK
    <3>3. /\ starts[j] \in Int /\ 0 <= starts[j]
          /\ starts[j + 1] \in Int /\ 0 <= starts[j + 1]
      BY <3>1, StartsFacts DEF Inv
    <3>4. /\ starts[j] + 1 \in Nat \ {0} /\ starts[j + 1] \in Nat
          /\ starts[j + 1] <= Len(staged)
      BY <1>6, <1>10, <3>2, <3>3, SMT
    <3>5. SubSeq(staged \o bytes, starts[j] + 1, starts[j + 1])
            = SubSeq(staged, starts[j] + 1, starts[j + 1])
      BY <1>5, <1>6, <3>4, PartOfFirst
    <3> QED BY <1>1, <3>1, <3>5 DEF Inv, StagedOK, Emitted
  <2> QED BY <2>1, <2>2
<1>17. PhaseOK'
  <2>1. exit # 0
    BY <1>1, Limits DEF Inv, PhaseOK
  <2> QED BY <1>1, <2>1 DEF Inv, PhaseOK
<1> QED BY <1>12, <1>13, <1>14, <1>15, <1>16, <1>17 DEF Inv

-----------------------------------------------------------------------------
(* The other steps.                                                        *)

Passes == <<source, current_pass, line, address, labels, staged, starts>>

\* A step that leaves the passes alone has types, phase and output to keep.
LEMMA PassesKept ==
    ASSUME Inv, UNCHANGED Passes
    PROVE  SeenOK' /\ StartsOK' /\ TableOK' /\ StagedOK'
<1>1. SeenOK'
  BY DEF Passes, Inv, SeenOK, Seen, Right
<1>2. StartsOK'
  BY DEF Passes, Inv, StartsOK, Seen
<1>3. TableOK'
  BY DEF Passes, Inv, TableOK, EntryOK, Seen, Defines
<1>4. Placed' = Placed
  BY DEF Passes, Placed
<1>5. StagedOK'
  BY <1>4 DEF Passes, Inv, StagedOK, Emitted, Names
<1> QED BY <1>1, <1>2, <1>3, <1>5

LEMMA InitInv == Init => Inv
<1> SUFFICES ASSUME Init PROVE Inv
  OBVIOUS
<1> USE DEF Init
<1>1. /\ 0 \in 0..MaxProgram /\ NoExit # 0
      /\ source \in Seq(Line) /\ Len(source) \in Nat
  BY SourcesAssumption, Limits, LenProperties, SMT DEF Line
<1>2. 1 \in 1..(Len(source) + 1) /\ 1..(1 - 1) = {}
  BY <1>1, SMT
<1>3. /\ <<>> \in Seq(Label) /\ Len(<<>>) = 0 /\ <<>> \in Seq(Byte)
      /\ <<0>> \in Seq(0..MaxProgram) /\ Len(<<0>>) = 1 /\ <<0>>[1] = 0
  BY <1>1, EmptySeq, SMT
<1>4. TypeOK
  BY <1>1, <1>2, <1>3, Limits, OutputsAssumption, SMT DEF TypeOK, Phase, Line
<1>5. Seen = {}
  BY <1>2 DEF Seen
<1>6. SeenOK
  BY <1>5 DEF SeenOK
<1>7. StartsOK
  BY <1>3, <1>5, SMT DEF StartsOK
<1>8. TableOK
  <2>1. 1..Len(labels) = {}
    BY <1>3, SMT
  <2> QED BY <1>5, <2>1 DEF TableOK
<1>9. StagedOK
  BY SMT DEF StagedOK
<1>10. PhaseOK
  BY <1>1 DEF PhaseOK
<1> QED BY <1>4, <1>6, <1>7, <1>8, <1>9, <1>10 DEF Inv

\* A process that ends keeps the output it has; it reports success only when
\* that is all of what it has staged.
LEMMA EndKeepsInv ==
    ASSUME Inv, UNCHANGED Passes, UNCHANGED <<output, old>>, phase # "done",
           NEW status \in {0, 1, NoExit}, NEW why, End(status, why),
           status = 0 => phase = "copy" /\ output = staged,
           why # None => phase = "lines"
    PROVE  Inv'
<1>1. phase' = "done" /\ exit' = status /\ diagnostic' = why
  BY DEF End
<1>2. TypeOK'
  BY <1>1 DEF Passes, Inv, TypeOK, Phase
<1>3. PhaseOK'
  BY <1>1, Limits DEF Passes, Inv, PhaseOK
<1> QED BY <1>2, <1>3, PassesKept DEF Inv

LEMMA OpenKeepsInv == ASSUME Inv, Open PROVE Inv'
<1>1. UNCHANGED Passes /\ UNCHANGED <<output, old>> /\ phase = "open"
  BY DEF Open, files, history, Passes
<1>2. CASE End(1, None)
  BY <1>1, <1>2, EndKeepsInv
<1>3. CASE phase' = "lines" /\ UNCHANGED <<exit, diagnostic>>
  <2>1. TypeOK'
    BY <1>1, <1>3 DEF Passes, Inv, TypeOK, Phase
  <2>2. PhaseOK'
    BY <1>1, <1>3, Limits DEF Passes, Inv, PhaseOK
  <2> QED BY <1>1, <2>1, <2>2, PassesKept DEF Inv
<1> QED BY <1>2, <1>3 DEF Open

LEMMA EndPassKeepsInv == ASSUME Inv, EndPass PROVE Inv'
<1>1. /\ phase = "lines" /\ line = Len(source) + 1
      /\ source' = source /\ staged' = staged /\ output' = output /\ labels' = labels
      /\ exit' = exit /\ diagnostic' = diagnostic /\ starts' = starts /\ old' = old
  BY DEF EndPass, files, history
<1>2. Len(source) \in Nat
  BY SourceFacts DEF Inv
<1>3. CASE current_pass = 1 /\ current_pass' = 2 /\ line' = 1 /\ address' = 0 /\ phase' = phase
  <2>1. 1 \in 1..(Len(source) + 1) /\ 0 \in 0..MaxProgram /\ (Len(source) + 1) - 1 = Len(source)
    BY <1>2, Limits, SMT
  <2>2. Seen' = Seen
    BY <1>1, <1>3, <2>1 DEF Seen
  <2>3. TypeOK'
    BY <1>1, <1>3, <2>1 DEF Inv, TypeOK, Phase
  <2>4. SeenOK'
    BY <1>1, <2>2 DEF Inv, SeenOK, Right
  <2>5. StartsOK'
    BY <1>1, <1>3, <2>2 DEF Inv, StartsOK
  <2>6. TableOK'
    BY <1>1, <2>2 DEF Inv, TableOK, EntryOK, Defines
  <2>7. StagedOK'
    <3>1. \A j \in 1..(1 - 1) : FALSE
      BY SMT
    <3> QED BY <1>3, <3>1 DEF StagedOK
  <2>8. PhaseOK'
    BY <1>1, <1>3, Limits DEF Inv, PhaseOK
  <2> QED BY <2>3, <2>4, <2>5, <2>6, <2>7, <2>8 DEF Inv
<1>4. CASE current_pass = 2 /\ phase' = "stage" /\ UNCHANGED <<current_pass, line, address>>
  <2>1. UNCHANGED Passes
    BY <1>1, <1>4 DEF Passes
  <2>2. TypeOK'
    BY <1>1, <1>4 DEF Inv, TypeOK, Phase
  <2>3. PhaseOK'
    BY <1>1, <1>4 DEF Inv, PhaseOK
  <2> QED BY <2>1, <2>2, <2>3, PassesKept DEF Inv
<1> QED BY <1>3, <1>4 DEF EndPass

LEMMA OpenOutputKeepsInv == ASSUME Inv, OpenOutput PROVE Inv'
<1>1. UNCHANGED Passes /\ old' = old /\ phase = "stage"
  BY DEF OpenOutput, history, Passes
<1>2. CASE End(1, None) /\ UNCHANGED output
  BY <1>1, <1>2, EndKeepsInv
<1>3. CASE phase' = "copy" /\ output' = <<>> /\ UNCHANGED <<exit, diagnostic>>
  <2>1. TypeOK'
    BY <1>1, <1>3, EmptySeq DEF Passes, Inv, TypeOK, Phase
  <2>2. PhaseOK'
    BY <1>1, <1>3, Limits DEF Passes, Inv, PhaseOK
  <2> QED BY <1>1, <2>1, <2>2, PassesKept DEF Inv
<1> QED BY <1>2, <1>3 DEF OpenOutput

LEMMA CopyKeepsInv == ASSUME Inv, Copy PROVE Inv'
<1>1. /\ UNCHANGED Passes /\ old' = old /\ phase = "copy" /\ phase' = phase
      /\ exit' = exit /\ diagnostic' = diagnostic
  BY DEF Copy, history, Passes
<1>2. output' \in Seq(Byte)
  <2>1. PICK n \in (Len(output) + 1)..Len(staged) : output' = SubSeq(staged, 1, n)
    BY DEF Copy
  <2>2. staged \in Seq(Byte) /\ Len(staged) \in Nat
    BY LenProperties DEF Inv, TypeOK
  <2>3. n \in Int /\ n <= Len(staged)
    BY <2>1, <2>2, SMT
  <2>4. \A i \in 1..n : i \in 1..Len(staged)
    BY <2>2, <2>3, SMT
  <2>5. \A i \in 1..n : staged[i] \in Byte
    BY <2>2, <2>4, ElementOfSeq
  <2>6. SubSeq(staged, 1, n) \in Seq(Byte)
    BY <2>3, <2>5, SubSeqProperties, SMT
  <2> QED BY <2>1, <2>6
<1>3. TypeOK'
  BY <1>1, <1>2 DEF Passes, Inv, TypeOK
<1>4. PhaseOK'
  BY <1>1, Limits DEF Passes, Inv, PhaseOK
<1> QED BY <1>1, <1>3, <1>4, PassesKept DEF Inv

\* A line is refused, or accepted by one of the two passes.
LEMMA AssembleLineCases ==
    ASSUME AssembleLine
    PROVE  \/ /\ phase = "lines" /\ line <= Len(source) /\ UNCHANGED Passes /\ UNCHANGED <<output, old>>
              /\ Complaint(source[line], Body(source[line])) # None
              /\ End(1, Complaint(source[line], Body(source[line])))
           \/ FirstAccepts
           \/ SecondAccepts
BY DEF AssembleLine, FirstAccepts, SecondAccepts, Accepts, Passes

LEMMA NextKeepsInv == Inv /\ [Next]_vars => Inv'
<1> SUFFICES ASSUME Inv, [Next]_vars PROVE Inv'
  OBVIOUS
<1>1. CASE Open
  BY <1>1, OpenKeepsInv
<1>2. CASE AssembleLine
  BY <1>2, AssembleLineCases, FirstKeepsInv, SecondKeepsInv, EndKeepsInv
<1>3. CASE EndPass
  BY <1>3, EndPassKeepsInv
<1>4. CASE OpenOutput
  BY <1>4, OpenOutputKeepsInv
<1>5. CASE Copy
  BY <1>5, CopyKeepsInv
<1>6. CASE Close
  <2>1. UNCHANGED Passes /\ UNCHANGED <<output, old>> /\ phase = "copy"
    BY <1>6 DEF Close, files, history, Passes
  <2>2. CASE output = staged /\ End(0, None)
    BY <2>1, <2>2, EndKeepsInv
  <2>3. CASE End(1, None)
    BY <2>1, <2>3, EndKeepsInv
  <2> QED BY <1>6, <2>2, <2>3 DEF Close
<1>7. CASE ReadFailure
  <2>1. UNCHANGED Passes /\ UNCHANGED <<output, old>> /\ phase = "lines" /\ End(1, None)
    BY <1>7 DEF ReadFailure, files, history, Passes
  <2> QED BY <2>1, EndKeepsInv
<1>8. CASE Kill
  <2>1. UNCHANGED Passes /\ UNCHANGED <<output, old>> /\ phase # "done" /\ End(NoExit, None)
    BY <1>8 DEF Kill, files, history, Passes
  <2> QED BY <2>1, EndKeepsInv, Limits
<1>9. CASE UNCHANGED vars
  <2>1. UNCHANGED Passes /\ UNCHANGED <<output, old, phase, exit, diagnostic>>
    BY <1>9 DEF vars, files, history, Passes
  <2>2. TypeOK' /\ PhaseOK'
    BY <2>1 DEF Passes, Inv, TypeOK, PhaseOK
  <2> QED BY <2>1, <2>2, PassesKept DEF Inv
<1> QED BY <1>1, <1>2, <1>3, <1>4, <1>5, <1>6, <1>7, <1>8, <1>9 DEF Next, Proceed

-----------------------------------------------------------------------------
(* What holds of every behaviour.                                          *)

THEOREM InvCorrect == Spec => []Inv
<1>1. Init => Inv
  BY InitInv
<1>2. Inv /\ [Next]_vars => Inv'
  BY NextKeepsInv
<1> QED BY <1>1, <1>2, PTL DEF Spec

\* Neither the program nor the label table ever grows past its limit, and the
\* address is the number of bytes staged.
THEOREM TypeCorrect == Spec => []TypeOK
<1>1. Inv => TypeOK
  BY DEF Inv
<1> QED BY <1>1, InvCorrect, PTL

\* In the second pass every label is where the first pass has put it.
THEOREM LabelsCorrect == Spec => []LabelsKeepTheirPlace
<1>1. Inv => LabelsKeepTheirPlace
  <2> SUFFICES ASSUME Inv, current_pass = 2, line <= Len(source), HasLabel(source[line])
               PROVE  LabelName(source[line]) \in Names
                      /\ Resolved[LabelName(source[line])] = address
    BY DEF LabelsKeepTheirPlace
  <2>1. line \in Seen
    BY LineFacts DEF Inv, Seen
  <2> QED BY <2>1, FoundWhereDefined DEF Inv, StartsOK
<1> QED BY <1>1, InvCorrect, PTL

\* A source that is refused leaves the output file alone.
THEOREM RefusedCorrect == Spec => []RefusedKeepsOutput
<1>1. Inv => RefusedKeepsOutput
  BY DEF Inv, PhaseOK, RefusedKeepsOutput
<1> QED BY <1>1, InvCorrect, PTL

\* What the assembler calls a success is the translation of the source.
THEOREM TranslationCorrect == Spec => []OutputIsTranslation
<1>1. Inv => OutputIsTranslation
  <2> SUFFICES ASSUME Inv, exit = 0
               PROVE  IsTranslation(source, starts, output)
    BY DEF OutputIsTranslation
  <2>1. current_pass = 2 /\ line = Len(source) + 1 /\ output = staged
    BY DEF Inv, PhaseOK
  <2>2. Len(starts) = Len(source) + 1 /\ starts[1] = 0 /\ Len(output) = starts[Len(source) + 1]
    BY <2>1 DEF Inv, StartsOK, TypeOK
  <2>3. Len(source) \in Nat /\ DOMAIN source = 1..Len(source)
    BY SourceFacts DEF Inv
  <2>4. (Len(source) + 1) - 1 = Len(source)
    BY <2>3, SMT
  <2>5. \A j \in DOMAIN source :
          /\ starts[j + 1] = starts[j] + Size(Body(source[j]), starts[j])
          /\ SubSeq(output, starts[j] + 1, starts[j + 1])
                 = LineBytes(Body(source[j]), starts[j], Placed)
    BY <2>1, <2>3, <2>4 DEF Inv, StartsOK, StagedOK, Seen, Emitted
  <2> QED BY <2>2, <2>5 DEF IsTranslation, Placed
<1> QED BY <1>1, InvCorrect, PTL

\* A source has one translation: whatever begin and code are, when they are one
\* then the first pass finds begin, and the second stages code.  That two are the
\* same is shown by the passes, which go through the lines one by one.
Like(begin, code) ==
    /\ \A j \in 1..Len(starts) : starts[j] = begin[j]
    /\ \A i \in 1..Len(staged) : staged[i] = code[i]

LEMMA FirstLike ==
    ASSUME Inv, NEW begin, NEW code, Like(begin, code), FirstAccepts,
           IsTranslation(source, begin, code)
    PROVE  Like(begin, code)'
<1>1. line \in 1..Len(source) /\ staged' = staged /\ line \in 1..line
  BY LineFacts, SMT DEF Inv, FirstAccepts, Accepts
<1>2. begin[line + 1] = begin[line] + Size(Body(source[line]), begin[line])
  BY <1>1, SourceFacts DEF Inv, IsTranslation
<1>3. starts[line] = begin[line]
  BY <1>1, FirstStarts DEF Like
<1>4. starts'[line + 1] = begin[line + 1]
  BY <1>2, <1>3, FirstStarts DEF FirstAccepts, Accepts
<1>5. \A j \in 1..(line + 1) : j \in 1..line \/ j = line + 1
  BY <1>1, SourceFacts, SMT DEF Inv
<1>6. \A j \in 1..(line + 1) : starts'[j] = begin[j]
  BY <1>4, <1>5, FirstStarts DEF Like
<1> QED BY <1>1, <1>6, FirstStarts DEF Like

LEMMA SecondLike ==
    ASSUME Inv, NEW begin \in Seq(Nat), NEW code \in Seq(Byte), Like(begin, code), SecondAccepts,
           IsTranslation(source, begin, code)
    PROVE  Like(begin, code)'
<1> DEFINE b == Body(source[line])
           bytes == LineBytes(b, address, Resolved)
<1>1. /\ current_pass = 2 /\ starts' = starts /\ staged' = staged \o bytes
      /\ line \in 1..Len(source) /\ b \in Line /\ address \in Nat
  BY LineFacts DEF Inv, SecondAccepts, Accepts
<1>2. Right(source[line], address) /\ References(b) \subseteq Names
  BY NoComplaint, LineFacts DEF Inv, SecondAccepts, Accepts
<1>3. Addresses(b, Resolved)
  BY <1>2, ResolvedType DEF Addresses
<1>4. bytes \in Seq(Byte) /\ Len(bytes) \in Nat /\ Len(bytes) = Size(b, address)
  BY <1>1, <1>2, <1>3, LineBytesType DEF Right
<1>5. staged \in Seq(Byte) /\ Len(staged) \in Nat /\ Len(staged) = address
  BY <1>1, LenProperties DEF Inv, TypeOK
<1>6. starts = begin
  <2>1. Len(starts) = Len(begin) /\ Len(starts) \in Nat /\ DOMAIN starts = 1..Len(starts)
    BY <1>1, StartsFacts DEF Inv, StartsOK, IsTranslation
  <2>2. DOMAIN begin = 1..Len(begin) /\ begin = [j \in DOMAIN begin |-> begin[j]]
    BY LenProperties
  <2>3. starts = [j \in DOMAIN starts |-> starts[j]]
    BY DEF Inv, TypeOK
  <2> QED BY <2>1, <2>2, <2>3 DEF Like
<1>7. address = begin[line] /\ begin[line + 1] = address + Len(bytes)
  BY <1>1, <1>4, <1>6, SourceFacts DEF Inv, StartsOK, IsTranslation
<1>8. bytes = SubSeq(code, begin[line] + 1, begin[line + 1])
  <2>1. Resolved = PlacesOf(source, begin)
    BY <1>1, <1>6, ResolvedIsPlaced DEF Placed
  <2> QED BY <1>1, <1>7, <2>1, SourceFacts DEF Inv, IsTranslation
<1> HIDE DEF bytes, b
<1>9. \A i \in 1..Len(bytes) : bytes[i] = code[Len(staged) + i]
  <2>1. bytes = SubSeq(code, Len(staged) + 1, Len(staged) + Len(bytes))
    BY <1>5, <1>7, <1>8
  <2>2. \A i \in 1..Len(bytes) : (Len(staged) + 1) + i - 1 = Len(staged) + i
    BY <1>4, <1>5, SMT
  <2>3. \A i \in 1..((Len(staged) + Len(bytes)) - (Len(staged) + 1) + 1) :
          SubSeq(code, Len(staged) + 1, Len(staged) + Len(bytes))[i]
            = code[(Len(staged) + 1) + i - 1]
    BY <1>4, <1>5, SMT
  <2>4. (Len(staged) + Len(bytes)) - (Len(staged) + 1) + 1 = Len(bytes)
    BY <1>4, <1>5, SMT
  <2> QED BY <2>1, <2>2, <2>3, <2>4
<1>10. /\ Len(staged') = Len(staged) + Len(bytes)
       /\ \A i \in 1..(Len(staged) + Len(bytes)) :
             staged'[i] = IF i <= Len(staged) THEN staged[i] ELSE bytes[i - Len(staged)]
  BY <1>1, <1>4, <1>5, ConcatProperties
<1>11. \A i \in 1..(Len(staged) + Len(bytes)) :
          \/ i <= Len(staged) /\ i \in 1..Len(staged)
          \/ /\ ~(i <= Len(staged)) /\ i - Len(staged) \in 1..Len(bytes)
             /\ Len(staged) + (i - Len(staged)) = i
  BY <1>4, <1>5, SMT
<1>12. \A i \in 1..Len(staged') : staged'[i] = code[i]
  BY <1>9, <1>10, <1>11 DEF Like
<1> QED BY <1>1, <1>12 DEF Like

LEMMA InitLike ==
    ASSUME Init, NEW begin, NEW code, IsTranslation(source, begin, code)
    PROVE  Like(begin, code)
<1>1. starts = <<0>> /\ staged = <<>> /\ begin[1] = 0
  BY DEF Init, IsTranslation
<1> QED BY <1>1, SMT DEF Like

LEMMA NextLike ==
    ASSUME Inv, NEW begin \in Seq(Nat), NEW code \in Seq(Byte), Like(begin, code), [Next]_vars,
           IsTranslation(source, begin, code)
    PROVE  Like(begin, code)'
<1>1. CASE UNCHANGED <<staged, starts>>
  BY <1>1 DEF Like
<1>2. CASE AssembleLine
  BY <1>1, <1>2, AssembleLineCases, FirstLike, SecondLike DEF Passes
<1>3. CASE Open \/ EndPass \/ OpenOutput \/ Copy \/ Close \/ ReadFailure \/ Kill
  BY <1>1, <1>3 DEF Open, EndPass, OpenOutput, Copy, Close, ReadFailure, Kill, files, history
<1>4. CASE UNCHANGED vars
  BY <1>1, <1>4 DEF vars, files, history
<1> QED BY <1>2, <1>3, <1>4 DEF Next, Proceed

LEMMA LikeOutput ==
    ASSUME Inv, exit = 0, NEW begin \in Seq(Nat), NEW code \in Seq(Byte), Like(begin, code),
           IsTranslation(source, begin, code)
    PROVE  output = code
<1>1. current_pass = 2 /\ line = Len(source) + 1 /\ output = staged
  BY DEF Inv, PhaseOK
<1>2. /\ staged \in Seq(Byte) /\ Len(staged) = starts[line]
      /\ Len(starts) = Len(source) + 1
  BY <1>1 DEF Inv, TypeOK, StartsOK
<1>3. line \in 1..Len(starts)
  BY <1>1, <1>2, SourceFacts, SMT DEF Inv
<1>4. Len(staged) = Len(code)
  BY <1>1, <1>2, <1>3 DEF Like, IsTranslation
<1> QED BY <1>1, <1>2, <1>4, SeqEqual DEF Like

\* One source, one output: whoever assembles a source, and however often it takes
\* him, he gets the same bytes.
THEOREM OneTranslation ==
    ASSUME NEW s, NEW begin \in Seq(Nat), NEW code \in Seq(Byte), IsTranslation(s, begin, code)
    PROVE  Spec => [](source = s /\ exit = 0 => output = code)
<1> DEFINE L == source = s => Like(begin, code)
<1>1. Init => L
  BY InitLike
<1>2. Inv /\ L /\ [Next]_vars => L'
  <2>1. [Next]_vars => source' = source
    BY DEF Next, Proceed, vars, files, history, Open, AssembleLine, EndPass, OpenOutput, Copy,
           Close, ReadFailure, Kill
  <2> QED BY <2>1, NextLike
<1>3. Inv /\ L => (source = s /\ exit = 0 => output = code)
  BY LikeOutput
<1> HIDE DEF L
<1> QED BY <1>1, <1>2, <1>3, InvCorrect, PTL DEF Spec

\* The machine understands every instruction of a program the way its source
\* means it.
THEOREM MachineUnderstands == Spec => []VMUnderstands
<1>1. Inv => VMUnderstands
  <2> SUFFICES ASSUME Inv, exit = 0, NEW j \in DOMAIN source, IsInstruction(Body(source[j]))
               PROVE  LET b == Body(source[j])
                          i == Decode(SubSeq(output, starts[j] + 1, starts[j] + 4))
                      IN  /\ starts[j] % 4 = 0
                          /\ i.type * 16 + i.op = Format[b[1].text].op
                          /\ <<i.type, i.op>> \in Known
                             \/ i.raw \in {<<1, 0, 0, 0>>, <<2, 0, 0, 0>>}
                          /\ i.rd = RegField(b, 1)
                          /\ IF TakesImm(b) THEN i.imm = ImmField(b, Placed)
                                            ELSE i.rs = RegField(b, 2)
    BY DEF VMUnderstands
  <2> DEFINE b == Body(source[j])
  <2>1. current_pass = 2 /\ line = Len(source) + 1 /\ output = staged
    BY DEF Inv, PhaseOK
  <2>2. j \in 1..Len(source) /\ (Len(source) + 1) - 1 = Len(source) /\ b \in Line
    BY SourceFacts, SMT DEF Inv
  <2>3. j \in Seen
    BY <2>1, <2>2 DEF Seen
  <2>4. Right(source[j], starts[j])
    BY <2>3 DEF Inv, SeenOK
  <2>5. ~IsAlign(b) /\ ~IsString(b)
    BY DEF IsAlign, IsString, IsInstruction
  <2>6. Size(b, starts[j]) = 4
    BY <2>5 DEF Size
  <2>7. starts[j + 1] = starts[j] + 4
    BY <2>3, <2>6 DEF Inv, StartsOK
  <2>8. LineBytes(b, starts[j], Placed) = Encode(b, Placed)
    BY <2>5 DEF LineBytes
  <2>9. SubSeq(output, starts[j] + 1, starts[j] + 4) = Encode(b, Placed)
    BY <2>1, <2>2, <2>7, <2>8 DEF Inv, StagedOK, Emitted
  <2>10. Addresses(b, Placed)
    <3>1. References(b) \subseteq Names
      BY <2>1, <2>2 DEF Inv, StagedOK, Emitted
    <3>2. Placed = Resolved
      BY <2>1, ResolvedIsPlaced
    <3> QED BY <3>1, <3>2, ResolvedType DEF Addresses
  <2> QED BY <2>2, <2>4, <2>9, <2>10, DecodeOfEncode DEF Right
<1> QED BY <1>1, InvCorrect, PTL

\* All that the second pass still finds is an undefined label.
THEOREM SecondPassCorrect == Spec => FirstPassFindsAll
<1>1. Inv /\ [Next]_vars =>
        [current_pass = 2 /\ diagnostic' # diagnostic => diagnostic' = "undefined label"]_vars
  <2> SUFFICES ASSUME Inv, Next, current_pass = 2, diagnostic' # diagnostic
               PROVE  diagnostic' = "undefined label"
    OBVIOUS
  <2>1. phase # "done" => diagnostic = None
    BY DEF Inv, PhaseOK
  <2>2. CASE AssembleLine
    <3>1. /\ phase = "lines" /\ line <= Len(source)
          /\ Complaint(source[line], Body(source[line])) # None
          /\ diagnostic' = Complaint(source[line], Body(source[line]))
      BY <2>2, AssembleLineCases DEF FirstAccepts, SecondAccepts, Accepts, End
    <3>2. source[line] \in Line /\ line \in Seen
      BY <3>1, LineFacts DEF Inv, Seen
    <3>3. Right(source[line], address)
      BY <3>2 DEF Inv, SeenOK, StartsOK
    <3> QED BY <3>1, <3>2, <3>3, SecondComplaint DEF Inv
  <2>3. CASE Open \/ EndPass \/ OpenOutput \/ Copy \/ Close \/ ReadFailure \/ Kill
    BY <2>1, <2>3 DEF Open, EndPass, OpenOutput, Copy, Close, ReadFailure, Kill, End
  <2> QED BY <2>2, <2>3 DEF Next, Proceed
<1> QED BY <1>1, InvCorrect, PTL DEF Spec, FirstPassFindsAll
=============================================================================
