------------------------------ MODULE AsmLine ------------------------------
(***************************************************************************)
(* One line of a source of tools/small-asm.c: what it defines, whether it  *)
(* is well-formed, how many bytes it takes and which ones.  All operators  *)
(* are pure; Assembler goes through a source with them, twice.             *)
(*                                                                         *)
(* A line is the sequence of its lexemes, as normalize_line leaves them:   *)
(* comments are gone, and text outside quotes is in upper case.  A comma   *)
(* in an instruction counts as a space, anywhere else as junk.             *)
(*   name       a text that valid_label accepts; mnemonics and registers   *)
(*              are names too                                              *)
(*   mem        [text], a register in brackets                             *)
(*   number     what strtoul reads to its end: a sign and a magnitude, the *)
(*              latter as wraps * 2^64 + offset                            *)
(*   string     a quoted string: printable bytes, 256 + c for \c, and 0    *)
(*              where the line ends before the quote does                  *)
(*   directive  a text that starts with a dot                              *)
(*   colon      a colon outside quotes                                     *)
(*   junk       anything else                                              *)
(*   long       alone on its line: the line does not fit in 256 bytes      *)
(***************************************************************************)
EXTENDS Instructions, Sequences

CONSTANT Texts  \* the texts of names, memory operands and directives

Lexeme ==
    [kind : {"name", "mem", "directive"}, text : Texts]
    \cup [kind : {"number"}, neg : BOOLEAN, wraps : {0, 1}, offset : Int]
    \cup [kind : {"string"}, symbols : Seq(Nat)]
    \cup [kind : {"colon", "junk", "long"}]

IsLong(l) == l # <<>> /\ l[1].kind = "long"

-----------------------------------------------------------------------------
(* prepare_line: the label a line defines and the rest of it.              *)

Colons(l) == {c \in DOMAIN l : l[c].kind = "colon"}

\* A colon behind a quote belongs to no label.
LabelColons(l) == {c \in Colons(l) : \A i \in 1..(c - 1) : l[i].kind # "string"}

\* A second colon is refused anywhere, and so is anything but one name before
\* the colon of a label.
BadLabel(l) ==
    \/ \E c, d \in Colons(l) : c # d
    \/ \E c \in LabelColons(l) : c # 2 \/ l[1].kind # "name"

HasLabel(l) == LabelColons(l) # {} /\ ~BadLabel(l)
LabelName(l) == l[1].text
Body(l) == IF HasLabel(l) THEN SubSeq(l, 3, Len(l)) ELSE l

-----------------------------------------------------------------------------
(* Operands.                                                               *)

RegNumber == [R0 |-> 0, R1 |-> 1, R2 |-> 2, R3 |-> 3,
              R4 |-> 4, R5 |-> 5, R6 |-> 6, R7 |-> 7]

\* strtoul: a minus sign negates modulo 2^64, a magnitude of 2^64 or more sets
\* errno.  The result is <<wraps, offset>>, standing for wraps * 2^64 + offset.
Strtoul(x) ==
    IF x.neg /\ (x.wraps = 1 \/ x.offset # 0) THEN <<1 - x.wraps, -x.offset>>
                                              ELSE <<x.wraps, x.offset>>
Overflows(x) == x.wraps = 1 /\ x.offset >= 0

\* parse_imm20 checks the range of what strtoul returned.
IsImm20(x) ==
    /\ x.kind = "number" /\ ~Overflows(x)
    /\ Strtoul(x)[1] = 0 /\ 0 <= Strtoul(x)[2] /\ Strtoul(x)[2] <= 1048575

Imm20(x) == Strtoul(x)[2]

Fits(operand, x) ==
    \/ operand = "reg" /\ x.kind = "name" /\ x.text \in DOMAIN RegNumber
    \/ operand = "mem" /\ x.kind = "mem" /\ x.text \in DOMAIN RegNumber
    \/ operand \in {"imm", "target"} /\ IsImm20(x)
    \/ operand = "target" /\ x.kind = "name"

-----------------------------------------------------------------------------
(* assemble_line and assemble_directive.                                   *)

\* The mnemonics, their type and op as a byte, and the operands they take.
Format ==
    [HALT    |-> [op |-> 1,   takes |-> <<>>],
     RET     |-> [op |-> 2,   takes |-> <<>>],
     SYSCALL |-> [op |-> 96,  takes |-> <<"imm">>],
     MOVI    |-> [op |-> 64,  takes |-> <<"reg", "target">>],
     INC     |-> [op |-> 32,  takes |-> <<"reg">>],
     LDB     |-> [op |-> 48,  takes |-> <<"reg", "mem">>],
     STB     |-> [op |-> 49,  takes |-> <<"mem", "reg">>],
     CMP     |-> [op |-> 36,  takes |-> <<"reg", "reg">>],
     JUMP    |-> [op |-> 104, takes |-> <<"target">>],
     CALLI   |-> [op |-> 105, takes |-> <<"target">>],
     JZ      |-> [op |-> 106, takes |-> <<"target">>],
     JNZ     |-> [op |-> 107, takes |-> <<"target">>]]

Takes(b) == Format[b[1].text].takes

IsInstruction(b) ==
    /\ b # <<>> /\ b[1].kind = "name" /\ b[1].text \in DOMAIN Format
    /\ Len(b) = Len(Takes(b)) + 1
    /\ \A k \in 1..Len(Takes(b)) : Fits(Takes(b)[k], b[k + 1])

IsAlign(b) ==
    /\ Len(b) = 2 /\ b[1].kind = "directive" /\ b[1].text = ".ALIGN"
    /\ IsImm20(b[2]) /\ Imm20(b[2]) = 4

\* The letters that may follow a backslash.
Escapes == {110, 114, 116, 92, 34}
Escaped(c) == CASE c = 110 -> 10 [] c = 114 -> 13 [] c = 116 -> 9 [] OTHER -> c

\* A printable byte, quote and backslash apart, or an escape.
IsSymbol(s) == s \in (32..126) \ {34, 92} \/ s - 256 \in Escapes
SymbolByte(s) == IF s < 256 THEN s ELSE Escaped(s - 256)

IsString(b) ==
    /\ Len(b) = 2 /\ b[1].kind = "directive" /\ b[1].text = ".STRING"
    /\ b[2].kind = "string"
    /\ \A i \in DOMAIN b[2].symbols : IsSymbol(b[2].symbols[i])

WellFormed(b) == b = <<>> \/ IsAlign(b) \/ IsString(b) \/ IsInstruction(b)

\* The labels an instruction refers to.
References(b) ==
    IF IsInstruction(b)
    THEN {b[k + 1].text : k \in {k \in 1..Len(Takes(b)) :
                                    Takes(b)[k] = "target" /\ b[k + 1].kind = "name"}}
    ELSE {}

-----------------------------------------------------------------------------
(* Sizes and bytes.  A label has the address at[label].                    *)

Padding(a) == (4 - (a % 4)) % 4

Size(b, a) ==
    IF IsAlign(b) THEN Padding(a)
    ELSE IF IsString(b) THEN Len(b[2].symbols) + 1
    ELSE IF IsInstruction(b) THEN 4
    ELSE 0

\* The number of the register that is the k-th operand, if there is one.
RegField(b, k) ==
    IF k <= Len(Takes(b)) /\ Takes(b)[k] \in {"reg", "mem"} THEN RegNumber[b[k + 1].text]
                                                           ELSE 0

\* An immediate is always the last operand.
TakesImm(b) == Takes(b) # <<>> /\ Takes(b)[Len(Takes(b))] \in {"imm", "target"}
ImmField(b, at) ==
    LET x == b[Len(b)]
    IN  IF ~TakesImm(b) THEN 0
        ELSE IF x.kind = "name" THEN at[x.text]
        ELSE Imm20(x)

\* Encode with rd and rs in each other's place.
EncodeSwapped(b, at) ==
    LET imm == ImmField(b, at)
    IN  <<Format[b[1].text].op, RegField(b, 2) * 16 + RegField(b, 1) + (imm \div 65536),
          (imm \div 256) % 256, imm % 256>>

Encode(b, at) ==
    LET imm == ImmField(b, at)
    IN  <<Format[b[1].text].op,
          RegField(b, 1) * 16 + RegField(b, 2) + (imm \div 65536),
          (imm \div 256) % 256,
          imm % 256>>

LineBytes(b, a, at) ==
    IF IsAlign(b) THEN [i \in 1..Padding(a) |-> 0]
    ELSE IF IsString(b)
         THEN Append([i \in DOMAIN b[2].symbols |-> SymbolByte(b[2].symbols[i])], 0)
    ELSE IF IsInstruction(b) THEN Encode(b, at)
    ELSE <<>>

-----------------------------------------------------------------------------
(* Sources.                                                                *)

\* A source's own meaning of its labels, when its lines begin at starts: a label
\* is where the line that defines it begins.
Defines(l, n) == HasLabel(l) /\ LabelName(l) = n
PlacesOf(s, starts) ==
    [n \in {LabelName(s[j]) : j \in {j \in DOMAIN s : HasLabel(s[j])}} |->
        starts[CHOOSE j \in DOMAIN s : Defines(s[j], n)]]

\* The bytes of each line, one line after the other, with every reference to a
\* label replaced by the place of the one line that defines it.
IsTranslation(s, starts, code) ==
    /\ Len(starts) = Len(s) + 1 /\ starts[1] = 0
    /\ Len(code) = starts[Len(s) + 1]
    /\ \A j \in DOMAIN s :
          /\ starts[j + 1] = starts[j] + Size(Body(s[j]), starts[j])
          /\ SubSeq(code, starts[j] + 1, starts[j + 1])
                 = LineBytes(Body(s[j]), starts[j], PlacesOf(s, starts))
=============================================================================
