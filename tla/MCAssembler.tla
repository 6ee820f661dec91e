---------------------------- MODULE MCAssembler ----------------------------
(***************************************************************************)
(* Small sources for TLC: all sequences of so many lines from a set of     *)
(* lines chosen for the run.                                               *)
(***************************************************************************)
EXTENDS Assembler

SourcesOver(set, n) == [1..n -> set]

Name(t) == [kind |-> "name", text |-> t]
Mem(t) == [kind |-> "mem", text |-> t]
Dot(t) == [kind |-> "directive", text |-> t]
Num(n) == [kind |-> "number", neg |-> FALSE, wraps |-> 0, offset |-> n]
\* Minus 2^64 - n, and 2^64 + n.
MinusBig(n) == [kind |-> "number", neg |-> TRUE, wraps |-> 1, offset |-> -n]
Big(n) == [kind |-> "number", neg |-> FALSE, wraps |-> 1, offset |-> n]
Minus(n) == [kind |-> "number", neg |-> TRUE, wraps |-> 0, offset |-> n]
Str(s) == [kind |-> "string", symbols |-> s]
Colon == [kind |-> "colon"]
Junk == [kind |-> "junk"]
Long == [kind |-> "long"]

SomeTexts == {"A", "B", "R1", "R2", "HALT", "INC", "LDB", "STB", "MOVI", "CALLI", "JUMP",
              "SYSCALL", "CMP", "RET", "JZ", "JNZ", ".ALIGN", ".STRING", ".BYTE"}

\* Lines that are right, for references before and after definitions, strings
\* of odd lengths and padding; a label may be named like an instruction.
GoodLines ==
    { <<Name("A"), Colon>>,
      <<Name("A"), Colon, Name("LDB"), Name("R1"), Mem("R2")>>,
      <<Name("B"), Colon, Name("STB"), Mem("R2"), Name("R1")>>,
      <<Name("B"), Colon, Dot(".STRING"), Str(<<65, 366>>)>>,
      <<Dot(".STRING"), Str(<<65>>)>>,
      <<Dot(".ALIGN"), Num(4)>>,
      <<Name("JUMP"), Name("A")>>,
      <<Name("MOVI"), Name("R1"), Name("B")>>,
      <<Name("HALT"), Colon, Name("CALLI"), Num(1048575)>> }

\* Lines of every form, and what is wrong with them.
OddLines ==
    { <<>>, <<Name("INC"), Name("R1")>>, <<Name("CMP"), Name("R1"), Name("R2")>>, <<Name("RET")>>,
      <<Name("SYSCALL"), Num(1)>>, <<Name("JZ"), Name("A")>>, <<Name("JNZ"), Num(0)>>,
      <<Name("HALT")>>,
      <<Name("A"), Colon, Name("B"), Colon>>, <<Colon, Name("RET")>>,
      <<Name("A"), Name("B"), Colon>>, <<Junk, Colon>>,
      <<Dot(".STRING"), Str(<<65>>), Colon>>, <<Dot(".STRING"), Str(<<65, 0>>)>>,
      <<Dot(".STRING"), Str(<<>>), Str(<<>>)>>, <<Dot(".ALIGN"), Num(8)>>, <<Dot(".BYTE"), Num(1)>>,
      <<Name("SYSCALL"), Name("A")>>, <<Name("A"), Num(1)>>, <<Name("LDB"), Name("R1"), Name("R2")>>,
      <<Name("INC"), Name("B")>>, <<Long>>,
      <<Name("JUMP"), Big(0)>>, <<Name("JUMP"), Num(1048576)>>, <<Name("JUMP"), Minus(1)>>,
      <<Name("A"), Colon, Dot(".STRING"), Str(<<>>)>> }

\* Lines that fill a small program and a small table.
FillingLines ==
    { <<Name("A"), Colon, Name("HALT")>>, <<Name("B"), Colon>>, <<Name("RET"), Colon>>,
      <<Name("JZ"), Colon>>,
      <<Name("HALT")>>, <<Dot(".STRING"), Str(<<65, 66>>)>>, <<Dot(".STRING"), Str(<<>>)>>,
      <<Dot(".ALIGN"), Num(4)>>, <<Name("JUMP"), Name("B")>> }

\* Numbers at the ends of what an operand may be, and beyond 64 bits.
NumberLines ==
    {<<Name("CALLI"), n>> : n \in {Num(0), Num(1048575), Num(1048576), Minus(0), Minus(1),
                                   Big(-1), Big(0), MinusBig(0), MinusBig(1),
                                   MinusBig(1048575), MinusBig(1048576)}}

SomeSources ==
    SourcesOver(GoodLines, 4) \cup SourcesOver(OddLines, 2) \cup SourcesOver(FillingLines, 4)
NumberSources == SourcesOver(NumberLines, 1)
SomeOutputs == {NoFile, <<255>>}
=============================================================================
