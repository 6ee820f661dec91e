-------------------------------- MODULE MCVM --------------------------------
(***************************************************************************)
(* Small machines for TLC.  Their images are all programs of four          *)
(* instructions on the stack, and all of two instructions of any kind.     *)
(***************************************************************************)
EXTENDS VMStack, SequencesExt

CONSTANTS
    StackLength,    \* instructions of a program on the stack
    FaultLength,    \* instructions of a program of any kind
    CodeSize        \* bytes kept for code; the data of an image follow

Zeros(n) == [i \in 1..n |-> 0]

\* An image: the program's instruction words, zeros up to CodeSize, the data.
ImageOf(program, data) ==
    LET code == FoldLeft(LAMBDA bytes, w : bytes \o w, <<>>, program)
    IN  code \o Zeros(CodeSize - Len(code)) \o data
ProgramsOver(instructions, n, data) ==
    {ImageOf(p, data) : p \in [1..n -> instructions]}

\* Pushes, pops, calls and returns, balanced or not; a store that hits the
\* stack; a bad return address; and LDDI R1, 4, with which a program can fill
\* memory with its own PUSH and run the stack into its lower end.
StackInstructions ==
    { <<1, 0, 0, 0>>,       \* HALT
      <<2, 0, 0, 0>>,       \* RET
      <<112, 0, 0, 0>>,     \* PUSH R0
      <<112, 16, 0, 0>>,    \* PUSH R1
      <<113, 16, 0, 0>>,    \* POP R1
      <<105, 0, 0, 8>>,     \* CALLI 8
      <<64, 16, 0, 25>>,    \* MOVI R1, 25
      <<80, 16, 0, 4>>,     \* LDDI R1, 4
      <<81, 0, 0, 18>>,     \* STDI R0, 18
      <<104, 0, 0, 4>> }    \* JUMP 4
StackImages == ProgramsOver(StackInstructions, StackLength, <<>>)

\* Every instruction, with operands that are good and bad for a machine of 28
\* bytes, two registers and lines of four bytes.
EveryInstruction ==
    { <<1, 0, 0, 0>>, <<2, 0, 0, 0>>,                       \* HALT, RET
      <<1, 0, 0, 1>>, <<0, 0, 0, 0>>, <<128, 0, 0, 0>>,     \* unknown
      <<16, 16, 0, 0>>, <<16, 32, 0, 0>>, <<16, 2, 0, 0>>,  \* MOV
      <<32, 0, 0, 0>>, <<32, 32, 0, 0>>,                    \* INC
      <<33, 0, 0, 0>>, <<33, 32, 0, 0>>,                    \* DEC
      <<34, 1, 0, 0>>, <<34, 2, 0, 0>>,                     \* ADD
      <<35, 16, 0, 0>>, <<35, 2, 0, 0>>,                    \* SUB
      <<36, 1, 0, 0>>, <<36, 32, 0, 0>>,                    \* CMP
      <<48, 16, 0, 0>>, <<48, 32, 0, 0>>,                   \* LDB
      <<49, 1, 0, 0>>, <<49, 2, 0, 0>>,                     \* STB
      <<64, 0, 0, 24>>, <<64, 0, 0, 28>>, <<64, 32, 0, 0>>, \* MOVI
      <<80, 0, 0, 24>>, <<80, 0, 0, 25>>, <<80, 32, 0, 0>>, \* LDDI
      <<81, 0, 0, 24>>, <<81, 0, 0, 25>>, <<81, 32, 0, 0>>, \* STDI
      <<112, 0, 0, 0>>, <<112, 32, 0, 0>>,                  \* PUSH
      <<113, 16, 0, 0>>, <<113, 32, 0, 0>>,                 \* POP
      <<104, 0, 0, 24>>, <<104, 0, 0, 25>>,                 \* JUMP
      <<105, 0, 0, 0>>, <<105, 0, 0, 25>>,                  \* CALLI
      <<106, 0, 0, 20>>,<<106, 0, 0, 25>>,                  \* JZ
      <<107, 0, 0, 20>>,<<107, 0, 0, 25>>,                  \* JNZ
      <<96, 0, 0, 0>>, <<96, 0, 0, 1>>, <<96, 0, 0, 2>>, <<96, 0, 0, 3>>,
      <<96, 0, 0, 4>>, <<96, 0, 0, 5>>, <<96, 0, 0, 6>> }   \* SYSCALL
\* The data end in a string that no NUL terminates.
FaultImages == ProgramsOver(EveryInstruction, FaultLength, <<65, 0, 66, 67>>)

AllImages == StackImages \cup FaultImages
SomeInput == {<<>>, <<65>>}
\* No file, a line that fits, one that is too long, one with an LF in it.
SomeFiles == {NoFile, <<65>>, <<65, 66, 67, 68>>, <<65, LF>>}
=============================================================================
