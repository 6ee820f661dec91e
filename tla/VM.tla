--------------------------------- MODULE VM ---------------------------------
(***************************************************************************)
(* The virtual machine of notes/vm.c: fetch, decode and execute.  One step *)
(* is one turn of the loop in run(): it fetches the instruction at pc and  *)
(* carries it out completely, fault checks included.  The machine is one   *)
(* thread and nobody else reads its state, so a turn is atomic.            *)
(*                                                                         *)
(* Diagnostic messages are left out; the bytes a program writes with its   *)
(* system calls are not.                                                   *)
(***************************************************************************)
EXTENDS StoredLine, Instructions

CONSTANTS
    MemSize,    \* MEMORY_SIZE, 1024 * 1024 in the code
    RegCount,   \* REGISTER_COUNT, 8 in the code
    Images,     \* the program files a machine may be started with
    Inputs,     \* what the standard input may hold
    Files,      \* what line.txt may hold when the machine starts
    MaxOutput   \* bound on the bytes of output remembered

\* An address fits in the three low bytes of a word.
ASSUME MemSizeAssumption ==
    /\ MemSize \in Nat /\ 4 <= MemSize /\ MemSize <= 16777212
    /\ MemSize % 4 = 0
    /\ LineSize <= MemSize
ASSUME RegCountAssumption == RegCount \in Nat \ {0}
ASSUME ImagesAssumption == \A image \in Images : image \in Seq(Byte) /\ Len(image) <= MemSize
ASSUME InputsAssumption == Inputs \subseteq Seq(Byte)
ASSUME FilesAssumption == Files \subseteq File
ASSUME MaxOutputAssumption == MaxOutput \in Nat

VARIABLES
    mem,        \* memory: address -> byte
    pc,         \* address of the next instruction
    sp,         \* stack pointer
    regs,       \* registers: number -> word
    zero,       \* zero_flag
    running,
    stdin,      \* the bytes still to be read
    stdout,     \* the last bytes the program wrote
    line        \* the host file line.txt

vars == <<mem, pc, sp, regs, zero, running, stdin, stdout, line>>

Address == 0..(MemSize - 1)
Reg == 0..(RegCount - 1)

\* init_vm, then load_program_file: the image from address 0, zeros after it.
Init ==
    /\ \E image \in Images :
          mem = [a \in Address |-> IF a < Len(image) THEN image[a + 1] ELSE 0]
    /\ pc = 0
    /\ sp = MemSize
    /\ regs = [r \in Reg |-> <<0, 0, 0, 0>>]
    /\ zero = FALSE
    /\ running = TRUE
    /\ stdin \in Inputs
    /\ stdout = <<>>
    /\ line \in Files

-----------------------------------------------------------------------------
(* The ways a turn of the loop can end.  fetch has already advanced pc.    *)

\* check_jump_target, check_u32_memory_range and the stack checks compare
\* with the last address a whole word fits at.
LastWord == MemSize - 4

Continue == pc' = pc + 4 /\ UNCHANGED running
Stop == pc' = pc + 4 /\ running' = FALSE
           /\ UNCHANGED <<mem, sp, regs, zero, stdin, stdout, line>>
JumpTo(target) == pc' = target /\ UNCHANGED running

OnlyRegs == UNCHANGED <<mem, sp, zero, stdin, stdout, line>>
NoIO == UNCHANGED <<stdin, stdout, line>>

SetReg(r, w) == regs' = [regs EXCEPT ![r] = w]

\* The program writes bytes; the last MaxOutput of them are kept.
Emit(bytes) ==
    LET all == stdout \o bytes
    IN  stdout' = IF Len(all) <= MaxOutput THEN all
                  ELSE SubSeq(all, Len(all) - MaxOutput + 1, Len(all))

\* FetchFault with its stop forgotten.
FetchFaultIgnored ==
    running /\ pc > LastWord /\ UNCHANGED vars

FetchFault ==
    /\ running
    /\ pc > LastWord
    /\ running' = FALSE
    /\ UNCHANGED <<mem, pc, sp, regs, zero, stdin, stdout, line>>

Halt(i) == i.raw = <<1, 0, 0, 0>> /\ Stop

\* Ret that leaves its frame on the stack.
RetWithoutPop(i) ==
    /\ i.raw = <<2, 0, 0, 0>> /\ sp <= LastWord
    /\ AtMost(ReadU32(mem, sp), LastWord) /\ JumpTo(Low24(ReadU32(mem, sp)))
    /\ UNCHANGED <<mem, sp, regs, zero>> /\ NoIO

\* The return address is popped before the target is checked: a bad target
\* stops the machine with the stack pointer already moved.
Ret(i) ==
    /\ i.raw = <<2, 0, 0, 0>>
    /\ \/ sp > LastWord /\ Stop
       \/ /\ sp <= LastWord
          /\ sp' = sp + 4
          /\ LET target == ReadU32(mem, sp)
             IN  \/ AtMost(target, LastWord) /\ JumpTo(Low24(target))
                 \/ ~AtMost(target, LastWord) /\ pc' = pc + 4 /\ running' = FALSE
          /\ UNCHANGED <<mem, regs, zero>> /\ NoIO

Mov(i) ==
    /\ i.type = 1 /\ i.op = 0
    /\ \/ {i.rd, i.rs} \subseteq Reg /\ SetReg(i.rd, regs[i.rs]) /\ Continue /\ OnlyRegs
       \/ ~({i.rd, i.rs} \subseteq Reg) /\ Stop

One == <<0, 0, 0, 1>>

Inc(i) ==
    /\ i.type = 2 /\ i.op = 0
    /\ \/ i.rd \in Reg /\ SetReg(i.rd, Add(regs[i.rd], One)) /\ Continue /\ OnlyRegs
       \/ i.rd \notin Reg /\ Stop

\* Dec without the borrow that keeps a byte a byte.
DecWithoutBorrow(i) ==
    /\ i.type = 2 /\ i.op = 1 /\ i.rd \in Reg
    /\ SetReg(i.rd, [regs[i.rd] EXCEPT ![4] = @ - 1]) /\ Continue /\ OnlyRegs

Dec(i) ==
    /\ i.type = 2 /\ i.op = 1
    /\ \/ i.rd \in Reg /\ SetReg(i.rd, Sub(regs[i.rd], One)) /\ Continue /\ OnlyRegs
       \/ i.rd \notin Reg /\ Stop

AddRegs(i) ==
    /\ i.type = 2 /\ i.op = 2
    /\ \/ /\ {i.rd, i.rs} \subseteq Reg
          /\ SetReg(i.rd, Add(regs[i.rd], regs[i.rs]))
          /\ Continue /\ OnlyRegs
       \/ ~({i.rd, i.rs} \subseteq Reg) /\ Stop

SubRegs(i) ==
    /\ i.type = 2 /\ i.op = 3
    /\ \/ /\ {i.rd, i.rs} \subseteq Reg
          /\ SetReg(i.rd, Sub(regs[i.rd], regs[i.rs]))
          /\ Continue /\ OnlyRegs
       \/ ~({i.rd, i.rs} \subseteq Reg) /\ Stop

Cmp(i) ==
    /\ i.type = 2 /\ i.op = 4
    /\ \/ /\ {i.rd, i.rs} \subseteq Reg
          /\ zero' = (regs[i.rd] = regs[i.rs])
          /\ Continue /\ UNCHANGED <<mem, sp, regs>> /\ NoIO
       \/ ~({i.rd, i.rs} \subseteq Reg) /\ Stop

-----------------------------------------------------------------------------
(* Memory.                                                                 *)

InMemory(w) == AtMost(w, MemSize - 1)

Ldb(i) ==
    /\ i.type = 3 /\ i.op = 0
    /\ LET ok == {i.rd, i.rs} \subseteq Reg /\ InMemory(regs[i.rs])
       IN  \/ /\ ok
              /\ SetReg(i.rd, <<0, 0, 0, mem[Low24(regs[i.rs])]>>)
              /\ Continue /\ OnlyRegs
           \/ ~ok /\ Stop

\* Stb that stores the whole register.
StbWide(i) ==
    /\ i.type = 3 /\ i.op = 1 /\ {i.rd, i.rs} \subseteq Reg /\ AtMost(regs[i.rd], LastWord)
    /\ mem' = WriteU32(mem, Low24(regs[i.rd]), regs[i.rs])
    /\ Continue /\ UNCHANGED <<sp, regs, zero>> /\ NoIO

Stb(i) ==
    /\ i.type = 3 /\ i.op = 1
    /\ LET ok == {i.rd, i.rs} \subseteq Reg /\ InMemory(regs[i.rd])
       IN  \/ /\ ok
              /\ mem' = [mem EXCEPT ![Low24(regs[i.rd])] = regs[i.rs][4]]
              /\ Continue /\ UNCHANGED <<sp, regs, zero>> /\ NoIO
           \/ ~ok /\ Stop

Movi(i) ==
    /\ i.type = 4 /\ i.op = 0
    /\ \/ i.rd \in Reg /\ SetReg(i.rd, WordOf(i.imm)) /\ Continue /\ OnlyRegs
       \/ i.rd \notin Reg /\ Stop

Lddi(i) ==
    /\ i.type = 5 /\ i.op = 0
    /\ LET ok == i.rd \in Reg /\ i.imm <= LastWord
       IN  \/ ok /\ SetReg(i.rd, ReadU32(mem, i.imm)) /\ Continue /\ OnlyRegs
           \/ ~ok /\ Stop

Stdi(i) ==
    /\ i.type = 5 /\ i.op = 1
    /\ LET ok == i.rd \in Reg /\ i.imm <= LastWord
       IN  \/ /\ ok
              /\ mem' = WriteU32(mem, i.imm, regs[i.rd])
              /\ Continue /\ UNCHANGED <<sp, regs, zero>> /\ NoIO
           \/ ~ok /\ Stop

\* Push that stores before it moves the stack pointer.
PushInPlace(i) ==
    /\ i.type = 7 /\ i.op = 0 /\ i.rd \in Reg /\ sp >= 4
    /\ sp' = sp - 4
    /\ mem' = WriteU32(mem, sp, regs[i.rd])
    /\ Continue /\ UNCHANGED <<regs, zero>> /\ NoIO

\* Push that moves the stack pointer before it checks its register.
PushUnchecked(i) ==
    /\ i.type = 7 /\ i.op = 0 /\ sp >= 4
    /\ pc' = pc + 4 /\ running' = (i.rd \in Reg)
    /\ sp' = sp - 4
    /\ mem' = IF i.rd \in Reg THEN WriteU32(mem, sp - 4, regs[i.rd]) ELSE mem
    /\ UNCHANGED <<regs, zero>> /\ NoIO

Push(i) ==
    /\ i.type = 7 /\ i.op = 0
    /\ LET ok == i.rd \in Reg /\ sp >= 4
       IN  \/ /\ ok
              /\ sp' = sp - 4
              /\ mem' = WriteU32(mem, sp - 4, regs[i.rd])
              /\ Continue /\ UNCHANGED <<regs, zero>> /\ NoIO
           \/ ~ok /\ Stop

Pop(i) ==
    /\ i.type = 7 /\ i.op = 1
    /\ LET ok == i.rd \in Reg /\ sp <= LastWord
       IN  \/ /\ ok
              /\ SetReg(i.rd, ReadU32(mem, sp))
              /\ sp' = sp + 4
              /\ Continue /\ UNCHANGED <<mem, zero>> /\ NoIO
           \/ ~ok /\ Stop

-----------------------------------------------------------------------------
(* Control transfer.  The target is checked only when the jump is taken.   *)

UnchangedByJump == UNCHANGED <<mem, sp, regs, zero, stdin, stdout, line>>

Transfer(target) ==
    \/ target <= LastWord /\ JumpTo(target) /\ UnchangedByJump
    \/ target > LastWord /\ Stop

Jump(i) == i.type = 6 /\ i.op = 8 /\ Transfer(i.imm)

\* Calli that returns to itself.
CalliOfItself(i) ==
    /\ i.type = 6 /\ i.op = 9 /\ i.imm <= LastWord /\ sp >= 4
    /\ sp' = sp - 4
    /\ mem' = WriteU32(mem, sp - 4, WordOf(pc))
    /\ JumpTo(i.imm) /\ UNCHANGED <<regs, zero>> /\ NoIO

Calli(i) ==
    /\ i.type = 6 /\ i.op = 9
    /\ LET ok == i.imm <= LastWord /\ sp >= 4
       IN  \/ /\ ok
              /\ sp' = sp - 4
              /\ mem' = WriteU32(mem, sp - 4, WordOf(pc + 4))
              /\ JumpTo(i.imm) /\ UNCHANGED <<regs, zero>> /\ NoIO
           \/ ~ok /\ Stop

Jz(i) ==
    /\ i.type = 6 /\ i.op = 10
    /\ \/ zero /\ Transfer(i.imm)
       \/ ~zero /\ Continue /\ UnchangedByJump

Jnz(i) ==
    /\ i.type = 6 /\ i.op = 11
    /\ \/ ~zero /\ Transfer(i.imm)
       \/ zero /\ Continue /\ UnchangedByJump

-----------------------------------------------------------------------------
(* System calls.  They take their argument and leave their result in R0.   *)

Syscall(i, number) == i.type = 6 /\ i.op = 0 /\ i.imm = number

PrintChar(i) ==
    /\ Syscall(i, 0)
    /\ Emit(<<regs[0][4], LF>>)
    /\ Continue /\ UNCHANGED <<mem, sp, regs, zero, stdin, line>>

\* The string at address a ends at the first NUL, or where memory ends.
EndsAt(a, e) ==
    /\ e # MemSize => mem[e] = 0
    /\ \A x \in a..(e - 1) : mem[x] # 0

PrintString(i) ==
    /\ Syscall(i, 1)
    /\ LET a == Low24(regs[0])
       IN  \/ /\ InMemory(regs[0])
              /\ \E e \in a..MemSize : EndsAt(a, e) /\ Emit(BytesAt(mem, a, e - a))
           \/ ~InMemory(regs[0]) /\ UNCHANGED stdout
    /\ Continue /\ UNCHANGED <<mem, sp, regs, zero, stdin, line>>

ReadChar(i) ==
    /\ Syscall(i, 2)
    /\ \/ stdin = <<>> /\ Stop
       \/ /\ stdin # <<>>
          /\ SetReg(0, <<0, 0, 0, Head(stdin)>>)
          /\ stdin' = Tail(stdin)
          /\ Continue /\ UNCHANGED <<mem, sp, zero, stdout, line>>

PutChar(i) ==
    /\ Syscall(i, 3)
    /\ Emit(<<regs[0][4]>>)
    /\ Continue /\ UNCHANGED <<mem, sp, regs, zero, stdin, line>>

\* A buffer must lie in memory whole.
BufferFits(w) == AtMost(w, MemSize - LineSize)

SaveLine(i) ==
    /\ Syscall(i, 4)
    /\ \E o \in SaveOutcomes(mem, BufferFits(regs[0]), Low24(regs[0]), line) :
          SetReg(0, WordOf(o.result)) /\ line' = o.file
    /\ Continue /\ UNCHANGED <<mem, sp, zero, stdin, stdout>>

LoadLine(i) ==
    /\ Syscall(i, 5)
    /\ \E o \in LoadOutcomes(mem, BufferFits(regs[0]), Low24(regs[0]), line) :
          SetReg(0, WordOf(o.result)) /\ mem' = o.mem
    /\ Continue /\ UNCHANGED <<sp, zero, stdin, stdout, line>>

Unknown(i) ==
    /\ i.raw \notin {<<1, 0, 0, 0>>, <<2, 0, 0, 0>>}
    /\ <<i.type, i.op>> \notin Known \/ (i.type = 6 /\ i.op = 0 /\ i.imm > 5)
    /\ Stop

-----------------------------------------------------------------------------
Execute(i) ==
    \/ Halt(i) \/ Ret(i) \/ Mov(i) \/ Inc(i) \/ Dec(i) \/ AddRegs(i) \/ SubRegs(i)
    \/ Cmp(i) \/ Ldb(i) \/ Stb(i) \/ Movi(i) \/ Lddi(i) \/ Stdi(i) \/ Push(i)
    \/ Pop(i) \/ Jump(i) \/ Calli(i) \/ Jz(i) \/ Jnz(i) \/ PrintChar(i)
    \/ PrintString(i) \/ ReadChar(i) \/ PutChar(i) \/ SaveLine(i) \/ LoadLine(i)
    \/ Unknown(i)

\* The instruction at pc, while the machine runs and a whole word is there.
CanFetch == running /\ pc <= LastWord
Fetched == Decode(ReadU32(mem, pc))

Next == FetchFault \/ (CanFetch /\ Execute(Fetched))

Spec == Init /\ [][Next]_vars

TypeOK ==
    /\ mem \in [Address -> Byte]
    /\ pc \in 0..MemSize
    /\ sp \in 0..MemSize
    /\ regs \in [Reg -> Word]
    /\ zero \in BOOLEAN
    /\ running \in BOOLEAN
    /\ stdin \in Seq(Byte)
    /\ stdout \in Seq(Byte)
    /\ line \in File
=============================================================================
