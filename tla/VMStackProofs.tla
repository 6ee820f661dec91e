---------------------------- MODULE VMStackProofs ----------------------------
(***************************************************************************)
(* The stack discipline that VMStack states, proved for every size of      *)
(* memory, every program file and every input.                             *)
(*                                                                         *)
(* HInv is inductive: the depth of the stack is needed to know that a RET  *)
(* or POP that finds no word to take finds no frame either, and the types  *)
(* to know that the words written and read lie inside memory.              *)
(***************************************************************************)
EXTENDS VMStack, VMProofs

USE Sizes

HInv == HTypeOK /\ StackDepth /\ StackHoldsFrames

RetWord == <<2, 0, 0, 0>>

-----------------------------------------------------------------------------
(* What one instruction can do to the stack.                               *)

Keeps == mem' = mem /\ sp' = sp /\ frames' = frames

Grows ==
    /\ sp >= 4 /\ sp' = sp - 4
    /\ Pushed(Fetched) \in Word
    /\ mem' = WriteU32(mem, sp - 4, Pushed(Fetched))
    /\ frames' = Append(frames, Pushed(Fetched))

Shrinks ==
    /\ sp <= LastWord /\ sp' = sp + 4
    /\ mem' = mem
    /\ frames' = IF frames # <<>> THEN SubSeq(frames, 1, Len(frames) - 1) ELSE frames

StoresElsewhere ==
    /\ sp' = sp /\ frames' = frames
    /\ mem' \in [Address -> Byte]
    /\ \A x \in Address \ Stored(Fetched) : mem'[x] = mem[x]

LEMMA StopFrames ==
    ASSUME Observe, CanFetch, Stop, Fetched.raw # RetWord
    PROVE  Keeps
BY DEF Observe, FramesAfter, Succeeds, Stop, Keeps, RetWord

LEMMA QuietFrames ==
    ASSUME Observe, CanFetch, ~Pushes(Fetched), ~Calls(Fetched), ~Takes(Fetched)
    PROVE  frames' = frames
BY DEF Observe, FramesAfter

LEMMA ContinueRuns ==
    ASSUME CanFetch, Continue
    PROVE  running'
BY DEF CanFetch, Continue

LEMMA JumpRuns ==
    ASSUME CanFetch, NEW STATE target, JumpTo(target)
    PROVE  running'
BY DEF CanFetch, JumpTo

\* An instruction whose type is not 0 is not a RET.
LEMMA TypedIsNoRet ==
    ASSUME TypeOK, CanFetch, Fetched.type # 0
    PROVE  Fetched.raw # RetWord
BY FetchedFields DEF RetWord

LEMMA EmptyAtTop ==
    ASSUME HTypeOK, StackDepth, sp > LastWord
    PROVE  frames = <<>>
<1>1. Len(frames) \in Nat /\ (frames # <<>> => Len(frames) # 0)
  BY LenProperties, EmptySeq DEF HTypeOK
<1>2. Len(frames) = 0
  BY <1>1, SMT DEF StackDepth, LastWord
<1> QED BY <1>1, <1>2

LEMMA TransferKeeps ==
    ASSUME TypeOK, CanFetch, Observe, NEW STATE target, Transfer(target),
           Fetched.type = 6, Fetched.op # 9
    PROVE  Keeps
<1>1. Fetched.raw # RetWord
  BY TypedIsNoRet
<1>2. CASE JumpTo(target) /\ UnchangedByJump
  <2>1. frames' = frames
    BY <1>1, QuietFrames DEF Pushes, Calls, Takes, RetWord
  <2> QED BY <1>2, <2>1 DEF UnchangedByJump, Keeps
<1> QED BY <1>1, <1>2, StopFrames DEF Transfer

\* Every instruction keeps the stack, pushes a word, takes one, or stores
\* elsewhere than where its Stored says.
LEMMA StackEffect ==
    ASSUME HTypeOK, StackDepth, CanFetch, Execute(Fetched), Observe
    PROVE  Keeps \/ Grows \/ Shrinks \/ StoresElsewhere
<1> DEFINE i == Fetched
<1>0. /\ TypeOK
      /\ i.imm \in Nat /\ i.raw \in Word
      /\ i.type # 0 => i.raw # RetWord
      /\ (i.type \notin {0, 6, 7} => /\ frames' = frames
                                     /\ Stop => Keeps)
  <2>1. TypeOK
    BY DEF HTypeOK
  <2>2. i.type # 0 => i.raw # RetWord
    BY <2>1, TypedIsNoRet
  <2>3. i.type \notin {0, 6, 7} => frames' = frames
    BY <2>2, QuietFrames DEF Pushes, Calls, Takes, RetWord
  <2> QED BY <2>1, <2>2, <2>3, FetchedFields, StopFrames
<1>1. CASE i.raw # RetWord /\ Stop
  BY <1>1, StopFrames
<1>2. CASE frames' = frames /\ OnlyRegs
  BY <1>2 DEF OnlyRegs, Keeps
<1>3. CASE Halt(i)
  <2>1. i.raw # RetWord
    BY <1>3, SMT DEF Halt, RetWord
  <2> QED BY <1>1, <1>3, <2>1 DEF Halt
<1>4. CASE Ret(i)
  <2>1. i.raw = RetWord /\ i.type = 0
    BY <1>0, <1>4 DEF Ret, RetWord
  <2>2. CASE sp > LastWord /\ Stop
    <3>1. frames = <<>>
      BY <2>2, EmptyAtTop
    <3>2. frames' = frames
      BY <2>1, <3>1 DEF Observe, FramesAfter, Pushes, Calls
    <3> QED BY <2>2, <3>2 DEF Stop, Keeps
  <2>3. CASE sp <= LastWord /\ sp' = sp + 4 /\ mem' = mem
    <3>1. frames' = IF frames # <<>> THEN SubSeq(frames, 1, Len(frames) - 1) ELSE frames
      BY <2>1 DEF Observe, FramesAfter, Pushes, Calls, Takes, Succeeds, RetWord
    <3> QED BY <2>3, <3>1 DEF Shrinks
  <2> QED BY <1>4, <2>2, <2>3 DEF Ret
<1>5. CASE Mov(i)
  BY <1>0, <1>2, <1>5 DEF Mov
<1>6. CASE Inc(i)
  BY <1>0, <1>2, <1>6 DEF Inc
<1>7. CASE Dec(i)
  BY <1>0, <1>2, <1>7 DEF Dec
<1>8. CASE AddRegs(i)
  BY <1>0, <1>2, <1>8 DEF AddRegs
<1>9. CASE SubRegs(i)
  BY <1>0, <1>2, <1>9 DEF SubRegs
<1>10. CASE Cmp(i)
  BY <1>0, <1>10 DEF Cmp, Keeps
<1>11. CASE Ldb(i)
  BY <1>0, <1>2, <1>11 DEF Ldb
<1>12. CASE Stb(i)
  <2>1. CASE Stop
    BY <1>0, <1>12, <2>1 DEF Stb
  <2>2. CASE /\ {i.rd, i.rs} \subseteq Reg /\ InMemory(regs[i.rd])
             /\ mem' = [mem EXCEPT ![Low24(regs[i.rd])] = regs[i.rs][4]]
             /\ Continue /\ UNCHANGED <<sp, regs, zero>> /\ NoIO
    <3>1. Stored(i) = {Low24(regs[i.rd])}
      BY <1>12, <2>2, ContinueRuns DEF Stb, Stored, Syscall
    <3>2. regs[i.rs][4] \in Byte
      BY <1>0, <2>2 DEF TypeOK, Word
    <3>3. \A x \in Address \ Stored(i) : mem'[x] = mem[x]
      BY <1>0, <2>2, <3>1 DEF TypeOK
    <3>4. mem' \in [Address -> Byte]
      BY <1>0, <2>2, <3>2 DEF TypeOK
    <3> QED BY <1>0, <1>12, <2>2, <3>3, <3>4 DEF Stb, StoresElsewhere
  <2> QED BY <1>12, <2>1, <2>2 DEF Stb
<1>13. CASE Movi(i)
  BY <1>0, <1>2, <1>13 DEF Movi
<1>14. CASE Lddi(i)
  BY <1>0, <1>2, <1>14 DEF Lddi
<1>15. CASE Stdi(i)
  <2>1. CASE Stop
    BY <1>0, <1>15, <2>1 DEF Stdi
  <2>2. CASE /\ i.rd \in Reg /\ i.imm <= LastWord
             /\ mem' = WriteU32(mem, i.imm, regs[i.rd])
             /\ Continue /\ UNCHANGED <<sp, regs, zero>> /\ NoIO
    <3>1. Stored(i) = i.imm..(i.imm + 3)
      BY <1>15, <2>2, ContinueRuns DEF Stdi, Stored, Syscall
    <3>2. \A x \in Address \ Stored(i) : mem'[x] = mem[x]
      BY <1>0, <2>2, <3>1 DEF WriteU32, TypeOK
    <3>3. mem' \in [Address -> Byte]
      BY <1>0, <2>2, ImmAddress, WriteU32Type DEF TypeOK, Address
    <3> QED BY <1>0, <1>15, <2>2, <3>2, <3>3 DEF Stdi, StoresElsewhere
  <2> QED BY <1>15, <2>1, <2>2 DEF Stdi
<1>16. CASE Push(i)
  <2>1. CASE Stop
    BY <1>0, <1>1, <1>16, <2>1 DEF Push
  <2>2. CASE /\ i.rd \in Reg /\ sp >= 4
             /\ sp' = sp - 4
             /\ mem' = WriteU32(mem, sp - 4, regs[i.rd])
             /\ Continue /\ UNCHANGED <<regs, zero>> /\ NoIO
    <3>1. Pushed(i) = regs[i.rd] /\ Pushed(i) \in Word
      BY <1>0, <1>16, <2>2 DEF Push, Pushed, Calls, TypeOK
    <3>2. frames' = Append(frames, Pushed(i))
      BY <1>16, <2>2, ContinueRuns DEF Push, Observe, FramesAfter, Pushes, Succeeds
    <3> QED BY <2>2, <3>1, <3>2 DEF Grows
  <2> QED BY <1>16, <2>1, <2>2 DEF Push
<1>17. CASE Pop(i)
  <2>1. CASE Stop
    BY <1>0, <1>1, <1>17, <2>1 DEF Pop
  <2>2. CASE /\ i.rd \in Reg /\ sp <= LastWord
             /\ SetReg(i.rd, ReadU32(mem, sp))
             /\ sp' = sp + 4
             /\ Continue /\ UNCHANGED <<mem, zero>> /\ NoIO
    <3>1. frames' = IF frames # <<>> THEN SubSeq(frames, 1, Len(frames) - 1) ELSE frames
      BY <1>17, <2>2, ContinueRuns
         DEF Pop, Observe, FramesAfter, Pushes, Calls, Takes, Succeeds
    <3> QED BY <2>2, <3>1 DEF Shrinks
  <2> QED BY <1>17, <2>1, <2>2 DEF Pop
<1>18. CASE Jump(i)
  BY <1>0, <1>18, TransferKeeps DEF Jump
<1>19. CASE Calli(i)
  <2>1. CASE Stop
    BY <1>0, <1>1, <1>19, <2>1 DEF Calli
  <2>2. CASE /\ i.imm <= LastWord /\ sp >= 4
             /\ sp' = sp - 4
             /\ mem' = WriteU32(mem, sp - 4, WordOf(pc + 4))
             /\ JumpTo(i.imm) /\ UNCHANGED <<regs, zero>> /\ NoIO
    <3>1. pc + 4 \in Nat
      BY <1>0, SMT DEF TypeOK
    <3>2. Pushed(i) = WordOf(pc + 4) /\ Pushed(i) \in Word
      BY <1>19, <3>1, WordOfType DEF Calli, Pushed, Calls
    <3>3. frames' = Append(frames, Pushed(i))
      BY <1>19, <2>2, JumpRuns DEF Calli, Observe, FramesAfter, Calls, Succeeds
    <3> QED BY <2>2, <3>2, <3>3 DEF Grows
  <2> QED BY <1>19, <2>1, <2>2 DEF Calli
<1>20. CASE Jz(i)
  <2>1. CASE Continue /\ UnchangedByJump
    <3>1. frames' = frames
      BY <1>0, <1>20, QuietFrames DEF Jz, Pushes, Calls, Takes, RetWord
    <3> QED BY <2>1, <3>1 DEF UnchangedByJump, Keeps
  <2> QED BY <1>0, <1>20, <2>1, TransferKeeps DEF Jz
<1>21. CASE Jnz(i)
  <2>1. CASE Continue /\ UnchangedByJump
    <3>1. frames' = frames
      BY <1>0, <1>21, QuietFrames DEF Jnz, Pushes, Calls, Takes, RetWord
    <3> QED BY <2>1, <3>1 DEF UnchangedByJump, Keeps
  <2> QED BY <1>0, <1>21, <2>1, TransferKeeps DEF Jnz
<1>22. ASSUME NEW number, Syscall(i, number)
       PROVE  frames' = frames /\ i.raw # RetWord
  BY <1>0, <1>22, QuietFrames DEF Syscall, Pushes, Calls, Takes, RetWord
<1>23. CASE PrintChar(i)
  BY <1>22, <1>23 DEF PrintChar, Keeps
<1>24. CASE PrintString(i)
  BY <1>22, <1>24 DEF PrintString, Keeps
<1>25. CASE ReadChar(i)
  BY <1>1, <1>22, <1>25 DEF ReadChar, Keeps
<1>26. CASE PutChar(i)
  BY <1>22, <1>26 DEF PutChar, Keeps
<1>27. CASE SaveLine(i)
  BY <1>22, <1>27 DEF SaveLine, Keeps
<1>28. CASE LoadLine(i)
  <2>1. PICK o \in LoadOutcomes(mem, BufferFits(regs[0]), Low24(regs[0]), line) :
           SetReg(0, WordOf(o.result)) /\ mem' = o.mem
    BY <1>28 DEF LoadLine
  <2>2. sp' = sp /\ frames' = frames
    BY <1>22, <1>28 DEF LoadLine
  <2>3. CASE o.mem = mem
    BY <2>1, <2>2, <2>3 DEF Keeps
  <2>4. CASE o.mem # mem
    <3>1. /\ BufferFits(regs[0]) /\ line \in Seq(Byte) /\ Loadable(line)
          /\ o.result = 0 /\ o.mem = PlaceLine(mem, Low24(regs[0]), line)
      BY <1>0, <2>4 DEF LoadOutcomes, TypeOK, File
    <3>2. Stored(i) = Low24(regs[0])..(Low24(regs[0]) + LineSize - 1)
      <4>1. regs'[0] = WordOf(0)
        BY <1>0, <2>1, <3>1, RegZero DEF SetReg, TypeOK
      <4>2. i.type = 6 /\ i.op = 0 /\ Syscall(i, 5)
        BY <1>28 DEF LoadLine, Syscall
      <4> QED BY <4>1, <4>2 DEF Stored
    <3>3. Len(line) \in Nat /\ Len(line) < LineSize
      BY <3>1, LenProperties DEF Loadable
    <3>4. Low24(regs[0]) \in Nat
      BY <1>0, RegZero, Low24Type
    <3>5. \A x \in Address \ Stored(i) :
             x \notin Low24(regs[0])..(Low24(regs[0]) + Len(line) - 1)
             /\ x # Low24(regs[0]) + Len(line)
      BY <3>2, <3>3, <3>4, SMT DEF Address
    <3>6. \A x \in Address \ Stored(i) : mem'[x] = mem[x]
      BY <1>0, <2>1, <3>1, <3>5 DEF PlaceLine, TypeOK
    <3>7. mem' \in [Address -> Byte]
      BY <1>0, <2>1, LoadOutcomesType
    <3> QED BY <2>2, <3>6, <3>7 DEF StoresElsewhere
  <2> QED BY <2>3, <2>4
<1>29. CASE Unknown(i)
  BY <1>1, <1>29 DEF Unknown, RetWord
<1> QED BY <1>3, <1>4, <1>5, <1>6, <1>7, <1>8, <1>9, <1>10, <1>11, <1>12, <1>13, <1>14,
           <1>15, <1>16, <1>17, <1>18, <1>19, <1>20, <1>21, <1>23, <1>24, <1>25, <1>26,
           <1>27, <1>28, <1>29 DEF Execute

-----------------------------------------------------------------------------
(* The invariant is inductive.                                             *)

LEMMA FrameAddress ==
    ASSUME StackDepth, HTypeOK, NEW k \in 1..Len(frames)
    PROVE  MemSize - 4 * k \in sp..(MemSize - 4) /\ MemSize - 4 * k \in Int /\ sp \in Int
<1>1. Len(frames) \in Nat
  BY LenProperties DEF HTypeOK
<1> QED BY <1>1, SMT DEF StackDepth, HTypeOK, TypeOK

\* StackHoldsFrames in the next state.
LEMMA HoldsNext ==
    ASSUME ~clobbered' => \A k \in 1..Len(frames') :
                             ReadU32(mem', MemSize - 4 * k) = frames'[k]
    PROVE  StackHoldsFrames'
BY DEF StackHoldsFrames, ReadU32

LEMMA KeepsStep ==
    ASSUME HInv, Keeps, clobbered => clobbered'
    PROVE  StackDepth' /\ StackHoldsFrames' /\ frames' \in Seq(Word)
<1>1. StackDepth'
  BY DEF HInv, Keeps, StackDepth
<1>2. ~clobbered' => \A k \in 1..Len(frames') :
                        ReadU32(mem', MemSize - 4 * k) = frames'[k]
  BY DEF HInv, Keeps, StackHoldsFrames
<1> QED BY <1>1, <1>2, HoldsNext DEF HInv, HTypeOK, Keeps

LEMMA StoresElsewhereStep ==
    ASSUME HInv, StoresElsewhere,
           clobbered' = (clobbered \/ Stored(Fetched) \cap (sp..(MemSize - 1)) # {})
    PROVE  StackDepth' /\ StackHoldsFrames' /\ frames' \in Seq(Word)
<1>1. StackDepth'
  BY DEF HInv, StoresElsewhere, StackDepth
<1>2. ASSUME ~clobbered', NEW k \in 1..Len(frames')
      PROVE  ReadU32(mem', MemSize - 4 * k) = frames'[k]
  <2>1. ~clobbered /\ \A x \in sp..(MemSize - 1) : x \notin Stored(Fetched)
    BY <1>2
  <2>2. k \in 1..Len(frames) /\ frames'[k] = frames[k]
    BY <1>2 DEF StoresElsewhere
  <2>3. MemSize - 4 * k \in sp..(MemSize - 4) /\ MemSize - 4 * k \in Int /\ sp \in Int /\ sp >= 0
    BY <2>2, FrameAddress DEF HInv, HTypeOK, TypeOK
  <2> DEFINE a == MemSize - 4 * k
  <2>4. ReadU32(mem, a) = frames[k]
    BY <2>1, <2>2 DEF HInv, StackHoldsFrames
  <2> HIDE DEF a
  <2>5. \A j \in 1..4 : a + j - 1 \in sp..(MemSize - 1) /\ a + j - 1 \in Address
    BY <2>3, SMT DEF Address, a
  <2>6. \A j \in 1..4 : mem'[a + j - 1] = mem[a + j - 1]
    BY <2>1, <2>5 DEF StoresElsewhere
  <2>7. ReadU32(mem', a) = ReadU32(mem, a)
    BY <2>6 DEF ReadU32
  <2> QED BY <2>2, <2>4, <2>7 DEF a
<1> QED BY <1>1, <1>2, HoldsNext DEF HInv, HTypeOK, StoresElsewhere

\* A word that is pushed lies below all the others, so it overwrites none.
LEMMA GrowsStep ==
    ASSUME HInv, Grows, clobbered => clobbered'
    PROVE  StackDepth' /\ StackHoldsFrames' /\ frames' \in Seq(Word)
<1> DEFINE w == Pushed(Fetched)
<1>1. /\ frames \in Seq(Word) /\ w \in Word /\ Len(frames) \in Nat
      /\ frames' = Append(frames, w)
  BY LenProperties DEF HInv, HTypeOK, Grows
<1>2. /\ frames' \in Seq(Word) /\ Len(frames') = Len(frames) + 1
      /\ frames'[Len(frames) + 1] = w
      /\ \A k \in 1..Len(frames) : frames'[k] = frames[k]
  BY <1>1, AppendProperties
<1>3. sp = MemSize - 4 * Len(frames) /\ sp' = sp - 4 /\ sp - 4 \in 0..(MemSize - 4)
  <2>1. sp = MemSize - 4 * Len(frames) /\ sp' = sp - 4
    BY DEF HInv, StackDepth, Grows
  <2> QED BY <2>1, SMT DEF HInv, HTypeOK, TypeOK, Grows
<1>4. sp' = MemSize - 4 * Len(frames')
  BY <1>1, <1>2, <1>3, SMT
<1>5. StackDepth'
  BY <1>4 DEF StackDepth
<1>6. mem \in [0..(MemSize - 1) -> Byte] /\ mem' = WriteU32(mem, sp - 4, w)
  BY DEF HInv, HTypeOK, TypeOK, Address, Grows
<1>7. ASSUME ~clobbered', NEW k \in 1..Len(frames')
      PROVE  ReadU32(mem', MemSize - 4 * k) = frames'[k]
  <2>1. CASE k = Len(frames) + 1
    <3>1. MemSize - 4 * k = sp - 4
      BY <1>1, <1>3, <2>1, SMT
    <3>2. ReadU32(mem', sp - 4) = w
      BY <1>1, <1>3, <1>6, ReadsBack
    <3> QED BY <1>2, <2>1, <3>1, <3>2
  <2>2. CASE k # Len(frames) + 1
    <3>1. k \in 1..Len(frames)
      BY <1>1, <1>2, <1>7, <2>2, SMT
    <3> DEFINE b == MemSize - 4 * k
    <3>2. b \in sp..(MemSize - 4) /\ b \in Int
      BY <3>1, FrameAddress DEF HInv
    <3>3. b \in 0..(MemSize - 4) /\ b >= (sp - 4) + 4
      <4> HIDE DEF b
      <4> QED BY <1>3, <3>2, SMT DEF HInv, HTypeOK, TypeOK
    <3>4. ReadU32(mem', b) = ReadU32(mem, b)
      <4> HIDE DEF b
      <4> QED BY <1>1, <1>3, <1>6, <3>3, ReadsOther
    <3>5. ReadU32(mem, b) = frames[k]
      BY <1>7, <3>1 DEF HInv, StackHoldsFrames
    <3> QED BY <1>2, <3>1, <3>4, <3>5
  <2> QED BY <2>1, <2>2
<1> QED BY <1>2, <1>5, <1>7, HoldsNext

LEMMA ShrinksStep ==
    ASSUME HInv, Shrinks, clobbered => clobbered'
    PROVE  /\ StackDepth' /\ StackHoldsFrames' /\ frames' \in Seq(Word)
           /\ frames # <<>>
<1>1. /\ frames \in Seq(Word) /\ Len(frames) \in Nat
      /\ sp = MemSize - 4 * Len(frames) /\ sp <= MemSize - 4 /\ sp' = sp + 4
  BY LenProperties DEF HInv, HTypeOK, Shrinks, StackDepth, LastWord
<1>2. Len(frames) # 0
  BY <1>1, SMT
<1>3. frames # <<>>
  BY <1>2
<1> DEFINE n == Len(frames) - 1
<1>4. /\ n \in Nat /\ n <= Len(frames) /\ 1..n \subseteq 1..Len(frames)
      /\ frames' = SubSeq(frames, 1, n)
  BY <1>1, <1>2, <1>3 DEF Shrinks
<1>5. /\ frames' \in Seq(Word) /\ Len(frames') = n
      /\ \A k \in 1..n : frames'[k] = frames[k]
  <2> HIDE DEF n
  <2>1. \A k \in 1..n : frames[k] \in Word
    BY <1>1, <1>4, ElementOfSeq
  <2>2. frames' = [k \in 1..n |-> frames[k]]
    BY <1>1, <1>4
  <2>3. frames' \in Seq(Word)
    BY <1>4, <2>1, <2>2
  <2>4. Len(frames') = n
    BY <1>4, <2>2, <2>3, LenProperties
  <2> QED BY <2>2, <2>3, <2>4
<1>6. sp' = MemSize - 4 * Len(frames')
  BY <1>1, <1>5, SMT
<1>7. StackDepth'
  BY <1>6 DEF StackDepth
<1>8. ~clobbered' => \A k \in 1..Len(frames') :
                        ReadU32(mem', MemSize - 4 * k) = frames'[k]
  <2> HIDE DEF n
  <2> QED BY <1>4, <1>5 DEF HInv, StackHoldsFrames, Shrinks
<1> QED BY <1>3, <1>5, <1>7, <1>8, HoldsNext

LEMMA FetchFaultKeeps ==
    ASSUME HTypeOK, FetchFault, Observe
    PROVE  Keeps /\ clobbered' = clobbered
<1>1. ~CanFetch
  BY SMT DEF FetchFault, CanFetch, HTypeOK, TypeOK, LastWord
<1> QED BY <1>1 DEF FetchFault, Observe, Keeps

LEMMA InvStep == ASSUME HInv, HNext PROVE HInv'
<1>1. TypeOK' /\ HTypeOK /\ StackDepth /\ Observe
  BY TypeStep DEF HInv, HTypeOK, HNext
<1>2. CASE FetchFault
  <2>1. Keeps /\ clobbered' = clobbered
    BY <1>1, <1>2, FetchFaultKeeps
  <2>2. StackDepth' /\ StackHoldsFrames' /\ frames' \in Seq(Word)
    BY <2>1, KeepsStep
  <2> QED BY <1>1, <2>1, <2>2 DEF HInv, HTypeOK
<1>3. CASE CanFetch /\ Execute(Fetched)
  <2>1. clobbered' = (clobbered \/ Stored(Fetched) \cap (sp..(MemSize - 1)) # {})
    BY <1>1, <1>3 DEF Observe
  <2>2. clobbered' \in BOOLEAN /\ (clobbered => clobbered')
    BY <2>1
  <2>3. StackDepth' /\ StackHoldsFrames' /\ frames' \in Seq(Word)
    BY <1>1, <1>3, <2>1, <2>2, StackEffect, KeepsStep, GrowsStep, ShrinksStep,
       StoresElsewhereStep
  <2> QED BY <1>1, <2>2, <2>3 DEF HInv, HTypeOK
<1> QED BY <1>2, <1>3 DEF HNext, Next

LEMMA InvStutter == ASSUME HInv, UNCHANGED hvars PROVE HInv'
<1>1. TypeOK'
  BY TypeStutter DEF HInv, HTypeOK, hvars
<1>2. Keeps /\ clobbered' = clobbered
  BY DEF hvars, vars, Keeps
<1>3. StackDepth' /\ StackHoldsFrames' /\ frames' \in Seq(Word)
  BY <1>2, KeepsStep
<1> QED BY <1>1, <1>2, <1>3 DEF HInv, HTypeOK

LEMMA InvInit == ASSUME HInit PROVE HInv
<1>1. TypeOK /\ frames = <<>> /\ clobbered = FALSE /\ sp = MemSize
  BY TypeInit DEF HInit, Init
<1>2. HTypeOK
  BY <1>1, EmptySeq DEF HTypeOK
<1>3. Len(frames) = 0
  BY <1>1
<1>4. StackDepth
  BY <1>1, <1>3, SMT DEF StackDepth
<1>5. StackHoldsFrames
  BY <1>3 DEF StackHoldsFrames
<1> QED BY <1>2, <1>4, <1>5 DEF HInv

LEMMA Invariant == HSpec => []HInv
BY InvInit, InvStep, InvStutter, PTL DEF HSpec

\* Memory, registers and history keep their types.
THEOREM StackTypeCorrect == HSpec => []HTypeOK
BY Invariant, PTL DEF HInv

\* The stack pointer counts the words that are pushed and not taken back.
THEOREM StackDepthCorrect == HSpec => []StackDepth
BY Invariant, PTL DEF HInv

\* Unless the program stores into its stack, every word on it is the one that
\* was pushed.
THEOREM StackContentCorrect == HSpec => []StackHoldsFrames
BY Invariant, PTL DEF HInv

-----------------------------------------------------------------------------
(* What a step may do.                                                     *)

LEMMA OnlyRetReturns ==
    ASSUME TypeOK, CanFetch, Execute(Fetched), Fetched.raw = RetWord
    PROVE  Ret(Fetched)
<1>1. Fetched.type = 0
  BY FetchedFields DEF RetWord
<1>2. ~Halt(Fetched) /\ ~Unknown(Fetched)
  BY DEF Halt, Unknown, RetWord
<1> QED BY <1>1, <1>2 DEF Execute, Mov, Inc, Dec, AddRegs, SubRegs, Cmp, Ldb, Stb, Movi,
           Lddi, Stdi, Push, Pop, Jump, Calli, Jz, Jnz, PrintChar, PrintString, ReadChar,
           PutChar, SaveLine, LoadLine, Syscall

LEMMA OnlyPopPops ==
    ASSUME TypeOK, CanFetch, Execute(Fetched), Fetched.type = 7, Fetched.op = 1
    PROVE  Pop(Fetched)
<1>1. Fetched.raw # RetWord
  BY TypedIsNoRet
<1>2. ~Halt(Fetched)
  <2>1. Fetched.raw # <<1, 0, 0, 0>>
    BY FetchedFields
  <2> QED BY <2>1 DEF Halt
<1>3. ~Unknown(Fetched)
  BY DEF Unknown, Known
<1> QED BY <1>1, <1>2, <1>3 DEF Execute, Ret, RetWord, Mov, Inc, Dec, AddRegs, SubRegs,
           Cmp, Ldb, Stb, Movi, Lddi, Stdi, Push, Jump, Calli, Jz, Jnz, PrintChar,
           PrintString, ReadChar, PutChar, SaveLine, LoadLine, Syscall

\* The word a POP or a RET takes is the top frame.
LEMMA TopFrame ==
    ASSUME HInv, ~clobbered, sp <= LastWord
    PROVE  frames # <<>> /\ ReadU32(mem, sp) = frames[Len(frames)]
<1>1. /\ frames \in Seq(Word) /\ Len(frames) \in Nat
      /\ sp = MemSize - 4 * Len(frames) /\ sp <= MemSize - 4
  BY LenProperties DEF HInv, HTypeOK, StackDepth, LastWord
<1>2. Len(frames) # 0 /\ Len(frames) \in 1..Len(frames)
  BY <1>1, SMT
<1>3. frames # <<>>
  BY <1>2
<1> QED BY <1>1, <1>2, <1>3 DEF HInv, StackHoldsFrames

\* A RET or a POP that does not stop the machine takes the word that the
\* matching CALLI or PUSH put there.
THEOREM TakesCorrect == HSpec => TakesWhatWasGiven
<1>1. ASSUME HInv, HNext, CanFetch, ~clobbered, Takes(Fetched), running'
      PROVE  /\ frames # <<>>
             /\ LET top == frames[Len(frames)]
                IN  IF Fetched.type = 7 THEN regs'[Fetched.rd] = top
                                        ELSE pc' = Low24(top)
  <2>1. TypeOK /\ Execute(Fetched)
    <3>1. ~FetchFault
      BY <1>1 DEF FetchFault
    <3> QED BY <1>1, <3>1 DEF HInv, HTypeOK, HNext, Next
  <2>2. CASE Fetched.raw = RetWord
    <3>1. Ret(Fetched) /\ Fetched.type # 7
      BY <1>1, <2>1, <2>2, OnlyRetReturns, FetchedFields DEF RetWord
    <3>2. ~Stop
      BY <1>1 DEF Stop
    <3>3. sp <= LastWord /\ pc' = Low24(ReadU32(mem, sp))
      BY <1>1, <3>1, <3>2 DEF Ret, JumpTo
    <3> QED BY <1>1, <3>1, <3>3, TopFrame
  <2>3. CASE Fetched.type = 7 /\ Fetched.op = 1
    <3>1. Pop(Fetched)
      BY <1>1, <2>1, <2>3, OnlyPopPops
    <3>2. ~Stop
      BY <1>1 DEF Stop
    <3>3. /\ Fetched.rd \in Reg /\ sp <= LastWord
          /\ SetReg(Fetched.rd, ReadU32(mem, sp))
      BY <3>1, <3>2 DEF Pop
    <3>4. regs'[Fetched.rd] = ReadU32(mem, sp)
      BY <2>1, <3>3 DEF SetReg, TypeOK
    <3> QED BY <1>1, <2>3, <3>3, <3>4, TopFrame
  <2> QED BY <1>1, <2>2, <2>3 DEF Takes, RetWord
<1>2. HInv /\ [HNext]_hvars =>
        [CanFetch /\ ~clobbered /\ Takes(Fetched) /\ running' =>
            /\ frames # <<>>
            /\ LET top == frames[Len(frames)]
               IN  IF Fetched.type = 7 THEN regs'[Fetched.rd] = top
                                       ELSE pc' = Low24(top)]_hvars
  BY <1>1
<1> QED BY <1>2, Invariant, PTL DEF HSpec, TakesWhatWasGiven

\* Only the branches that stop and a RET stop the machine.
LEMMA StopOrRet ==
    ASSUME CanFetch, Execute(Fetched), ~running'
    PROVE  Stop \/ Ret(Fetched)
<1> DEFINE i == Fetched
<1>2. ~Continue /\ \A target : ~JumpTo(target)
  BY DEF CanFetch, Continue, JumpTo
<1>3. ASSUME Halt(i) \/ Unknown(i) PROVE Stop
  BY <1>3 DEF Halt, Unknown
<1>4. ASSUME \/ Mov(i) \/ Inc(i) \/ Dec(i) \/ AddRegs(i) \/ SubRegs(i) \/ Cmp(i) \/ Ldb(i)
             \/ Stb(i) \/ Movi(i) \/ Lddi(i) \/ Stdi(i) \/ Push(i) \/ Pop(i)
      PROVE  Stop
  BY <1>2, <1>4 DEF Mov, Inc, Dec, AddRegs, SubRegs, Cmp, Ldb, Stb, Movi, Lddi, Stdi, Push, Pop
<1>5. ASSUME Jump(i) \/ Calli(i) \/ Jz(i) \/ Jnz(i) PROVE Stop
  BY <1>2, <1>5 DEF Jump, Calli, Jz, Jnz, Transfer
<1>6. ASSUME PrintChar(i) \/ PrintString(i) \/ ReadChar(i) \/ PutChar(i) \/ SaveLine(i)
             \/ LoadLine(i)
      PROVE  Stop
  BY <1>2, <1>6 DEF PrintChar, PrintString, ReadChar, PutChar, SaveLine, LoadLine
<1> QED BY <1>3, <1>4, <1>5, <1>6 DEF Execute

\* A machine stops with everything but pc as the instruction found it, a RET to
\* a bad target apart.
THEOREM StopCorrect == HSpec => StopsPrecisely
<1> DEFINE Precise ==
             /\ UNCHANGED <<mem, regs, zero, stdin, stdout, line>>
             /\ \/ sp' = sp
                \/ /\ CanFetch /\ Fetched.raw = <<2, 0, 0, 0>>
                   /\ sp' = sp + 4
                   /\ ~AtMost(ReadU32(mem, sp), LastWord)
<1>1. ASSUME HNext, running, ~running'
      PROVE  Precise
  <2>1. CASE FetchFault \/ Stop
    BY <2>1 DEF FetchFault, Stop
  <2>2. CASE CanFetch /\ Ret(Fetched) /\ ~Stop
    <3>1. ~JumpTo(Low24(ReadU32(mem, sp)))
      BY <1>1 DEF JumpTo
    <3> QED BY <2>2, <3>1 DEF Ret, NoIO
  <2> QED BY <1>1, <2>1, <2>2, StopOrRet DEF HNext, Next
<1>2. [HNext]_hvars => [running /\ ~running' => Precise]_hvars
  BY <1>1
<1> QED BY <1>2, PTL DEF HSpec, StopsPrecisely
=============================================================================
