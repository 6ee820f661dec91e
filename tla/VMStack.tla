------------------------------ MODULE VMStack ------------------------------
(***************************************************************************)
(* VM with a record of its stack.  The stack of notes/vm.c lives in the    *)
(* same memory as the program and its data, and nothing in the machine     *)
(* remembers what was pushed.  Two history variables remember it here:     *)
(* frames is what PUSH and CALLI have pushed and POP and RET not taken     *)
(* back, and clobbered tells whether the program has since written into    *)
(* the stack with a store or a loaded line.  They observe VM and never     *)
(* constrain it.                                                           *)
(***************************************************************************)
EXTENDS VM

VARIABLES frames, clobbered

hvars == <<vars, frames, clobbered>>

HInit == Init /\ frames = <<>> /\ clobbered = FALSE

\* What the instruction at pc does to the stack when it does not stop.
Pushes(i) == i.type = 7 /\ i.op = 0
Calls(i) == i.type = 6 /\ i.op = 9
Takes(i) == i.raw = <<2, 0, 0, 0>> \/ (i.type = 7 /\ i.op = 1)
Pushed(i) == IF Calls(i) THEN WordOf(pc + 4) ELSE regs[i.rd]

\* A return that stops the machine has popped its frame all the same.
Succeeds(i) == running' \/ i.raw = <<2, 0, 0, 0>>

FramesAfter(i) ==
    IF (Pushes(i) \/ Calls(i)) /\ Succeeds(i) THEN Append(frames, Pushed(i))
    ELSE IF Takes(i) /\ Succeeds(i) /\ frames # <<>>
         THEN SubSeq(frames, 1, Len(frames) - 1)
         ELSE frames

\* The addresses the program stores to, its pushes apart.
Stored(i) ==
    CASE i.type = 3 /\ i.op = 1 /\ running' -> {Low24(regs[i.rd])}
      [] i.type = 5 /\ i.op = 1 /\ running' -> i.imm..(i.imm + 3)
      [] Syscall(i, 5) /\ regs'[0] = WordOf(0) ->
             Low24(regs[0])..(Low24(regs[0]) + LineSize - 1)
      [] OTHER -> {}

Observe ==
    IF CanFetch
    THEN /\ frames' = FramesAfter(Fetched)
         /\ clobbered' = (clobbered \/ Stored(Fetched) \cap (sp..(MemSize - 1)) # {})
    ELSE UNCHANGED <<frames, clobbered>>

HNext == Next /\ Observe

HSpec == HInit /\ [][HNext]_hvars
HFairSpec == HSpec /\ WF_hvars(HNext)

-----------------------------------------------------------------------------
HTypeOK ==
    /\ TypeOK
    /\ frames \in Seq(Word)
    /\ clobbered \in BOOLEAN

\* The stack pointer stands exactly as many words below the end of memory as
\* there are words pushed and not taken back, whatever mixture of PUSH, POP,
\* CALLI and RET, faults and self-modification got it there: no fault leaves
\* it half moved, and the overflow and underflow checks never let it leave
\* memory.
StackDepth == sp = MemSize - 4 * Len(frames)

\* Every word on the stack is still the one that was pushed, however deep it
\* lies, as long as no store and no loaded line has hit the stack: pushes and
\* calls never overlap an older frame.
StackHoldsFrames ==
    ~clobbered => \A k \in 1..Len(frames) : ReadU32(mem, MemSize - 4 * k) = frames[k]

\* A RET gives control back to the instruction after the CALLI whose frame is
\* on top, and a POP delivers the word PUSH was given, unless the program has
\* overwritten its stack.
TakesWhatWasGiven ==
    [][CanFetch /\ ~clobbered /\ Takes(Fetched) /\ running' =>
          /\ frames # <<>>
          /\ LET top == frames[Len(frames)]
             IN  IF Fetched.type = 7 THEN regs'[Fetched.rd] = top
                                     ELSE pc' = Low24(top)]_hvars

\* A machine that stops, by HALT, a fault or the end of the input, stops with
\* everything but pc as the instruction found it.  The one exception is a RET
\* to a target outside memory, which has already taken its frame.
StopsPrecisely ==
    [][running /\ ~running' =>
          /\ UNCHANGED <<mem, regs, zero, stdin, stdout, line>>
          /\ \/ sp' = sp
             \/ /\ CanFetch /\ Fetched.raw = <<2, 0, 0, 0>>
                /\ sp' = sp + 4
                /\ ~AtMost(ReadU32(mem, sp), LastWord)]_hvars

\* The next step is a transfer that is taken and does not go forward.
BackwardNext ==
    /\ CanFetch
    /\ LET i == Fetched
       IN  \/ /\ i.type = 6 /\ i.op \in {8, 9} \cup {IF zero THEN 10 ELSE 11}
             /\ i.imm <= pc
          \/ /\ i.raw = <<2, 0, 0, 0>> /\ sp <= LastWord
             /\ Low24(ReadU32(mem, sp)) <= pc

\* The machine never hangs: a program that does not keep taking backward jumps,
\* calls or returns comes to a stop, running into the zeros after its image or
\* off the end of memory if nothing stops it sooner.
LoopsOrStops == []<>(~running \/ BackwardNext)
=============================================================================
