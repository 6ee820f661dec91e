---------------------------- MODULE Confinement ----------------------------
(***************************************************************************)
(* Where a program can write, found without its input.  A machine that     *)
(* forgets goes through a program of VM once for all inputs: it knows      *)
(* nothing of what memory holds, of a register the word or nothing, and at *)
(* a jump that depends on something forgotten it goes both ways.  A set of *)
(* its states that it never leaves is a certificate: the program writes    *)
(* where its plan says it may, calls at most one subroutine deep, and      *)
(* stays in its code.                                                      *)
(*                                                                         *)
(* A plan has the bytes of the code, which begins at address 0; writes,    *)
(* the addresses the program may write to; zeros, those of them where      *)
(* nothing but a zero is written; and kept, the registers with which a     *)
(* subroutine hands something back.  It may also have reads: whether it is *)
(* a subroutine that reads the input.                                      *)
(***************************************************************************)
EXTENDS VM

\* What is known of a value: nothing, or the value.
Forgotten == <<>>
Exactly(x) == <<x>>
Allows(known, x) == known = Forgotten \/ known = Exactly(x)

\* The one frame a program has on the stack.
Frame == LastWord..(MemSize - 1)

\* A state: the address of the next instruction, the return address if a
\* subroutine runs, and what is known of the registers and the flag.
State(a, calls, known, flag) == [pc |-> a, calls |-> calls, regs |-> known, zero |-> flag]
NothingKnown == [r \in Reg |-> Forgotten]
Entry == State(0, <<>>, NothingKnown, Forgotten)

\* The state of a program that does something it has no certificate for.
Lost == State(-1, <<>>, NothingKnown, Forgotten)
If(ok, t) == {IF ok THEN t ELSE Lost}

-----------------------------------------------------------------------------
(* What the instructions do to what is known.                              *)

PointsInto(known, addresses) ==
    known # Forgotten /\ known[1][1] = 0 /\ Low24(known[1]) \in addresses

\* A pointer is followed as long as it is in the code or a place to write to.
CodePlaces(plan) == 0..(Len(plan.code) - 1)
Incremented(plan, known) ==
    IF known # Forgotten /\ PointsInto(Exactly(Add(known[1], One)), CodePlaces(plan) \cup plan.writes)
    THEN Exactly(Add(known[1], One)) ELSE Forgotten

ByteRead(plan, known) ==
    IF PointsInto(known, CodePlaces(plan)) THEN Exactly(<<0, 0, 0, plan.code[Low24(known[1]) + 1]>>)
    ELSE IF PointsInto(known, plan.zeros) THEN Exactly(<<0, 0, 0, 0>>)
    ELSE Forgotten

MayStore(plan, to, known) ==
    /\ PointsInto(to, plan.writes)
    /\ PointsInto(to, plan.zeros) => known # Forgotten /\ known[1][4] = 0

MayLoadLine(plan, to) ==
    /\ to # Forgotten
    /\ Low24(to[1])..(Low24(to[1]) + LineSize - 1) \subseteq plan.writes \ plan.zeros

GoesTo(s, target) == State(target, s.calls, s.regs, s.zero)
GoesOn(s) == GoesTo(s, s.pc + 4)
Sets(s, r, known) ==
    State(s.pc + 4, s.calls, [q \in Reg |-> IF q = r THEN known ELSE s.regs[q]], s.zero)

\* A comparison is followed to each of its outcomes that what is known allows.
\* When the registers are equal, what is known of one is known of both.
Differ(known, other) == known # Forgotten /\ other # Forgotten /\ known # other
Same(known, other) == known # Forgotten /\ known = other
Equal(s, rd, rs) ==
    State(s.pc + 4, s.calls,
          [q \in Reg |-> IF q \notin {rd, rs} THEN s.regs[q]
                         ELSE IF s.regs[rd] = Forgotten THEN s.regs[rs] ELSE s.regs[rd]],
          Exactly(TRUE))
Unequal(s) == State(s.pc + 4, s.calls, s.regs, Exactly(FALSE))
Compares(s, rd, rs) ==
    (IF Differ(s.regs[rd], s.regs[rs]) THEN {} ELSE {Equal(s, rd, rs)})
    \cup (IF Same(s.regs[rd], s.regs[rs]) THEN {} ELSE {Unequal(s)})

\* A call from within a subroutine has no certificate, and neither has a return
\* from anywhere else.
Called(s, target) ==
    If(s.calls = <<>>, State(target, <<s.pc + 4>>, s.regs, s.zero))
Returned(plan, s) ==
    If(s.calls # <<>>,
       State(s.calls[1], <<>>,
             [r \in Reg |-> IF r \in plan.kept THEN s.regs[r] ELSE Forgotten], s.zero))

\* A jump that is taken when the flag is b.
Branches(s, target, b) ==
    (IF Allows(s.zero, b) THEN {GoesTo(s, target)} ELSE {})
    \cup (IF Allows(s.zero, ~b) THEN {GoesOn(s)} ELSE {})

\* The states that an instruction at s leads to, by the kind of instruction.
When(condition, states) == IF condition THEN states ELSE {}
Is(i, type, op) == i.type = type /\ i.op = op

RegisterLeads(plan, s, i) ==
    When(Is(i, 4, 0), If(i.rd \in Reg, Sets(s, i.rd, Exactly(WordOf(i.imm)))))
    \cup When(Is(i, 2, 0), If(i.rd \in Reg, Sets(s, i.rd, Incremented(plan, s.regs[i.rd]))))
    \cup When(Is(i, 2, 4),
              IF {i.rd, i.rs} \subseteq Reg THEN Compares(s, i.rd, i.rs) ELSE {Lost})

MemoryLeads(plan, s, i) ==
    When(Is(i, 3, 0),
         If({i.rd, i.rs} \subseteq Reg, Sets(s, i.rd, ByteRead(plan, s.regs[i.rs]))))
    \cup When(Is(i, 3, 1),
              If({i.rd, i.rs} \subseteq Reg /\ MayStore(plan, s.regs[i.rd], s.regs[i.rs]),
                 GoesOn(s)))

TransferLeads(plan, s, i) ==
    When(i.raw = <<2, 0, 0, 0>>, Returned(plan, s))
    \cup When(Is(i, 6, 8), {GoesTo(s, i.imm)})
    \cup When(Is(i, 6, 9), Called(s, i.imm))
    \cup When(Is(i, 6, 10), Branches(s, i.imm, TRUE))
    \cup When(Is(i, 6, 11), Branches(s, i.imm, FALSE))

SystemCallLeads(plan, s, i) ==
    When(Is(i, 6, 0) /\ i.imm \in {0, 1, 3}, {GoesOn(s)})
    \cup When(Is(i, 6, 0) /\ i.imm \in {2, 4}, {Sets(s, 0, Forgotten)})
    \cup When(Is(i, 6, 0) /\ i.imm = 5,
              If(MayLoadLine(plan, s.regs[0]), Sets(s, 0, Forgotten)))

\* The other instructions have no certificate.
Uncertified(i) == i.type \in {1, 5, 7} \/ (i.type = 2 /\ i.op \in {1, 2, 3})

Leads(plan, s, i) ==
    RegisterLeads(plan, s, i) \cup MemoryLeads(plan, s, i) \cup TransferLeads(plan, s, i)
    \cup SystemCallLeads(plan, s, i) \cup When(Uncertified(i), {Lost})

-----------------------------------------------------------------------------
(* Certificates.                                                           *)

\* Neither the code nor the frame is among the places to write to.
IsPlan(plan) ==
    /\ plan.code \in Seq(Byte) /\ Len(plan.code) <= LastWord
    /\ plan.writes \subseteq Len(plan.code)..(LastWord - 1)
    /\ plan.zeros \subseteq plan.writes

InCode(plan, s) == s.pc \in 0..(Len(plan.code) - 4)
InstructionAt(plan, s) == Decode([k \in 1..4 |-> plan.code[s.pc + k]])

Certifies(states, plan) ==
    /\ Entry \in states
    /\ \A s \in states : InCode(plan, s) /\ Leads(plan, s, InstructionAt(plan, s)) \subseteq states

Certified(plan) == IsPlan(plan) /\ \E states : Certifies(states, plan)

\* An instruction is orderly that cannot stop the machine but at a HALT outside
\* of every subroutine, or at the end of an input that is read where it should.
Understood(i) ==
    \/ i.raw \in {<<1, 0, 0, 0>>, <<2, 0, 0, 0>>}
    \/ <<i.type, i.op>> \in Known /\ (Is(i, 6, 0) => i.imm <= 5)
Orderly(plan, s, i) ==
    /\ Understood(i)
    /\ i.raw = <<1, 0, 0, 0>> => s.calls = <<>>
    /\ Is(i, 6, 0) /\ i.imm = 2 => IF plan.reads THEN s.calls # <<>> ELSE s.calls = <<>>
    /\ Is(i, 3, 0) => PointsInto(s.regs[i.rs], Address)

WellBehaved(plan) ==
    /\ IsPlan(plan)
    /\ \E states :
          Certifies(states, plan) /\ \A s \in states : Orderly(plan, s, InstructionAt(plan, s))

\* Memory with a file from address 0 on, and zeros behind it.
Image(f) == [a \in Address |-> IF a < Len(f) THEN f[a + 1] ELSE 0]

\* The machine is in a state that s says nothing false of.
Describes(s) ==
    /\ pc = s.pc
    /\ IF s.calls = <<>> THEN sp = MemSize
       ELSE sp = LastWord /\ ReadU32(mem, sp) = WordOf(s.calls[1])
    /\ \A r \in Reg : Allows(s.regs[r], regs[r])
    /\ Allows(s.zero, zero)

\* Outside the places to write to and the frame, memory is what it was when the
\* machine was started.
Intact(plan, image) ==
    /\ \A a \in Address \ (plan.writes \cup Frame) : mem[a] = image[a]
    /\ \A a \in plan.zeros : mem[a] = 0

\* What runs is described by one of the states.
Confined(plan, states, image) ==
    /\ Intact(plan, image)
    /\ sp \in {LastWord, MemSize}
    /\ running => \E s \in states : Describes(s)
=============================================================================
