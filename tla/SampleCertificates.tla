------------------------- MODULE SampleCertificates -------------------------
(***************************************************************************)
(* The certificates of the programs in assembler.  Each of them is         *)
(* translated, as the assembler does it, and the forgetful machine of      *)
(* Confinement goes through its code, one instruction a step.  The states  *)
(* that it reaches are the certificate, when it never gets lost on the     *)
(* way and no instruction that it sees is out of order.                    *)
(*                                                                         *)
(* What the machine reads and what the disk holds does not appear here, so *)
(* that there is nothing to scale down: memory and buffers have the sizes  *)
(* of the code.                                                            *)
(***************************************************************************)
EXTENDS SamplePlans

CONSTANTS
    Days,       \* the programs, by the day they were made
    MemSize,    \* MEMORY_SIZE, 1024 * 1024 in the code
    NoFile

VARIABLES
    program,    \* the program, by its day
    now         \* the state of the forgetful machine

\* The texts of lexemes are of no interest, and neither is the memory of the
\* machine that does not forget.
S == INSTANCE AsmLine WITH Texts <- {}
C == INSTANCE Confinement
        WITH LineSize <- BufferSize, RegCount <- 8, Images <- {}, Inputs <- {}, Files <- {},
             MaxOutput <- 0, mem <- <<>>, pc <- 0, sp <- 0, regs <- <<>>, zero <- FALSE,
             running <- FALSE, stdin <- <<>>, stdout <- <<>>, line <- <<>>

-----------------------------------------------------------------------------
(* The programs.                                                           *)

\* The addresses behind the lines from first to last, the first of which is at a.
RECURSIVE EndsOf(_, _, _, _)
EndsOf(s, first, last, a) ==
    IF first = last THEN <<a + S!Size(S!Body(s[first]), a)>>
    ELSE LET middle == (first + last) \div 2
             ends == EndsOf(s, first, middle, a)
         IN  ends \o EndsOf(s, middle + 1, last, Last(ends))
Starts(s) == <<0>> \o EndsOf(s, 1, Len(s), 0)

\* Their bytes.
RECURSIVE BytesOf(_, _, _, _)
BytesOf(s, first, last, starts) ==
    IF first = last THEN S!LineBytes(S!Body(s[first]), starts[first], S!PlacesOf(s, starts))
    ELSE LET middle == (first + last) \div 2
         IN  BytesOf(s, first, middle, starts) \o BytesOf(s, middle + 1, last, starts)
Code(s) == BytesOf(s, 1, Len(s), Starts(s))

Plans == {[day |-> d, plan |-> PlanOf(d, Code(Source(d)))] : d \in Days}
Plan == [d \in Days |-> (CHOOSE p \in Plans : p.day = d).plan]

\* The code of a plan is the translation of its source.
ASSUME PlansAreTranslations ==
    \A d \in Days :
        S!IsTranslation(Source(d), Starts(Source(d)), Plan[d].code) /\ C!IsPlan(Plan[d])

-----------------------------------------------------------------------------
(* The machine.                                                            *)

Init == program \in Days /\ now = C!Entry

Next ==
    \E plan \in {Plan[program]}, s \in {now} :
        /\ C!InCode(plan, s)
        /\ \E i \in {C!InstructionAt(plan, s)} : now' \in C!Leads(plan, s, i)
        /\ UNCHANGED program

Spec == Init /\ [][Next]_<<program, now>>

\* No program, whatever it reads, leaves its code, writes where it may not, calls
\* from within a subroutine, has an instruction that run() takes for an error,
\* halts in a subroutine, or reads in one when the others read outside.
NeverLost ==
    \E plan \in {Plan[program]}, s \in {now} :
        C!InCode(plan, s) /\ C!Orderly(plan, s, C!InstructionAt(plan, s))
=============================================================================
