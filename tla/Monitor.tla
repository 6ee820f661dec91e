------------------------------ MODULE Monitor ------------------------------
(***************************************************************************)
(* The process around the machine in notes/vm.c: main, the program loader, *)
(* the built-in self test and the monitor, which reads the names of        *)
(* program files from the standard input and runs one after the other.     *)
(* The machine is the one of VM; its input is what the monitor has left of *)
(* the common standard input, and the other way round.                     *)
(*                                                                         *)
(* The variables of the machine hold the struct VM on the stack of         *)
(* run_program_file: it is dead while no program runs, and the next call   *)
(* finds there what the last one left.  What it holds before the first is  *)
(* read by nobody.  Prompts and messages are left out.                     *)
(***************************************************************************)
EXTENDS VM, FiniteSets

CONSTANTS
    Disk,       \* the program files: name -> content
    Starts,     \* how the process may be started: its arguments and its input
    LineMax,    \* sizeof(line) in run_monitor, 256 in the code
    ProbeFails  \* whether the read behind a full memory may fail

ASSUME DiskAssumption == \A name \in DOMAIN Disk : Disk[name] \in Seq(Byte)
ASSUME StartsAssumption ==
    \A start \in Starts : start.args \in Seq(Seq(Byte)) /\ start.stdin \in Seq(Byte)
ASSUME LineMaxAssumption == LineMax \in Nat /\ LineMax >= 2

VARIABLES
    mode,       \* "start", "prompt", "running", "done" (exit 0), "failed" (exit 1)
    args,       \* the arguments of the process
    seen,       \* history: the bytes of the standard input the monitor has read
    asked       \* history: the names it has tried to run

machine == <<mem, pc, sp, regs, zero, running>>
mvars == <<vars, mode, args, seen, asked>>

\* "--self-test", and the words that end a session.
SelfTestOption == <<45, 45, 115, 101, 108, 102, 45, 116, 101, 115, 116>>
QuitWords == {<<113, 117, 105, 116>>, <<113>>, <<101, 120, 105, 116>>}

MInit ==
    /\ mem = [a \in Address |-> 0] /\ pc = 0 /\ sp = 0
    /\ regs = [r \in Reg |-> <<0, 0, 0, 0>>] /\ zero = FALSE /\ running = FALSE
    /\ \E start \in Starts : args = start.args /\ stdin = start.stdin
    /\ stdout = <<>> /\ line \in Files
    /\ mode = "start" /\ seen = <<>> /\ asked = <<>>

-----------------------------------------------------------------------------
(* Loading.                                                                *)

\* Machine without the memset of init_vm.
MachineOver(bytes) ==
    /\ mem' = [a \in Address |-> IF a + 1 \in DOMAIN bytes THEN bytes[a + 1] ELSE mem[a]]
    /\ pc' = 0 /\ sp' = MemSize /\ running' = TRUE
    /\ UNCHANGED <<regs, zero>>

\* Machine whose stack begins a word too high.
MachineStackBeyond(bytes) ==
    /\ mem' = [a \in Address |-> IF a + 1 \in DOMAIN bytes THEN bytes[a + 1] ELSE 0]
    /\ pc' = 0 /\ sp' = MemSize + 4 /\ running' = TRUE
    /\ regs' = [r \in Reg |-> <<0, 0, 0, 0>>] /\ zero' = FALSE

\* init_vm, and bytes in memory from address 0, as many as fit.
Machine(bytes) ==
    /\ mem' = [a \in Address |-> IF a + 1 \in DOMAIN bytes THEN bytes[a + 1] ELSE 0]
    /\ pc' = 0 /\ sp' = MemSize /\ running' = TRUE
    /\ regs' = [r \in Reg |-> <<0, 0, 0, 0>>] /\ zero' = FALSE

\* Open, read or size check fail: the machine is left with none or some of the
\* file in memory (here all that fits), and is not run.
LoadFails(name, next) ==
    /\ \/ Machine(<<>>)
       \/ name \in DOMAIN Disk /\ Machine(Disk[name])
    /\ mode' = next

\* A file as long as memory is probed for one more byte.  fgetc answers EOF
\* at the end of the file, and when it fails.
Loads(name) ==
    /\ name \in DOMAIN Disk
    /\ ~ProbeFails => Len(Disk[name]) <= MemSize
    /\ Machine(Disk[name]) /\ mode' = "running"

\* init_vm, load_program_file, and the result: run() or the way back.
LoadProgram(name, next) == Loads(name) \/ LoadFails(name, next)

-----------------------------------------------------------------------------
(* The self test.                                                          *)

\* load_test_program: the words of the program and one of data, each with its
\* address, and a text at 0x100.
TestCode ==
    { <<0, <<64,16,0,128>>>>, <<4, <<64,0,0,65>>>>, <<8, <<49,16,0,0>>>>,
      <<12, <<48,1,0,0>>>>, <<16, <<96,0,0,0>>>>, <<20, <<80,32,0,144>>>>,
      <<24, <<81,32,0,64>>>>, <<28, <<32,32,0,0>>>>, <<32, <<33,32,0,0>>>>,
      <<36, <<16,50,0,0>>>>, <<40, <<34,35,0,0>>>>, <<44, <<35,35,0,0>>>>,
      <<48, <<36,35,0,0>>>>, <<52, <<106,0,0,80>>>>, <<56, <<104,0,0,84>>>>,
      <<80, <<64,0,0,90>>>>, <<84, <<64,80,0,1>>>>, <<88, <<36,5,0,0>>>>,
      <<92, <<107,0,0,104>>>>, <<96, <<104,0,0,108>>>>, <<104, <<112,48,0,0>>>>,
      <<108, <<113,64,0,0>>>>, <<112, <<105,0,0,160>>>>, <<116, <<64,0,1,0>>>>,
      <<120, <<96,0,0,1>>>>, <<124, <<1,0,0,0>>>>, <<144, <<18,52,86,120>>>>,
      <<160, <<64,96,0,42>>>>, <<164, <<2,0,0,0>>>> }
TestText == <<86, 77, 32, 102, 108, 111, 119, 32, 99, 111, 109, 112, 108, 101, 116, 101, 46, LF>>

TestImage ==
    [i \in 1..(256 + Len(TestText)) |->
        LET a == i - 1
            here == {c \in TestCode : c[1] = a - (a % 4)}
        IN  IF a >= 256 THEN TestText[a - 255]
            ELSE IF here = {} THEN 0
            ELSE (CHOOSE c \in here : TRUE)[2][(a % 4) + 1]]

-----------------------------------------------------------------------------
(* The process.                                                            *)

Main ==
    /\ mode = "start"
    /\ \/ args = <<>> /\ mode' = "prompt" /\ UNCHANGED machine
       \/ Len(args) > 1 /\ mode' = "failed" /\ UNCHANGED machine
       \/ Len(args) = 1 /\ args[1] = SelfTestOption /\ Machine(TestImage) /\ mode' = "running"
       \/ Len(args) = 1 /\ args[1] # SelfTestOption /\ LoadProgram(args[1], "failed")
    /\ UNCHANGED <<stdin, stdout, line, args, seen, asked>>

\* PieceLength that takes a byte more than the array has room for.
PieceLengthOver(s) ==
    CHOOSE n \in 1..Len(s) :
        /\ n = Len(s) \/ n = LineMax \/ s[n] = LF
        /\ \A i \in 1..(n - 1) : i # LineMax /\ s[i] # LF

\* What fgets takes from a non-empty input: up to the first LF, or as much as
\* the array holds beside its terminator, or what there is.
PieceLength(s) ==
    CHOOSE n \in 1..Len(s) :
        /\ n = Len(s) \/ n = LineMax - 1 \/ s[n] = LF
        /\ \A i \in 1..(n - 1) : i # LineMax - 1 /\ s[i] # LF

\* strip_line_end on the bytes before the first NUL.
CommandIn(piece) ==
    LET length == CHOOSE n \in 0..Len(piece) :
            /\ n = Len(piece) \/ piece[n + 1] = 0
            /\ \A i \in 1..n : piece[i] # 0
        kept == CHOOSE n \in 0..length :
            /\ n = 0 \/ piece[n] \notin {CR, LF}
            /\ \A i \in (n + 1)..length : piece[i] \in {CR, LF}
    IN  SubSeq(piece, 1, kept)

\* EndOfInput that asks again.
EndOfInputIgnored == stdin = <<>> /\ UNCHANGED <<machine, mode, stdin, seen, asked>>

EndOfInput == stdin = <<>> /\ mode' = "done" /\ UNCHANGED <<machine, stdin, seen, asked>>

\* One turn of the monitor's loop.
ReadCommand ==
    /\ mode = "prompt"
    /\ \/ EndOfInput
       \/ /\ stdin # <<>>
          /\ \E n \in {PieceLength(stdin)} : \E command \in {CommandIn(SubSeq(stdin, 1, n))} :
                /\ stdin' = SubSeq(stdin, n + 1, Len(stdin))
                /\ seen' = seen \o SubSeq(stdin, 1, n)
                /\ \/ command = <<>> /\ UNCHANGED <<machine, mode, asked>>
                   \/ command \in QuitWords /\ mode' = "done" /\ UNCHANGED <<machine, asked>>
                   \/ /\ command # <<>> /\ command \notin QuitWords
                      /\ asked' = Append(asked, command)
                      /\ LoadProgram(command, "prompt")
    /\ UNCHANGED <<stdout, line, args>>

\* A turn of run().
Turn == mode = "running" /\ Next /\ UNCHANGED <<mode, args, seen, asked>>

\* run() returns, to the monitor's prompt or to the end of main.
Return ==
    /\ mode = "running" /\ ~running
    /\ mode' = IF args = <<>> THEN "prompt" ELSE "done"
    /\ UNCHANGED <<vars, args, seen, asked>>

MNext == Main \/ ReadCommand \/ Turn \/ Return

MSpec == MInit /\ [][MNext]_mvars

\* The process is one thread that nothing keeps waiting: its input is there.
MFairSpec == MSpec /\ WF_mvars(MNext)

-----------------------------------------------------------------------------
(* Properties.                                                             *)

\* Types, with those of the machine, dead or alive.
MTypeOK ==
    /\ TypeOK
    /\ mode \in {"start", "prompt", "running", "done", "failed"}
    /\ args \in Seq(Seq(Byte))
    /\ seen \in Seq(Byte) /\ asked \in Seq(Seq(Byte))

\* How many bytes of s come before the line of place p.
LineStart(s, p) == CHOOSE b \in 0..(p - 1) :
    /\ b = 0 \/ s[b] = LF
    /\ \A i \in (b + 1)..(p - 1) : s[i] # LF

\* The places of s where a line, or a part of one as long as the monitor
\* takes at a time, ends: counted from the last LF, not from the last read.
PieceEnds(s) ==
    {p \in 1..Len(s) :
        p = Len(s) \/ s[p] = LF \/ (p - LineStart(s, p)) % (LineMax - 1) = 0}
PieceStart(s, p) == CHOOSE b \in 1..p :
    /\ b = 1 \/ b - 1 \in PieceEnds(s)
    /\ \A i \in b..(p - 1) : i \notin PieceEnds(s)

\* The text before a NUL or the ends of line that close a piece.
IsNameIn(name, s, b, p) ==
    /\ Len(name) <= p - b + 1
    /\ name # <<>> /\ name[Len(name)] \notin {CR, LF}
    /\ \A i \in 1..Len(name) : name[i] = s[b + i - 1] /\ name[i] # 0
    /\ \E e \in (b + Len(name))..(p + 1) :
          /\ e = p + 1 \/ s[e] = 0
          /\ \A i \in (b + Len(name))..(e - 1) : s[i] \in {CR, LF}

\* The name in the piece of s that ends at p, if any, and the pieces that name
\* a program.
NamesAt(s, p) ==
    {name \in {SubSeq(s, PieceStart(s, p), k) : k \in 0..p} : IsNameIn(name, s, PieceStart(s, p), p)}
Named(s) ==
    {p \in PieceEnds(s) : NamesAt(s, p) # {} /\ NamesAt(s, p) \cap QuitWords = {}}

\* run_monitor asks for exactly the programs that its part of the input names,
\* piece by piece and in order, wherever the programs it ran took their own
\* input from the common stream; and nothing is read behind a quit word.
CommandsInOrder ==
    LET named == Named(seen)
        Count(p) == Cardinality({e \in named : e <= p})
    IN  /\ Len(asked) = Cardinality(named)
        /\ \A p \in named : asked[Count(p)] \in NamesAt(seen, p)
        /\ \A p \in PieceEnds(seen) :
              NamesAt(seen, p) \cap QuitWords # {} => mode = "done" /\ p = Len(seen)

\* Day 31, 21: a program starts in a new machine, at address 0, with all of the
\* file it was asked for in memory and nothing of the programs before it.
StartsFresh ==
    [][mode # "running" /\ mode' = "running" =>
        /\ pc' = 0 /\ sp' = MemSize /\ running' /\ ~zero'
        /\ \A r \in Reg : regs'[r] = <<0, 0, 0, 0>>
        /\ LET image == IF asked' # <<>> THEN Disk[asked'[Len(asked')]]
                        ELSE IF args = <<SelfTestOption>> THEN TestImage
                        ELSE Disk[args[1]]
           IN  \A a \in Address : mem'[a] = IF a + 1 \in DOMAIN image THEN image[a + 1] ELSE 0]_mvars

\* manual/specs/021-binary-loader.md:15: a file that cannot be read, or is
\* larger than memory, is not executed.
TooLargeNeverRuns ==
    [][mode # "running" /\ mode' = "running" /\ args # <<SelfTestOption>> =>
        LET name == IF asked' # <<>> THEN asked'[Len(asked')] ELSE args[1]
        IN  name \in DOMAIN Disk => Len(Disk[name]) <= MemSize]_mvars

\* run_monitor survives every program that stops and ends when its input does:
\* the process ends unless one of the programs never does.
SessionEnds == <>(mode \in {"done", "failed"}) \/ <>[](mode = "running" /\ running)

\* README.md:246-255: the self test prints its two lines and ends; on the way
\* every value it moves through registers, memory and stack has survived.
SelfTestPasses ==
    mode = "start" /\ args = <<SelfTestOption>> ~>
        /\ mode = "done"
        /\ stdout = <<65, LF>> \o TestText
        /\ sp = MemSize
        /\ regs[4] = <<18, 52, 86, 120>> /\ regs[6] = <<0, 0, 0, 42>>
=============================================================================
